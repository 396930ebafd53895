CONSTANTS
    StrLeaves <- MCStrLeaves
    BoolLeaves <- MCBoolLeaves
    IntLeaves <- MCIntLeaves
    SliceLeaves <- MCSliceLeaves
    Fields <- MCFields
    Frames <- MCFrames
    Frame <- MCFrame
    Enclosing <- MCEnclosing
    DefaultTag <- MCDefaultTag
    EnvTag <- MCEnvTag
    EnvVars <- MCEnvVars
    EnvChoices <- MCEnvChoices
    DocNames <- MCDocNames
    Docs <- MCDocs
    Bundled <- MCBundled
    OnDisk <- MCOnDisk
    ConfigChoices <- MCConfigChoices
    CustomChoices <- MCCustomChoices
    NoTag = NoTag
SPECIFICATION Spec
INVARIANTS
    EnvSliceReplaces
CHECK_DEADLOCK FALSE
