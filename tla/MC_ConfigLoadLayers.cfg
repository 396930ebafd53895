CONSTANTS
    StrLeaves <- MCStrLeaves
    BoolLeaves <- MCBoolLeaves
    IntLeaves <- MCIntLeaves
    SliceLeaves <- MCSliceLeaves
    Fields <- MCFields
    Frames <- MCFrames
    Frame <- MCFrame
    Enclosing <- MCEnclosing
    DefaultTag <- MCDefaultTag
    EnvTag <- MCEnvTag
    EnvVars <- MCEnvVars
    EnvChoices <- MCEnvChoices
    DocNames <- MCDocNames
    Docs <- MCDocs
    Bundled <- MCBundled
    OnDisk <- MCOnDisk
    ConfigChoices <- MCConfigChoices
    CustomChoices <- MCCustomChoices
    NoTag = NoTag
SPECIFICATION Spec
PROPERTIES
    LayersRefined
\* IntoObject returns, or the process exits: the terminal states have no successor.
CHECK_DEADLOCK FALSE
