----------------------------- MODULE ConfigLoad -----------------------------
(***************************************************************************)
(* The layered configuration loader of pkg/common/load/load.go:           *)
(* IntoObject runs the default pass, the bundled YAML overlays in order,   *)
(* the custom YAML overlay and the environment pass over one config        *)
(* struct.  The struct is a fixed schema of leaf fields, grouped by their  *)
(* reflect kind, that the reflect walk of load() visits in depth-first     *)
(* declaration order (Fields).  Every nested struct is a "frame", one      *)
(* recursive call of load() with its own local setValue.  One step of the  *)
(* model is one iteration of load()'s loop, or one overlay load, or the    *)
(* move from one pass to the next.                                         *)
(***************************************************************************)
EXTENDS Integers, Sequences, FiniteSets

CONSTANTS
    StrLeaves,    \* leaf fields of kind string
    BoolLeaves,   \* leaf fields of kind bool
    IntLeaves,    \* leaf fields of kind int or int64
    SliceLeaves,  \* leaf fields of kind slice (of string)
    Fields,       \* the leaves in the order load() visits them
    Frames,       \* the struct values load() recurses into (top included)
    Frame,        \* the struct whose load() loop visits a leaf
    Enclosing,    \* a frame and the frames whose loops enclose its call
    DefaultTag,   \* the `default` struct tag of each leaf, or NoTag
    EnvTag,       \* the `env` struct tag of each leaf, or NoTag
    EnvVars,      \* environment variable names used by env tags
    EnvChoices,   \* the values an environment variable may hold
    DocNames,     \* names of the YAML documents that exist somewhere
    Docs,         \* the decoded content of each document
    Bundled,      \* documents packaged under /configs (pkger)
    OnDisk,       \* documents present as files under the CWD
    ConfigChoices,\* the `configs` arguments a caller may pass
    CustomChoices,\* the `customConfig` arguments a caller may pass
    NoTag         \* model value: tag absent

Leaves == StrLeaves \cup BoolLeaves \cup IntLeaves \cup SliceLeaves

(* The strings the defaults, the environment and the documents draw      *)
(* from, and what strconv, strings.Split and rndStringRegex make of them *)
(* (load.go:34, 179-221).                                                *)
TmpDirSentinel == "__TMP_DIR__"
RndDirectives  == {"__RND_8__", "__RND_99999999999999999999__"}
RndInRange     == {"__RND_8__"}     \* the digits fit strconv.Atoi
MalformedRnd   == {"__RND_abc__"}   \* not matched: the digits are not \d+
TrueLits  == {"1", "t", "T", "TRUE", "true", "True"}
FalseLits == {"0", "f", "F", "FALSE", "false", "False"}
IntTexts  == {"0", "1", "7", "-1"}
RawStrings == {"", "x", "a,b", TmpDirSentinel} \cup RndDirectives
                \cup MalformedRnd \cup TrueLits \cup FalseLits \cup IntTexts
(* strconv.Atoi of the digits of an in-range directive; ParseInt of the  *)
(* integer texts.                                                        *)
RndLength(s) == IF s = "__RND_8__" THEN 8 ELSE 0
IntOf(s) == IF s = "0" THEN 0 ELSE IF s = "1" THEN 1 ELSE IF s = "7" THEN 7 ELSE -1
SplitComma(s) == IF s = "a,b" THEN <<"a", "b">> ELSE <<s>>
(* An element strings.Split on "," produces holds no comma.              *)
SliceElems == (RawStrings \ {"a,b"}) \cup {"a", "b", "c"}

(* A string field's value: a literal text, the n-th temporary directory  *)
(* ioutil.TempDir created, or a random string of length n.               *)
StrVal == [src : {"lit", "tmpdir", "rnd"}, text : RawStrings, n : Nat]
Lit(s) == [src |-> "lit", text |-> s, n |-> 0]
TmpDir(k) == [src |-> "tmpdir", text |-> "", n |-> k]
RndStr(len) == [src |-> "rnd", text |-> "", n |-> len]

(* A decoded YAML document: per kind, the keys that decode and their     *)
(* values; the keys whose value has the wrong type (yaml.v2 skips them   *)
(* and reports a TypeError after decoding the rest); and whether the     *)
(* text does not parse at all.                                           *)
IsDoc(d) ==
    /\ DOMAIN d.strs \subseteq StrLeaves
    /\ DOMAIN d.bools \subseteq BoolLeaves
    /\ DOMAIN d.ints \subseteq IntLeaves
    /\ DOMAIN d.slices \subseteq SliceLeaves
    /\ d.strs \in [DOMAIN d.strs -> StrVal]
    /\ d.bools \in [DOMAIN d.bools -> BOOLEAN]
    /\ d.ints \in [DOMAIN d.ints -> Int]
    /\ d.slices \in [DOMAIN d.slices -> Seq(SliceElems)]
    /\ d.bad \subseteq Leaves
    /\ d.syntax \in BOOLEAN

ASSUME ConstantsOK ==
    /\ StrLeaves \cap (BoolLeaves \cup IntLeaves \cup SliceLeaves) = {}
    /\ BoolLeaves \cap (IntLeaves \cup SliceLeaves) = {}
    /\ IntLeaves \cap SliceLeaves = {}
    /\ Fields \in Seq(Leaves)
    /\ \A i, j \in 1..Len(Fields) : Fields[i] = Fields[j] => i = j
    /\ \A l \in Leaves : \E i \in 1..Len(Fields) : Fields[i] = l
    /\ Frame \in [Leaves -> Frames]
    /\ Enclosing \in [Frames -> SUBSET Frames]
    /\ \A f \in Frames : f \in Enclosing[f]
    /\ DefaultTag \in [Leaves -> RawStrings \cup {NoTag}]
    /\ EnvTag \in [Leaves -> EnvVars \cup {NoTag}]
    /\ NoTag \notin RawStrings \cup EnvVars
    /\ EnvChoices \subseteq RawStrings
    /\ DOMAIN Docs = DocNames
    /\ \A d \in DocNames : IsDoc(Docs[d])
    /\ Bundled \subseteq DocNames /\ OnDisk \subseteq DocNames
    /\ ConfigChoices \subseteq Seq(STRING)
    /\ "" \in CustomChoices /\ CustomChoices \subseteq STRING

VARIABLES
    strs, bools, ints, slices, \* the object being populated, per kind
    pc,          \* the stage of IntoObject, or how it ended
    pos,         \* index in Fields of the next leaf load() visits
    setValue,    \* load()'s local setValue, one per frame
    aborted,     \* frames whose load() loop returned an error this pass
    ci,          \* index in configs of the next bundled overlay
    configs,     \* IntoObject's configs argument
    custom,      \* IntoObject's customConfig argument
    env,         \* the process environment
    tmpDirs,     \* temporary directories created so far
    base,        \* ghost: the object as the default pass left it
    fieldErrors, \* ghost: leaves whose processValueFromString failed
    unapplied    \* ghost: leaves this pass skipped or failed to set

vars == <<strs, bools, ints, slices, pc, pos, setValue, aborted, ci,
          configs, custom, env, tmpDirs, base, fieldErrors, unapplied>>

Terminal == {"done", "failed", "fatal"}
EmptyLocals == [f \in Frames |-> ""]
Snapshot == [strs |-> strs, bools |-> bools, ints |-> ints, slices |-> slices]

(* The zero value of the config struct, as the caller allocates it.      *)
Init ==
    /\ strs = [l \in StrLeaves |-> Lit("")]
    /\ bools = [l \in BoolLeaves |-> FALSE]
    /\ ints = [l \in IntLeaves |-> 0]
    /\ slices = [l \in SliceLeaves |-> << >>]
    /\ pc = "defaults"
    /\ pos = 1
    /\ setValue = EmptyLocals
    /\ aborted = {}
    /\ ci = 1
    /\ configs \in ConfigChoices
    /\ custom \in CustomChoices
    /\ env \in [EnvVars -> EnvChoices]
    /\ tmpDirs = 0
    /\ base = Snapshot
    /\ fieldErrors = {}
    /\ unapplied = {}
-----------------------------------------------------------------------------
(* processValueFromString (load.go:174-225), one disjunct per outcome of *)
(* its switch on the field's kind.  Fail is the `return err` of load()'s *)
(* loop (load.go:100-101): the loop of l's frame stops there.            *)
Fail(l) ==
    /\ aborted' = aborted \cup {Frame[l]}
    /\ fieldErrors' = fieldErrors \cup {l}
    /\ unapplied' = unapplied \cup {l}
    /\ UNCHANGED <<strs, bools, ints, slices, tmpDirs>>

Succeed == UNCHANGED <<aborted, fieldErrors, unapplied>>

ProcessString(l, raw) ==
    \/ /\ raw = TmpDirSentinel              \* ioutil.TempDir succeeds
       /\ strs' = [strs EXCEPT ![l] = TmpDir(tmpDirs + 1)]
       /\ tmpDirs' = tmpDirs + 1
       /\ Succeed /\ UNCHANGED <<bools, ints, slices>>
    \/ raw = TmpDirSentinel /\ Fail(l)      \* ioutil.TempDir fails
    \/ /\ raw \in RndInRange
       /\ strs' = [strs EXCEPT ![l] = RndStr(RndLength(raw))]
       /\ Succeed /\ UNCHANGED <<bools, ints, slices, tmpDirs>>
    \/ raw \in RndDirectives \ RndInRange /\ Fail(l)   \* Atoi out of range
    \/ /\ raw \notin RndDirectives \cup {TmpDirSentinel}
       /\ strs' = [strs EXCEPT ![l] = Lit(raw)]
       /\ Succeed /\ UNCHANGED <<bools, ints, slices, tmpDirs>>

ProcessBool(l, raw) ==
    \/ /\ raw \in TrueLits \cup FalseLits
       /\ bools' = [bools EXCEPT ![l] = raw \in TrueLits]
       /\ Succeed /\ UNCHANGED <<strs, ints, slices, tmpDirs>>
    \/ raw \notin TrueLits \cup FalseLits /\ Fail(l)

(* Mutation of ProcessSlice: the raw value is appended as one element,  *)
(* without strings.Split.                                                *)
ProcessSliceNoSplit(l, raw) ==
    /\ slices' = [slices EXCEPT ![l] = IF raw = "" THEN @ ELSE Append(@, raw)]
    /\ Succeed /\ UNCHANGED <<strs, bools, ints, tmpDirs>>

ProcessSlice(l, raw) ==
    /\ slices' = [slices EXCEPT ![l] = IF raw = "" THEN @ ELSE @ \o SplitComma(raw)]
    /\ Succeed /\ UNCHANGED <<strs, bools, ints, tmpDirs>>

ProcessInt(l, raw) ==
    \/ /\ raw \in IntTexts
       /\ ints' = [ints EXCEPT ![l] = IntOf(raw)]
       /\ Succeed /\ UNCHANGED <<strs, bools, slices, tmpDirs>>
    \/ raw \notin IntTexts /\ Fail(l)

ProcessValue(l, raw) ==
    \/ l \in StrLeaves /\ ProcessString(l, raw)
    \/ l \in BoolLeaves /\ ProcessBool(l, raw)
    \/ l \in SliceLeaves /\ ProcessSlice(l, raw)
    \/ l \in IntLeaves /\ ProcessInt(l, raw)

(* yaml.Unmarshal into the existing object (load.go:131, 159): keys that *)
(* decode overwrite their field and absent keys are left alone; a        *)
(* syntax error changes nothing; a type error is                         *)
(* returned after the rest is decoded.  Continue is what IntoObject does *)
(* when no error comes back.                                             *)
Overlay(keys, cur) == [x \in DOMAIN cur |-> IF x \in DOMAIN keys THEN keys[x] ELSE cur[x]]

(* Mutation of Merge: the document replaces the object, so the keys it   *)
(* lacks fall back to their zero value.                                  *)
MergeReplace(d) ==
    /\ strs' = Overlay(d.strs, [l \in StrLeaves |-> Lit("")])
    /\ bools' = Overlay(d.bools, [l \in BoolLeaves |-> FALSE])
    /\ ints' = Overlay(d.ints, [l \in IntLeaves |-> 0])
    /\ slices' = Overlay(d.slices, [l \in SliceLeaves |-> << >>])

Merge(d) ==
    /\ strs' = Overlay(d.strs, strs)
    /\ bools' = Overlay(d.bools, bools)
    /\ ints' = Overlay(d.ints, ints)
    /\ slices' = Overlay(d.slices, slices)

Unmarshal(d, Continue) ==
    \/ /\ d.syntax
       /\ pc' = "failed"
       /\ UNCHANGED <<strs, bools, ints, slices, ci, pos, setValue, aborted, unapplied>>
    \/ /\ ~d.syntax
       /\ Merge(d)
       /\ \/ d.bad = {} /\ Continue
          \/ d.bad # {} /\ pc' = "failed"
             /\ UNCHANGED <<ci, pos, setValue, aborted, unapplied>>
-----------------------------------------------------------------------------
Walking == pc \in {"defaults", "env"} /\ pos \in 1..Len(Fields)
Cur == Fields[pos]
(* load() of Cur's frame, or of a frame enclosing it, has returned.      *)
Returned(l) == Enclosing[Frame[l]] \cap aborted # {}

(* The walk reaches a field whose load() call has already returned its   *)
(* error (load.go:100-101): the field is not visited.                    *)
SkipReturned ==
    /\ Walking
    /\ Returned(Cur)
    /\ pos' = pos + 1
    /\ unapplied' = unapplied \cup {Cur}
    /\ UNCHANGED <<strs, bools, ints, slices, pc, setValue, aborted, ci,
                   configs, custom, env, tmpDirs, base, fieldErrors>>

(* One iteration of load(v, "default") (load.go:79-103).                 *)
LoadDefault ==
    /\ pc = "defaults"
    /\ Walking
    /\ ~Returned(Cur)
    /\ pos' = pos + 1
    /\ \/ /\ DefaultTag[Cur] = NoTag
          /\ setValue' = [setValue EXCEPT ![Frame[Cur]] = ""]
          /\ UNCHANGED <<strs, bools, ints, slices, aborted, tmpDirs,
                         fieldErrors, unapplied>>
       \/ /\ DefaultTag[Cur] # NoTag
          /\ setValue' = [setValue EXCEPT ![Frame[Cur]] = DefaultTag[Cur]]
          /\ ProcessValue(Cur, DefaultTag[Cur])
    /\ UNCHANGED <<pc, ci, configs, custom, env, base>>

(* Mutation of LoadEnv: a tagged field is processed with setValue as    *)
(* the previous iteration left it, before the env lookup assigns it.    *)
LoadEnvStale ==
    /\ pc = "env"
    /\ Walking
    /\ ~Returned(Cur)
    /\ pos' = pos + 1
    /\ \/ /\ EnvTag[Cur] # NoTag
          /\ env[EnvTag[Cur]] = ""
          /\ setValue' = [setValue EXCEPT ![Frame[Cur]] = ""]
          /\ UNCHANGED <<strs, bools, ints, slices, aborted, tmpDirs,
                         fieldErrors, unapplied>>
       \/ /\ EnvTag[Cur] # NoTag
          /\ env[EnvTag[Cur]] # ""
          /\ setValue' = [setValue EXCEPT ![Frame[Cur]] = env[EnvTag[Cur]]]
          /\ ProcessValue(Cur, setValue[Frame[Cur]])
       \/ /\ EnvTag[Cur] = NoTag
          /\ UNCHANGED setValue
          /\ ProcessValue(Cur, setValue[Frame[Cur]])
    /\ UNCHANGED <<pc, ci, configs, custom, env, base>>

(* One iteration of load(v, "env") (load.go:79-103).  A field without an *)
(* env tag is given the frame's setValue as the last iteration left it.  *)
LoadEnv ==
    /\ pc = "env"
    /\ Walking
    /\ ~Returned(Cur)
    /\ pos' = pos + 1
    /\ \/ /\ EnvTag[Cur] # NoTag
          /\ env[EnvTag[Cur]] = ""
          /\ setValue' = [setValue EXCEPT ![Frame[Cur]] = ""]
          /\ UNCHANGED <<strs, bools, ints, slices, aborted, tmpDirs,
                         fieldErrors, unapplied>>
       \/ /\ EnvTag[Cur] # NoTag
          /\ env[EnvTag[Cur]] # ""
          /\ setValue' = [setValue EXCEPT ![Frame[Cur]] = env[EnvTag[Cur]]]
          /\ ProcessValue(Cur, env[EnvTag[Cur]])
       \/ /\ EnvTag[Cur] = NoTag
          /\ UNCHANGED setValue
          /\ ProcessValue(Cur, setValue[Frame[Cur]])
    /\ UNCHANGED <<pc, ci, configs, custom, env, base>>

(* loadDefaults returns nil whatever load() returned (load.go:111-115);  *)
(* IntoObject goes on to the bundled overlays.                           *)
FinishDefaults ==
    /\ pc = "defaults"
    /\ pos = Len(Fields) + 1
    /\ pc' = "bundled"
    /\ base' = Snapshot
    /\ aborted' = {}
    /\ setValue' = EmptyLocals
    /\ unapplied' = {}
    /\ UNCHANGED <<strs, bools, ints, slices, pos, ci, configs, custom, env,
                   tmpDirs, fieldErrors>>

(* loadFromEnv starts a fresh walk: new load() calls, new locals.        *)
StartEnv ==
    /\ pc' = "env"
    /\ pos' = 1
    /\ aborted' = {}
    /\ setValue' = EmptyLocals
    /\ unapplied' = {}
    /\ UNCHANGED ci

(* Mutation of LoadBundled: a missing overlay is skipped and the loop   *)
(* goes on to the next name.                                             *)
LoadBundledSkipMissing ==
    /\ pc = "bundled"
    /\ ci \in 1..Len(configs)
    /\ \/ /\ configs[ci] \notin Bundled
          /\ ci' = ci + 1
          /\ UNCHANGED <<pc, strs, bools, ints, slices, pos, setValue,
                         aborted, unapplied>>
       \/ /\ configs[ci] \in Bundled
          /\ Unmarshal(Docs[configs[ci]],
                       ci' = ci + 1 /\ UNCHANGED <<pc, pos, setValue, aborted, unapplied>>)
    /\ UNCHANGED <<configs, custom, env, tmpDirs, base, fieldErrors>>

(* loadYAMLFromConfigs for configs[ci] (load.go:52-56, 118-136).  The   *)
(* error path is taken when pkger.Open finds no such name (line 123) and *)
(* may be taken for any name when ioutil.ReadAll fails (line 127).       *)
LoadBundled ==
    /\ pc = "bundled"
    /\ ci \in 1..Len(configs)
    /\ \/ /\ pc' = "failed"
          /\ UNCHANGED <<strs, bools, ints, slices, ci, pos, setValue,
                         aborted, unapplied>>
       \/ /\ configs[ci] \in Bundled
          /\ Unmarshal(Docs[configs[ci]],
                       ci' = ci + 1 /\ UNCHANGED <<pc, pos, setValue, aborted, unapplied>>)
    /\ UNCHANGED <<configs, custom, env, tmpDirs, base, fieldErrors>>

(* The configs loop ends: IntoObject loads the custom file if one was    *)
(* given (load.go:59) and otherwise goes on to the environment.          *)
FinishBundled ==
    /\ pc = "bundled"
    /\ ci = Len(configs) + 1
    /\ \/ custom = "" /\ StartEnv
       \/ /\ custom # ""
          /\ pc' = "custom"
          /\ UNCHANGED <<pos, setValue, aborted, ci, unapplied>>
    /\ UNCHANGED <<strs, bools, ints, slices, configs, custom, env, tmpDirs,
                   base, fieldErrors>>

(* loadYAMLFromFile (load.go:139-164): os.Getwd failing ends the process *)
(* through log.Fatalf; a missing file is a returned error.               *)
LoadCustom ==
    /\ pc = "custom"
    /\ \/ /\ pc' = "fatal"
          /\ UNCHANGED <<strs, bools, ints, slices, ci, pos, setValue,
                         aborted, unapplied>>
       \/ /\ custom \notin OnDisk
          /\ pc' = "failed"
          /\ UNCHANGED <<strs, bools, ints, slices, ci, pos, setValue,
                         aborted, unapplied>>
       \/ custom \in OnDisk /\ Unmarshal(Docs[custom], StartEnv)
    /\ UNCHANGED <<configs, custom, env, tmpDirs, base, fieldErrors>>

(* loadFromEnv returns nil whatever load() returned (load.go:167-172),   *)
(* and so does IntoObject.                                               *)
FinishEnv ==
    /\ pc = "env"
    /\ pos = Len(Fields) + 1
    /\ pc' = "done"
    /\ UNCHANGED <<strs, bools, ints, slices, pos, setValue, aborted, ci,
                   configs, custom, env, tmpDirs, base, fieldErrors, unapplied>>

Next ==
    \/ SkipReturned
    \/ LoadDefault
    \/ FinishDefaults
    \/ LoadBundled
    \/ FinishBundled
    \/ LoadCustom
    \/ LoadEnv
    \/ FinishEnv

(* IntoObject runs on one goroutine.  No liveness property is stated:    *)
(* every loop of IntoObject runs over a finite list, so none is needed.  *)
Spec == Init /\ [][Next]_vars
-----------------------------------------------------------------------------
(* Every variable holds a value of its type; each field holds a value of *)
(* its reflect kind.                                                     *)
ObjectTypes ==
    [strs : [StrLeaves -> StrVal], bools : [BoolLeaves -> BOOLEAN],
     ints : [IntLeaves -> Int], slices : [SliceLeaves -> Seq(SliceElems)]]
TypeOK ==
    /\ strs \in [StrLeaves -> StrVal]
    /\ bools \in [BoolLeaves -> BOOLEAN]
    /\ ints \in [IntLeaves -> Int]
    /\ slices \in [SliceLeaves -> Seq(SliceElems)]
    /\ pc \in {"defaults", "bundled", "custom", "env"} \cup Terminal
    /\ pos \in 1..(Len(Fields) + 1)
    /\ setValue \in [Frames -> RawStrings]
    /\ aborted \subseteq Frames
    /\ configs \in ConfigChoices
    /\ ci \in 1..(Len(configs) + 1)
    /\ custom \in CustomChoices
    /\ env \in [EnvVars -> EnvChoices]
    /\ tmpDirs \in Nat
    /\ base \in ObjectTypes
    /\ fieldErrors \subseteq Leaves
    /\ unapplied \subseteq Leaves

(* The documents IntoObject has merged so far, in the order it merged    *)
(* them, while it is between the default and the environment pass.      *)
Applied ==
    CASE pc = "bundled" -> SubSeq(configs, 1, ci - 1)
      [] pc = "custom"  -> configs
      [] OTHER          -> configs \o (IF custom = "" THEN << >> ELSE <<custom>>)
(* What the overlays promise for field l of kind k ("strs", "bools",    *)
(* "ints" or "slices"): the value of the last merged document that sets *)
(* it, or what the default pass left.                                    *)
LastWritten(k, l, names) ==
    LET setters == {i \in 1..Len(names) : l \in DOMAIN Docs[names[i]][k]}
    IN  IF setters = {} THEN base[k][l]
        ELSE Docs[names[CHOOSE i \in setters : \A j \in setters : j <= i]][k][l]
OverlaidAs(k, cur) == \A l \in DOMAIN cur : cur[l] = LastWritten(k, l, Applied)

(* Overlay precedence (loadYAMLFromConfigs in the configs loop, then     *)
(* loadYAMLFromFile): from the end of the default pass until the         *)
(* environment pass starts, every field holds the value of the last      *)
(* merged overlay that sets it, and a field no overlay sets keeps its    *)
(* default.                                                              *)
OverlayLastWriterWins ==
    (pc \in {"bundled", "custom"} \/ (pc = "env" /\ pos = 1))
        => /\ OverlaidAs("strs", strs) /\ OverlaidAs("bools", bools)
           /\ OverlaidAs("ints", ints) /\ OverlaidAs("slices", slices)

(* A field whose env variable is set and that the env pass did not skip *)
(* or fail on.                                                           *)
EnvApplied(l) ==
    EnvTag[l] # NoTag /\ env[EnvTag[l]] # "" /\ l \notin unapplied
(* What processValueFromString stores in a string field for a raw       *)
(* string it accepts; a temporary directory is any one the run created. *)
StoresString(raw, v) ==
    IF raw = TmpDirSentinel THEN v.src = "tmpdir" /\ v.n \in 1..tmpDirs
    ELSE IF raw \in RndDirectives THEN v = RndStr(RndLength(raw))
    ELSE v = Lit(raw)

(* Environment precedence (loadFromEnv, load.go:91-101): when IntoObject *)
(* returns, a scalar field whose env variable is set holds that          *)
(* variable's value, unless an error earlier in the env pass ended the   *)
(* load() loop of the field's struct or of a struct enclosing it.        *)
EnvPrecedence ==
    pc = "done" =>
        /\ \A l \in StrLeaves : EnvApplied(l) => StoresString(env[EnvTag[l]], strs[l])
        /\ \A l \in BoolLeaves : EnvApplied(l) => bools[l] = (env[EnvTag[l]] \in TrueLits)
        /\ \A l \in IntLeaves : EnvApplied(l) => ints[l] = IntOf(env[EnvTag[l]])
-----------------------------------------------------------------------------
(* Properties that the spec states and the code does not keep.           *)

Untagged == {l \in Leaves : EnvTag[l] = NoTag}

(* Spec 4.1 step 4: a field is changed by the environment pass only      *)
(* through its own env variable; a field with no env tag keeps the value *)
(* the defaults and overlays gave it (load.go:91-100).                   *)
UntaggedFieldKeepsValue ==
    [][(pc = "env") =>
         /\ \A l \in Untagged \cap StrLeaves : strs'[l] = strs[l]
         /\ \A l \in Untagged \cap BoolLeaves : bools'[l] = bools[l]
         /\ \A l \in Untagged \cap IntLeaves : ints'[l] = ints[l]
         /\ \A l \in Untagged \cap SliceLeaves : slices'[l] = slices[l]]_vars

(* Spec 4.1 and 7: a value that does not parse for its field makes       *)
(* IntoObject fail; it never returns success after a field error         *)
(* (load.go:84, 113, 169 drop load()'s error).                           *)
FieldErrorReported ==
    pc = "done" => fieldErrors = {}

(* Spec 8: an environment value "a,b" sets a slice field to exactly its  *)
(* comma-separated parts (load.go:206-211 appends them).                 *)
EnvSliceReplaces ==
    pc = "done" =>
        \A l \in SliceLeaves : EnvApplied(l) => slices[l] = SplitComma(env[EnvTag[l]])

(* Spec 8: a directive __RND_<N>__ whose N is not a number is a field    *)
(* error; the default and environment passes never store it verbatim    *)
(* (load.go:186 only matches decimal N).                                 *)
MalformedRndRejected ==
    [][(pc \in {"defaults", "env"}) =>
         \A l \in StrLeaves : strs'[l] # strs[l] => strs'[l].text \notin MalformedRnd]_vars
=============================================================================
