---------------------------- MODULE LayeredConfig ----------------------------
(***************************************************************************)
(* What IntoObject (pkg/common/load/load.go:41-73) promises its caller, at *)
(* the grain of its stages: the default pass gives the target its tagged   *)
(* defaults and leaves every field without a default tag at its zero      *)
(* value; then the layers, the bundled overlays in the order of `configs`  *)
(* and the custom file last, are each merged into the target structurally  *)
(* (the keys a document sets overwrite their field, the others are left   *)
(* alone), and only a layer that is present and decodes lets resolution  *)
(* go on; only after the last layer does the environment pass change    *)
(* the target, and then resolution returns.  The environment pass is left  *)
(* open here: any value of the target's type.                             *)
(***************************************************************************)
EXTENDS Naturals, Sequences

CONSTANTS
    StrLeaves, BoolLeaves, IntLeaves, SliceLeaves, \* the leaf fields by kind
    DefaultTag,    \* the `default` tag of each leaf, or NoTag
    NoTag,
    Objects,       \* the values the target struct can hold
    Zero,          \* the zero value the caller allocates
    Docs,          \* the decoded content of each document
    Bundled,       \* documents packaged under /configs
    OnDisk,        \* documents present as files under the CWD
    ConfigChoices, \* the `configs` arguments a caller may pass
    CustomChoices  \* the `customConfig` arguments a caller may pass

VARIABLES
    stage,    \* "defaults", "layers", or how resolution ended
    obj,      \* the target struct
    pending   \* the layers still to be merged, in order

vars == <<stage, obj, pending>>

(* The layers of a call: one per bundled name, then the custom file if a *)
(* path was given.                                                        *)
Layer(name, src) == [name |-> name, src |-> src]
Layers(cfgs, cust) ==
    [i \in 1..Len(cfgs) |-> Layer(cfgs[i], "bundled")]
        \o (IF cust = "" THEN << >> ELSE <<Layer(cust, "file")>>)

(* Structural merge of a decoded document into the target.               *)
Overlay(keys, cur) == [x \in DOMAIN cur |-> IF x \in DOMAIN keys THEN keys[x] ELSE cur[x]]
Merged(d, o) ==
    [strs |-> Overlay(d.strs, o.strs), bools |-> Overlay(d.bools, o.bools),
     ints |-> Overlay(d.ints, o.ints), slices |-> Overlay(d.slices, o.slices)]

Init ==
    /\ stage = "defaults"
    /\ obj = Zero
    /\ pending \in {Layers(c, x) : c \in ConfigChoices, x \in CustomChoices}

(* A field without a default tag holds its zero value.                   *)
UntaggedZero(o) ==
    /\ \A l \in StrLeaves : DefaultTag[l] = NoTag => o.strs[l] = Zero.strs[l]
    /\ \A l \in BoolLeaves : DefaultTag[l] = NoTag => o.bools[l] = Zero.bools[l]
    /\ \A l \in IntLeaves : DefaultTag[l] = NoTag => o.ints[l] = Zero.ints[l]
    /\ \A l \in SliceLeaves : DefaultTag[l] = NoTag => o.slices[l] = Zero.slices[l]

(* loadDefaults (load.go:48-50).                                          *)
Defaults ==
    /\ stage = "defaults"
    /\ stage' = "layers"
    /\ obj' \in Objects /\ UntaggedZero(obj')
    /\ UNCHANGED pending

(* Resolution ends early with the target left as one of os.              *)
Abort(s, os) == stage' = s /\ obj' \in os /\ pending' = << >>

(* One layer (load.go:52-63): loadYAMLFromConfigs or loadYAMLFromFile.   *)
(* Only a layer that is present and decodes is merged, and resolution    *)
(* then goes on.  Any layer may instead end it with an error (a missing   *)
(* name, a read error, a malformed document), and the target is then    *)
(* left in any state: spec 5 accepts a partly mutated target on failure. *)
(* A custom layer may end the process (os.Getwd failing).                *)
ApplyLayer ==
    /\ stage = "layers" /\ pending # << >>
    /\ LET e == Head(pending)
           d == Docs[e.name]
           present == e.name \in (IF e.src = "bundled" THEN Bundled ELSE OnDisk)
       IN  \/ Abort("failed", Objects)
           \/ e.src = "file" /\ Abort("fatal", {obj})
           \/ /\ present /\ ~d.syntax /\ d.bad = {}
              /\ obj' = Merged(d, obj) /\ pending' = Tail(pending)
              /\ UNCHANGED stage

(* loadFromEnv (load.go:68-70), after every layer.                       *)
EnvPass ==
    /\ stage = "layers" /\ pending = << >>
    /\ obj' \in Objects
    /\ UNCHANGED <<stage, pending>>

(* IntoObject returns nil (load.go:72).                                   *)
Return ==
    /\ stage = "layers" /\ pending = << >>
    /\ stage' = "done"
    /\ UNCHANGED <<obj, pending>>

Next == Defaults \/ ApplyLayer \/ EnvPass \/ Return

Spec == Init /\ [][Next]_vars
=============================================================================
