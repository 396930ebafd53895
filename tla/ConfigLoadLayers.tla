--------------------------- MODULE ConfigLoadLayers ---------------------------
(***************************************************************************)
(* ConfigLoad implements LayeredConfig: the field-by-field walk of load()  *)
(* and the overlay loaders, seen at the grain of IntoObject's stages, are  *)
(* the layered resolution the abstract specification describes.  While    *)
(* the default pass walks, the abstract target is still the zero value;   *)
(* the pass's last step (FinishDefaults) is the abstract Defaults step.   *)
(* The bundled, custom and environment stages are the abstract "layers"   *)
(* stage, the layers still pending being the rest of `configs` from `ci`  *)
(* on, then the custom file.                                              *)
(***************************************************************************)
EXTENDS ConfigLoad

(* The zero value of the config struct the caller allocates.             *)
ZeroObject ==
    [strs |-> [l \in StrLeaves |-> Lit("")], bools |-> [l \in BoolLeaves |-> FALSE],
     ints |-> [l \in IntLeaves |-> 0], slices |-> [l \in SliceLeaves |-> << >>]]

stageBar ==
    IF pc = "defaults" THEN "defaults"
    ELSE IF pc \in {"bundled", "custom", "env"} THEN "layers"
    ELSE pc

objBar == IF pc = "defaults" THEN ZeroObject ELSE Snapshot

(* The overlays IntoObject has yet to load, as LayeredConfig lists them: *)
(* the bundled names of the configs loop still ahead, then the custom     *)
(* file if a path was given.                                              *)
BundledLayers(cfgs) == [i \in 1..Len(cfgs) |-> [name |-> cfgs[i], src |-> "bundled"]]
CustomLayer(cust) == IF cust = "" THEN << >> ELSE <<[name |-> cust, src |-> "file"]>>
ToLoad(cfgs, cust) == BundledLayers(cfgs) \o CustomLayer(cust)

pendingBar ==
    IF pc = "defaults" THEN ToLoad(configs, custom)
    ELSE IF pc = "bundled" THEN ToLoad(SubSeq(configs, ci, Len(configs)), custom)
    ELSE IF pc = "custom" THEN ToLoad(<< >>, custom)
    ELSE << >>

L == INSTANCE LayeredConfig
        WITH Objects <- ObjectTypes, Zero <- ZeroObject,
             stage <- stageBar, obj <- objBar, pending <- pendingBar

(* IntoObject resolves the configuration in layers: the default pass      *)
(* leaves every field without a default tag at its zero value, the        *)
(* overlays are merged one by one in the order of `configs` and then the  *)
(* custom file, each keeping the fields it does not set, the first        *)
(* missing or undecodable one ending the call, and the environment pass   *)
(* comes after the last overlay.                                          *)
LayersRefined == L!Spec
=============================================================================
