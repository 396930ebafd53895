------------------------ MODULE ConfigLoadLayers_proofs ------------------------
(***************************************************************************)
(* Proof that ConfigLoad implements LayeredConfig under the refinement     *)
(* mapping of ConfigLoadLayers, for every schema, environment and set of   *)
(* overlay documents that satisfy ConstantsOK.                             *)
(***************************************************************************)
EXTENDS ConfigLoadLayers, ConfigLoad_proofs, SequenceTheorems, TLAPS

(* What the mapping needs beyond the types: during the default pass the   *)
(* configs loop has not started and no field without a default tag has    *)
(* been written; the custom stage is only reached with a path.           *)
ZeroUntagged ==
    /\ \A l \in StrLeaves : DefaultTag[l] = NoTag => strs[l] = Lit("")
    /\ \A l \in BoolLeaves : DefaultTag[l] = NoTag => bools[l] = FALSE
    /\ \A l \in IntLeaves : DefaultTag[l] = NoTag => ints[l] = 0
    /\ \A l \in SliceLeaves : DefaultTag[l] = NoTag => slices[l] = << >>
DefaultsInv == pc = "defaults" => ci = 1 /\ ZeroUntagged
CustomInv == pc = "custom" => custom # ""
RInv == TypeOK /\ DefaultsInv /\ CustomInv

(* A layer is a document name and where to look for it.                 *)
LayerType(T) == [name : T, src : {"bundled", "file"}]

(* The custom part of the pending layers: none without a path, else one. *)
LEMMA CustomLayerFacts ==
  ASSUME NEW T, NEW x \in T
  PROVE  /\ x = "" => CustomLayer(x) = << >>
         /\ x # "" => CustomLayer(x) = <<[name |-> x, src |-> "file"]>>
         /\ CustomLayer(x) \in Seq(LayerType(T))
  <1>1. x = "" => CustomLayer(x) = << >>
    BY Zenon DEF CustomLayer
  <1>2. x # "" => CustomLayer(x) = <<[name |-> x, src |-> "file"]>>
    BY Zenon DEF CustomLayer
  <1>3. <<[name |-> x, src |-> "file"]>> \in Seq(LayerType(T))
    BY DEF LayerType
  <1>4. << >> \in Seq(LayerType(T))
    BY EmptySeq
  <1>. QED
    BY <1>1, <1>2, <1>3, <1>4, Zenon

(* The layers of a call whose bundled list is not empty: the first is    *)
(* its first name, and the rest are the layers of its tail.              *)
LEMMA ToLoadHeadTail ==
  ASSUME NEW T, NEW s \in Seq(T), s # << >>, NEW x \in T
  PROVE  /\ ToLoad(s, x) # << >>
         /\ Head(ToLoad(s, x)) = [name |-> Head(s), src |-> "bundled"]
         /\ Tail(ToLoad(s, x)) = ToLoad(Tail(s), x)
  <1> DEFINE R == LayerType(T)
             B(t) == BundledLayers(t)
             C == CustomLayer(x)
  <1>0. C \in Seq(R)
    BY CustomLayerFacts
  <1>1. /\ B(s) \in Seq(R) /\ B(Tail(s)) \in Seq(R)
        /\ Len(B(s)) = Len(s) /\ Len(B(Tail(s))) = Len(s) - 1
    BY HeadTailProperties DEF R, B, BundledLayers, LayerType
  <1>2. ToLoad(s, x) = B(s) \o C /\ ToLoad(Tail(s), x) = B(Tail(s)) \o C
    BY DEF ToLoad, B, C
  <1>6. \A u, v \in Seq(R) : \A k \in 1..Len(u) + Len(v) :
           (u \o v)[k] = IF k <= Len(u) THEN u[k] ELSE v[k - Len(u)]
    BY ConcatProperties
  <1>7. \A u, v \in Seq(R) : u \o v \in Seq(R) /\ Len(u \o v) = Len(u) + Len(v)
    BY ConcatProperties
  <1>3. Len(ToLoad(s, x)) = Len(s) + Len(C) /\ Len(s) >= 1
    BY <1>0, <1>1, <1>2, <1>7
  <1>4. Head(ToLoad(s, x)) = [name |-> Head(s), src |-> "bundled"]
    <2>1. ToLoad(s, x)[1] = B(s)[1]
      BY <1>0, <1>1, <1>2, <1>3, <1>6
    <2>2. B(s)[1] = [name |-> s[1], src |-> "bundled"]
      BY <1>3 DEF B, BundledLayers
    <2>. QED
      BY <2>1, <2>2
  <1>5. Tail(ToLoad(s, x)) = ToLoad(Tail(s), x)
    <2>1. Tail(s) \in Seq(T) /\ Len(Tail(s)) = Len(s) - 1
          /\ \A i \in 1..Len(s) - 1 : Tail(s)[i] = s[i + 1]
      BY HeadTailProperties
    <2>2. /\ ToLoad(s, x) \in Seq(R) /\ ToLoad(Tail(s), x) \in Seq(R)
          /\ Len(ToLoad(Tail(s), x)) = Len(s) - 1 + Len(C)
      BY <1>0, <1>1, <1>2, <2>1, <1>7
    <2>3. Tail(ToLoad(s, x)) \in Seq(R) /\ Len(Tail(ToLoad(s, x))) = Len(s) - 1 + Len(C)
      BY <1>3, <2>2, HeadTailProperties
    <2>4. \A i \in 1..Len(s) - 1 + Len(C) :
             Tail(ToLoad(s, x))[i] = ToLoad(Tail(s), x)[i]
      <3> TAKE i \in 1..Len(s) - 1 + Len(C)
      <3>1. Tail(ToLoad(s, x))[i] = ToLoad(s, x)[i + 1]
        BY <1>3, <2>2, HeadTailProperties
      <3>0. i + 1 \in 1..Len(B(s)) + Len(C) /\ i \in 1..Len(B(Tail(s))) + Len(C)
        BY <1>1
      <3>2. ToLoad(s, x)[i + 1] = IF i + 1 <= Len(s) THEN B(s)[i + 1] ELSE C[i + 1 - Len(s)]
        BY <1>0, <1>1, <1>2, <1>6, <3>0
      <3>3. ToLoad(Tail(s), x)[i] = IF i <= Len(s) - 1 THEN B(Tail(s))[i] ELSE C[i - (Len(s) - 1)]
        BY <1>0, <1>1, <1>2, <1>6, <2>1, <3>0
      <3>4. i <= Len(s) - 1 => B(Tail(s))[i] = B(s)[i + 1]
        BY <2>1 DEF B, BundledLayers
      <3>. QED
        BY <1>3, <3>1, <3>2, <3>3, <3>4
    <2>. QED
      BY <2>2, <2>3, <2>4, SeqEqual
  <1>. QED
    BY <1>3, <1>4, <1>5

(* After the configs loop only the custom file is left, if there is one. *)
LEMMA ToLoadEmpty ==
  ASSUME NEW T, NEW x \in T
  PROVE  ToLoad(<< >>, x) = CustomLayer(x)
  <1>1. BundledLayers(<< >>) = << >>
    BY DEF BundledLayers
  <1>2. CustomLayer(x) \in Seq(LayerType(T))
    BY CustomLayerFacts
  <1>. QED
    BY <1>1, <1>2, ConcatEmptySeq DEF ToLoad

(* The layers still pending in the configs loop at index i.              *)
LEMMA PendingBundled ==
  ASSUME NEW T, NEW c \in Seq(T), NEW x \in T, NEW i \in 1..Len(c)
  PROVE  /\ ToLoad(SubSeq(c, i, Len(c)), x) # << >>
         /\ Head(ToLoad(SubSeq(c, i, Len(c)), x)) = [name |-> c[i], src |-> "bundled"]
         /\ Tail(ToLoad(SubSeq(c, i, Len(c)), x)) = ToLoad(SubSeq(c, i + 1, Len(c)), x)
  <1>1. /\ SubSeq(c, i, Len(c)) \in Seq(T)
        /\ SubSeq(c, i, Len(c)) # << >>
    <2>1. \A j \in i..Len(c) : c[j] \in T
      OBVIOUS
    <2>2. SubSeq(c, i, Len(c)) \in Seq(T) /\ Len(SubSeq(c, i, Len(c))) = Len(c) - i + 1
      BY <2>1, SubSeqProperties
    <2>3. Len(SubSeq(c, i, Len(c))) # Len(<< >>)
      BY <2>2
    <2>. QED
      BY <2>2, <2>3, Zenon
  <1>2. /\ Head(SubSeq(c, i, Len(c))) = c[i]
        /\ Tail(SubSeq(c, i, Len(c))) = SubSeq(c, i + 1, Len(c))
    BY HeadTailOfSubSeq
  <1>3. SubSeq(c, i, Len(c)) \in Seq(T) /\ SubSeq(c, i, Len(c)) # << >> /\ x \in T
    BY <1>1
  <1>4. /\ ToLoad(SubSeq(c, i, Len(c)), x) # << >>
        /\ Head(ToLoad(SubSeq(c, i, Len(c)), x))
             = [name |-> Head(SubSeq(c, i, Len(c))), src |-> "bundled"]
        /\ Tail(ToLoad(SubSeq(c, i, Len(c)), x)) = ToLoad(Tail(SubSeq(c, i, Len(c))), x)
    BY <1>3, ToLoadHeadTail
  <1>. QED
    BY <1>2, <1>4

(* The configs loop has ended: its part of the pending layers is empty.  *)
LEMMA PendingAfterLoop ==
  ASSUME NEW T, NEW c \in Seq(T), NEW x
  PROVE  ToLoad(SubSeq(c, Len(c) + 1, Len(c)), x) = ToLoad(<< >>, x)
  <1>1. SubSeq(c, Len(c) + 1, Len(c)) = << >>
    BY SubSeqEmpty
  <1>. QED
    BY <1>1, Zenon

(* The start of the default pass is the start of a layered resolution.   *)
LEMMA InitRefined == Init => L!Init
  <1> SUFFICES ASSUME Init PROVE L!Init
    OBVIOUS
  <1>1. stageBar = "defaults" /\ objBar = ZeroObject
    BY DEF Init, stageBar, objBar, ZeroObject, Snapshot
  <1>2. pendingBar = L!Layers(configs, custom)
    BY DEF Init, pendingBar, ToLoad, BundledLayers, CustomLayer, L!Layers, L!Layer
  <1>3. configs \in ConfigChoices /\ custom \in CustomChoices
    BY DEF Init
  <1>. QED
    BY <1>1, <1>2, <1>3 DEF L!Init

LEMMA InitRInv == Init => RInv
  <1> SUFFICES ASSUME Init PROVE RInv
    OBVIOUS
  <1>1. TypeOK
    BY InitTypeOK
  <1>2. ZeroUntagged
    BY DEF Init, ZeroUntagged
  <1>. QED
    BY <1>1, <1>2 DEF Init, RInv, DefaultsInv, CustomInv

(* An iteration of the default pass writes only a field with a default   *)
(* tag.                                                                   *)
LEMMA LoadDefaultRInv == RInv /\ LoadDefault => RInv'
  <1> SUFFICES ASSUME RInv, LoadDefault PROVE RInv'
    OBVIOUS
  <1>0. TypeOK /\ ci = 1 /\ ZeroUntagged
    BY DEF RInv, LoadDefault, DefaultsInv
  <1>1. TypeOK'
    BY <1>0, LoadDefaultTyped
  <1>2. pc' = "defaults" /\ ci' = ci /\ custom' = custom
    BY DEF LoadDefault
  <1>3. Cur \in Leaves /\ (DefaultTag[Cur] # NoTag => DefaultTag[Cur] \in RawStrings)
    BY <1>0, CurFacts DEF LoadDefault
  <1>4. ZeroUntagged'
    <2>1. CASE DefaultTag[Cur] = NoTag
      <3>1. UNCHANGED <<strs, bools, ints, slices>>
        BY <2>1 DEF LoadDefault
      <3>. QED
        BY <1>0, <3>1 DEF ZeroUntagged
    <2>2. CASE DefaultTag[Cur] # NoTag
      <3>1. ProcessValue(Cur, DefaultTag[Cur])
        BY <2>2 DEF LoadDefault
      <3>2. /\ \A k \in StrLeaves \ {Cur} : strs'[k] = strs[k]
            /\ \A k \in BoolLeaves \ {Cur} : bools'[k] = bools[k]
            /\ \A k \in IntLeaves \ {Cur} : ints'[k] = ints[k]
            /\ \A k \in SliceLeaves \ {Cur} : slices'[k] = slices[k]
        BY <1>0, <1>3, <2>2, <3>1, ProcessValueOnly
      <3>. QED
        BY <1>0, <2>2, <3>2 DEF ZeroUntagged
    <2>. QED
      BY <2>1, <2>2
  <1>. QED
    BY <1>0, <1>1, <1>2, <1>4 DEF RInv, DefaultsInv, CustomInv

(* Every step of IntoObject keeps RInv.                                  *)
LEMMA NextRInv == RInv /\ [Next]_vars => RInv'
  <1> SUFFICES ASSUME RInv, [Next]_vars PROVE RInv'
    OBVIOUS
  <1>0. TypeOK /\ TypeOK'
    BY NextTypeOK DEF RInv
  <1>1. CASE SkipReturned
    BY <1>0, <1>1 DEF SkipReturned, RInv, DefaultsInv, CustomInv, ZeroUntagged
  <1>2. CASE LoadDefault
    BY <1>2, LoadDefaultRInv
  <1>3. CASE FinishDefaults
    BY <1>0, <1>3 DEF FinishDefaults, RInv, DefaultsInv, CustomInv
  <1>4. CASE LoadBundled
    <2>1. pc' \in {"failed", "bundled"}
      BY <1>4 DEF LoadBundled, Unmarshal
    <2>. QED
      BY <1>0, <2>1 DEF RInv, DefaultsInv, CustomInv
  <1>5. CASE FinishBundled
    <2>1. pc' = "env" \/ (pc' = "custom" /\ custom # "")
      BY <1>5 DEF FinishBundled, StartEnv
    <2>2. custom' = custom
      BY <1>5 DEF FinishBundled
    <2>. QED
      BY <1>0, <2>1, <2>2 DEF RInv, DefaultsInv, CustomInv
  <1>6. CASE LoadCustom
    <2>1. pc' \in {"fatal", "failed", "env"}
      BY <1>6 DEF LoadCustom, Unmarshal, StartEnv
    <2>. QED
      BY <1>0, <2>1 DEF RInv, DefaultsInv, CustomInv
  <1>7. CASE LoadEnv
    BY <1>0, <1>7 DEF LoadEnv, RInv, DefaultsInv, CustomInv
  <1>8. CASE FinishEnv
    BY <1>0, <1>8 DEF FinishEnv, RInv, DefaultsInv, CustomInv
  <1>9. CASE UNCHANGED vars
    BY <1>0, <1>9 DEF vars, RInv, DefaultsInv, CustomInv, ZeroUntagged
  <1>. QED
    BY <1>1, <1>2, <1>3, <1>4, <1>5, <1>6, <1>7, <1>8, <1>9 DEF Next

(* yaml.Unmarshal into the object is the abstract structural merge.      *)
LEMMA MergeMaps ==
  ASSUME NEW d, Merge(d)
  PROVE  Snapshot' = L!Merged(d, Snapshot)
  BY DEF Merge, Snapshot, L!Merged, L!Overlay, Overlay

(* Outside the default pass the abstract target is the object itself.    *)
LEMMA ObjBarIsObject ==
  ASSUME pc # "defaults", pc' # "defaults"
  PROVE  objBar = Snapshot /\ objBar' = Snapshot'
  BY DEF objBar

(* One iteration of the configs loop is the abstract step that applies   *)
(* the first pending layer.                                              *)
LEMMA LoadBundledRefined == RInv /\ LoadBundled => L!ApplyLayer
  <1> SUFFICES ASSUME RInv, LoadBundled PROVE L!ApplyLayer
    OBVIOUS
  <1>0. /\ TypeOK /\ pc = "bundled" /\ ci \in 1..Len(configs)
        /\ configs \in Seq(STRING) /\ custom \in STRING
        /\ UNCHANGED <<configs, custom>>
    BY SchemaFacts, ConstantsOK DEF RInv, TypeOK, LoadBundled
  <1>1. /\ pendingBar # << >>
        /\ Head(pendingBar) = [name |-> configs[ci], src |-> "bundled"]
        /\ Tail(pendingBar) = ToLoad(SubSeq(configs, ci + 1, Len(configs)), custom)
    <2>1. pendingBar = ToLoad(SubSeq(configs, ci, Len(configs)), custom)
      BY <1>0 DEF pendingBar
    <2>2. /\ ToLoad(SubSeq(configs, ci, Len(configs)), custom) # << >>
          /\ Head(ToLoad(SubSeq(configs, ci, Len(configs)), custom))
               = [name |-> configs[ci], src |-> "bundled"]
          /\ Tail(ToLoad(SubSeq(configs, ci, Len(configs)), custom))
               = ToLoad(SubSeq(configs, ci + 1, Len(configs)), custom)
      BY <1>0, PendingBundled, Zenon
    <2>. QED
      BY <2>1, <2>2
  <1>2. stageBar = "layers" /\ objBar = Snapshot /\ objBar \in ObjectTypes
    BY <1>0 DEF stageBar, objBar, Snapshot, TypeOK, ObjectTypes
  <1>9. objBar' \in ObjectTypes
    <2>1. TypeOK' /\ pc' # "defaults"
      BY <1>0, LoadBundledTyped DEF LoadBundled, Unmarshal
    <2>. QED
      BY <2>1 DEF objBar, Snapshot, TypeOK, ObjectTypes
  <1> DEFINE e == [name |-> configs[ci], src |-> "bundled"]
             d == Docs[configs[ci]]
  <1>3. /\ e.name = configs[ci] /\ e.src = "bundled"
        /\ (e.name \in (IF e.src = "bundled" THEN Bundled ELSE OnDisk)) = (configs[ci] \in Bundled)
    OBVIOUS
  <1>4. CASE /\ pc' = "failed"
             /\ UNCHANGED <<strs, bools, ints, slices, ci, pos, setValue,
                            aborted, unapplied>>
    <2>1. stageBar' = "failed" /\ objBar' = objBar /\ pendingBar' = << >>
      BY <1>2, <1>4 DEF stageBar, objBar, pendingBar, Snapshot
    <2>. QED
      BY <1>1, <1>2, <1>3, <1>4, <2>1 DEF L!ApplyLayer, L!Abort
  <1>5. CASE /\ configs[ci] \in Bundled
             /\ Unmarshal(d, ci' = ci + 1 /\ UNCHANGED <<pc, pos, setValue, aborted, unapplied>>)
    <2>1. CASE d.syntax
      <3>1. pc' = "failed" /\ UNCHANGED <<strs, bools, ints, slices>>
        BY <1>5, <2>1 DEF Unmarshal
      <3>2. stageBar' = "failed" /\ objBar' = objBar /\ pendingBar' = << >>
        BY <1>2, <3>1 DEF stageBar, objBar, pendingBar, Snapshot
      <3>. QED
        BY <1>1, <1>2, <1>3, <1>5, <2>1, <3>2 DEF L!ApplyLayer, L!Abort
    <2>2. CASE ~d.syntax
      <3>1. Merge(d)
        BY <1>5, <2>2 DEF Unmarshal
      <3>2. objBar' = L!Merged(d, objBar)
        <4>1. pc' # "defaults"
          BY <1>0, <1>5, <2>2 DEF Unmarshal
        <4>. QED
          BY <1>2, <3>1, <4>1, MergeMaps DEF objBar
      <3>3. CASE d.bad # {}
        <4>1. pc' = "failed"
          BY <1>5, <2>2, <3>3 DEF Unmarshal
        <4>2. stageBar' = "failed" /\ pendingBar' = << >>
          BY <4>1 DEF stageBar, pendingBar
        <4>. QED
          BY <1>1, <1>2, <1>3, <1>5, <1>9, <2>2, <3>2, <3>3, <4>2 DEF L!ApplyLayer, L!Abort
      <3>4. CASE d.bad = {}
        <4>1. ci' = ci + 1 /\ pc' = "bundled"
          BY <1>0, <1>5, <2>2, <3>4 DEF Unmarshal
        <4>2. stageBar' = "layers"
             /\ pendingBar' = ToLoad(SubSeq(configs, ci + 1, Len(configs)), custom)
          BY <1>0, <4>1 DEF stageBar, pendingBar
        <4>. QED
          BY <1>1, <1>2, <1>3, <1>5, <2>2, <3>2, <3>4, <4>2 DEF L!ApplyLayer
      <3>. QED
        BY <3>3, <3>4
    <2>. QED
      BY <2>1, <2>2
  <1>. QED
    BY <1>4, <1>5 DEF LoadBundled

(* loadYAMLFromFile is the abstract step that applies the last layer.    *)
LEMMA LoadCustomRefined == RInv /\ LoadCustom => L!ApplyLayer
  <1> SUFFICES ASSUME RInv, LoadCustom PROVE L!ApplyLayer
    OBVIOUS
  <1>0. /\ TypeOK /\ pc = "custom" /\ custom # "" /\ custom \in STRING
        /\ UNCHANGED <<configs, custom>>
    BY SchemaFacts, ConstantsOK DEF RInv, TypeOK, CustomInv, LoadCustom
  <1>1. /\ pendingBar # << >>
        /\ Head(pendingBar) = [name |-> custom, src |-> "file"]
        /\ Tail(pendingBar) = << >>
    <2>1. pendingBar = ToLoad(<< >>, custom)
      BY <1>0 DEF pendingBar
    <2>2. ToLoad(<< >>, custom) = CustomLayer(custom)
      BY <1>0, ToLoadEmpty, Zenon
    <2>3. CustomLayer(custom) = <<[name |-> custom, src |-> "file"]>>
      BY <1>0, CustomLayerFacts, Zenon
    <2>4. \A r : LET t == <<r>> IN t # << >> /\ Head(t) = r /\ Tail(t) = << >>
      OBVIOUS
    <2>. QED
      BY <2>1, <2>2, <2>3, <2>4, Zenon
  <1>2. stageBar = "layers" /\ objBar = Snapshot /\ objBar \in ObjectTypes
    BY <1>0 DEF stageBar, objBar, Snapshot, TypeOK, ObjectTypes
  <1>9. objBar' \in ObjectTypes
    <2>1. TypeOK' /\ pc' # "defaults"
      BY <1>0, LoadCustomTyped DEF LoadCustom, Unmarshal, StartEnv
    <2>. QED
      BY <2>1 DEF objBar, Snapshot, TypeOK, ObjectTypes
  <1> DEFINE e == [name |-> custom, src |-> "file"]
             d == Docs[custom]
  <1>3. /\ e.name = custom /\ e.src = "file"
        /\ (e.name \in (IF e.src = "bundled" THEN Bundled ELSE OnDisk)) = (custom \in OnDisk)
    OBVIOUS
  <1>4. ASSUME pc' \in {"fatal", "failed"}, UNCHANGED <<strs, bools, ints, slices>>
        PROVE  stageBar' = pc' /\ objBar' = objBar /\ pendingBar' = << >>
    BY <1>2, <1>4 DEF stageBar, objBar, pendingBar, Snapshot
  <1>6. CASE pc' = "fatal" /\ UNCHANGED <<strs, bools, ints, slices>>
    BY <1>1, <1>2, <1>3, <1>4, <1>6 DEF L!ApplyLayer, L!Abort
  <1>7. CASE custom \notin OnDisk /\ pc' = "failed" /\ UNCHANGED <<strs, bools, ints, slices>>
    BY <1>1, <1>2, <1>3, <1>4, <1>7 DEF L!ApplyLayer, L!Abort
  <1>8. CASE custom \in OnDisk /\ d.syntax /\ pc' = "failed"
             /\ UNCHANGED <<strs, bools, ints, slices>>
    BY <1>1, <1>2, <1>3, <1>4, <1>8 DEF L!ApplyLayer, L!Abort
  <1>5. CASE /\ custom \in OnDisk /\ ~d.syntax
             /\ Unmarshal(d, StartEnv)
    <2>1. Merge(d)
      BY <1>5 DEF Unmarshal
    <2>2. pc' \in {"failed", "env"}
      BY <1>5 DEF Unmarshal, StartEnv
    <2>3. objBar' = L!Merged(d, objBar) /\ pendingBar' = << >>
      BY <1>2, <2>1, <2>2, MergeMaps DEF objBar, pendingBar
    <2>4. CASE d.bad # {}
      <3>1. stageBar' = "failed"
        BY <1>5, <2>4 DEF Unmarshal, stageBar
      <3>. QED
        BY <1>1, <1>2, <1>3, <1>5, <1>9, <2>3, <2>4, <3>1 DEF L!ApplyLayer, L!Abort
    <2>5. CASE d.bad = {}
      <3>1. stageBar' = "layers"
        BY <1>5, <2>5 DEF Unmarshal, StartEnv, stageBar
      <3>. QED
        BY <1>1, <1>2, <1>3, <1>5, <2>3, <2>5, <3>1 DEF L!ApplyLayer
    <2>. QED
      BY <2>4, <2>5
  <1>. QED
    BY <1>5, <1>6, <1>7, <1>8 DEF LoadCustom, Unmarshal

(* The end of the default pass is the abstract Defaults step: the fields *)
(* without a default tag are still zero, and no layer has been applied.  *)
LEMMA FinishDefaultsRefined == RInv /\ FinishDefaults => L!Defaults
  <1> SUFFICES ASSUME RInv, FinishDefaults PROVE L!Defaults
    OBVIOUS
  <1>0. /\ TypeOK /\ ci = 1 /\ ZeroUntagged /\ pc = "defaults" /\ pc' = "bundled"
        /\ UNCHANGED <<strs, bools, ints, slices, ci, configs, custom>>
        /\ configs \in Seq(STRING)
    BY SchemaFacts DEF RInv, DefaultsInv, TypeOK, FinishDefaults
  <1>1. stageBar = "defaults" /\ stageBar' = "layers"
    BY <1>0 DEF stageBar
  <1>2. objBar' = Snapshot /\ Snapshot \in ObjectTypes
    BY <1>0 DEF objBar, Snapshot, TypeOK, ObjectTypes
  <1>3. L!UntaggedZero(objBar')
    BY <1>0, <1>2 DEF L!UntaggedZero, ZeroUntagged, ZeroObject, Snapshot
  <1>4. pendingBar' = pendingBar
    <2>1. SubSeq(configs, 1, Len(configs)) = configs
      BY <1>0, SubSeqFull, Zenon
    <2>. QED
      BY <1>0, <2>1 DEF pendingBar
  <1>. QED
    BY <1>1, <1>2, <1>3, <1>4 DEF L!Defaults

(* Each step of loadFromEnv is a step of the abstract environment pass.  *)
LEMMA LoadEnvRefined == RInv /\ RInv' /\ LoadEnv => L!EnvPass
  <1> SUFFICES ASSUME RInv, RInv', LoadEnv PROVE L!EnvPass
    OBVIOUS
  <1>1. pc = "env" /\ pc' = "env"
    BY DEF LoadEnv
  <1>2. stageBar = "layers" /\ stageBar' = "layers"
        /\ pendingBar = << >> /\ pendingBar' = << >>
    BY <1>1 DEF stageBar, pendingBar
  <1>3. objBar' \in ObjectTypes
    BY <1>1 DEF RInv, TypeOK, objBar, Snapshot, ObjectTypes
  <1>. QED
    BY <1>2, <1>3 DEF L!EnvPass

(* loadFromEnv returning, and IntoObject with it, is the abstract Return. *)
LEMMA FinishEnvRefined == FinishEnv => L!Return
  <1> SUFFICES ASSUME FinishEnv PROVE L!Return
    OBVIOUS
  <1>1. stageBar = "layers" /\ stageBar' = "done"
        /\ pendingBar = << >> /\ pendingBar' = << >>
        /\ objBar' = objBar
    BY DEF FinishEnv, stageBar, pendingBar, objBar, Snapshot
  <1>. QED
    BY <1>1 DEF L!Return

(* The end of the configs loop changes nothing the abstraction sees: the *)
(* layers pending are the custom file's either way.                      *)
LEMMA FinishBundledStutters == RInv /\ FinishBundled => UNCHANGED L!vars
  <1> SUFFICES ASSUME RInv, FinishBundled PROVE UNCHANGED L!vars
    OBVIOUS
  <1>0. /\ pc = "bundled" /\ ci = Len(configs) + 1
        /\ UNCHANGED <<strs, bools, ints, slices, configs, custom>>
        /\ configs \in Seq(STRING) /\ custom \in STRING
    BY SchemaFacts, ConstantsOK DEF RInv, TypeOK, FinishBundled
  <1>1. pendingBar = ToLoad(<< >>, custom)
    <2>1. ToLoad(SubSeq(configs, Len(configs) + 1, Len(configs)), custom)
            = ToLoad(<< >>, custom)
      BY <1>0, PendingAfterLoop, Zenon
    <2>. QED
      BY <1>0, <2>1 DEF pendingBar
  <1>2. ToLoad(<< >>, custom) = CustomLayer(custom)
    BY <1>0, ToLoadEmpty, Zenon
  <1>3. CASE custom = ""
    <2>1. pc' = "env"
      BY <1>3 DEF FinishBundled, StartEnv
    <2>2. CustomLayer(custom) = << >>
      BY <1>0, <1>3, CustomLayerFacts, Zenon
    <2>3. pendingBar' = << >>
      BY <2>1 DEF pendingBar
    <2>. QED
      BY <1>0, <1>1, <1>2, <2>1, <2>2, <2>3 DEF L!vars, stageBar, objBar, Snapshot
  <1>4. CASE custom # ""
    <2>1. pc' = "custom"
      BY <1>4 DEF FinishBundled
    <2>2. pendingBar' = ToLoad(<< >>, custom)
      BY <1>0, <2>1 DEF pendingBar
    <2>. QED
      BY <1>0, <1>1, <2>1, <2>2 DEF L!vars, stageBar, objBar, Snapshot
  <1>. QED
    BY <1>3, <1>4

(* Every step of IntoObject is a step of the layered resolution or leaves *)
(* what it promises unchanged.                                           *)
LEMMA StepRefined == RInv /\ RInv' /\ [Next]_vars => [L!Next]_L!vars
  <1> SUFFICES ASSUME RInv, RInv', [Next]_vars PROVE [L!Next]_L!vars
    OBVIOUS
  <1>1. CASE SkipReturned
    BY <1>1 DEF SkipReturned, L!vars, stageBar, objBar, pendingBar, Snapshot
  <1>2. CASE LoadDefault
    BY <1>2 DEF LoadDefault, L!vars, stageBar, objBar, pendingBar
  <1>3. CASE FinishDefaults
    BY <1>3, FinishDefaultsRefined DEF L!Next
  <1>4. CASE LoadBundled
    BY <1>4, LoadBundledRefined DEF L!Next
  <1>5. CASE FinishBundled
    BY <1>5, FinishBundledStutters
  <1>6. CASE LoadCustom
    BY <1>6, LoadCustomRefined DEF L!Next
  <1>7. CASE LoadEnv
    BY <1>7, LoadEnvRefined DEF L!Next
  <1>8. CASE FinishEnv
    BY <1>8, FinishEnvRefined DEF L!Next
  <1>9. CASE UNCHANGED vars
    BY <1>9 DEF vars, L!vars, stageBar, objBar, pendingBar, Snapshot
  <1>. QED
    BY <1>1, <1>2, <1>3, <1>4, <1>5, <1>6, <1>7, <1>8, <1>9 DEF Next

(* IntoObject implements the layered resolution (LayersRefined): in every *)
(* behaviour of ConfigLoad the default pass leaves the untagged fields    *)
(* zero, the overlays are merged in order, the first one missing or       *)
(* undecodable ends the call, and the environment pass runs last.        *)
THEOREM Refinement == Spec => LayersRefined
  <1>1. Init => RInv /\ L!Init
    BY InitRInv, InitRefined
  <1>2. RInv /\ [Next]_vars => RInv'
    BY NextRInv
  <1>3. RInv /\ RInv' /\ [Next]_vars => [L!Next]_L!vars
    BY StepRefined
  <1>. QED
    BY <1>1, <1>2, <1>3, PTL DEF Spec, LayersRefined, L!Spec
=============================================================================
