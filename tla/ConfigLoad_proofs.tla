-------------------------- MODULE ConfigLoad_proofs --------------------------
(***************************************************************************)
(* Proofs about ConfigLoad that hold for every schema, environment and    *)
(* set of overlay documents that satisfy ConstantsOK.                      *)
(***************************************************************************)
EXTENDS ConfigLoad, TLAPS

(* The three shapes of value processValueFromString stores in a string   *)
(* field are string values.                                              *)
LEMMA LitTyped == \A s \in RawStrings : Lit(s) \in StrVal
  BY DEF Lit, StrVal

LEMMA TmpDirTyped == \A k \in Nat : TmpDir(k) \in StrVal
  BY DEF TmpDir, StrVal, RawStrings

LEMMA RndStrTyped == \A s \in RndInRange : RndStr(RndLength(s)) \in StrVal
  BY DEF RndStr, RndLength, RndInRange, StrVal, RawStrings

(* strings.Split on "," of a raw string yields comma-free elements.      *)
LEMMA SplitTyped ==
  ASSUME NEW s \in RawStrings
  PROVE  SplitComma(s) \in Seq(SliceElems)
  <1>1. CASE s = "a,b"
    <2>1. {"a", "b"} \subseteq SliceElems
      BY DEF SliceElems
    <2>2. SplitComma(s) = <<"a", "b">>
      BY <1>1, Zenon DEF SplitComma
    <2>. QED
      BY <2>1, <2>2
  <1>2. CASE s # "a,b"
    <2>1. s \in SliceElems
      BY <1>2 DEF SliceElems
    <2>2. SplitComma(s) = <<s>>
      BY <1>2, Zenon DEF SplitComma
    <2>. QED
      BY <2>1, <2>2
  <1>. QED
    BY <1>1, <1>2

(* Overwriting one entry of a typed function with a typed value.         *)
LEMMA ExceptTyped ==
  ASSUME NEW S, NEW T, NEW f \in [S -> T], NEW x \in S, NEW v \in T
  PROVE  [f EXCEPT ![x] = v] \in [S -> T]
  OBVIOUS

(* Decoding typed keys over a typed object keeps it typed.              *)
LEMMA OverlayTyped ==
  ASSUME NEW S, NEW T, NEW cur \in [S -> T], NEW D \in SUBSET S,
         NEW keys \in [D -> T]
  PROVE  Overlay(keys, cur) \in [S -> T]
  BY DEF Overlay

(* The parts of TypeOK that one iteration of load() may change.          *)
ObjTyped ==
    /\ strs \in [StrLeaves -> StrVal]
    /\ bools \in [BoolLeaves -> BOOLEAN]
    /\ ints \in [IntLeaves -> Int]
    /\ slices \in [SliceLeaves -> Seq(SliceElems)]
BookTyped ==
    /\ tmpDirs \in Nat
    /\ aborted \subseteq Frames
    /\ fieldErrors \subseteq Leaves
    /\ unapplied \subseteq Leaves

LEMMA TypeOKParts == TypeOK => ObjTyped /\ BookTyped
  BY DEF TypeOK, ObjTyped, BookTyped

(* A field error leaves the object alone and records a frame and a leaf. *)
LEMMA FailTyped ==
  ASSUME TypeOK, NEW l \in Leaves, Fail(l)
  PROVE  (ObjTyped /\ BookTyped)'
  <1>1. Frame[l] \in Frames
    BY ConstantsOK
  <1>2. ObjTyped /\ BookTyped
    BY TypeOKParts
  <1>. QED
    BY <1>1, <1>2 DEF Fail, ObjTyped, BookTyped

(* Every outcome of processValueFromString keeps the object typed.       *)
LEMMA ProcessValueTyped ==
  ASSUME TypeOK, NEW l \in Leaves, NEW raw \in RawStrings, ProcessValue(l, raw)
  PROVE  (ObjTyped /\ BookTyped)'
  <1>0. ObjTyped /\ BookTyped
    BY TypeOKParts
  <1> USE <1>0
  <1>1. CASE l \in StrLeaves /\ ProcessString(l, raw)
    <2>1. CASE /\ raw = TmpDirSentinel
               /\ strs' = [strs EXCEPT ![l] = TmpDir(tmpDirs + 1)]
               /\ tmpDirs' = tmpDirs + 1
               /\ Succeed /\ UNCHANGED <<bools, ints, slices>>
      <3>1. TmpDir(tmpDirs + 1) \in StrVal
        BY TmpDirTyped DEF TypeOK
      <3>. QED
        BY <1>1, <2>1, <3>1, ExceptTyped DEF ObjTyped, BookTyped, Succeed, TypeOK
    <2>2. CASE /\ raw \in RndInRange
               /\ strs' = [strs EXCEPT ![l] = RndStr(RndLength(raw))]
               /\ Succeed /\ UNCHANGED <<bools, ints, slices, tmpDirs>>
      <3>1. RndStr(RndLength(raw)) \in StrVal
        BY <2>2, RndStrTyped
      <3>. QED
        BY <1>1, <2>2, <3>1, ExceptTyped DEF ObjTyped, BookTyped, Succeed
    <2>3. CASE /\ raw \notin RndDirectives \cup {TmpDirSentinel}
               /\ strs' = [strs EXCEPT ![l] = Lit(raw)]
               /\ Succeed /\ UNCHANGED <<bools, ints, slices, tmpDirs>>
      <3>1. Lit(raw) \in StrVal
        BY LitTyped
      <3>. QED
        BY <1>1, <2>3, <3>1, ExceptTyped DEF ObjTyped, BookTyped, Succeed
    <2>4. CASE Fail(l)
      BY <2>4, FailTyped
    <2>. QED
      BY <1>1, <2>1, <2>2, <2>3, <2>4 DEF ProcessString
  <1>2. CASE l \in BoolLeaves /\ ProcessBool(l, raw)
    <2>1. CASE /\ bools' = [bools EXCEPT ![l] = raw \in TrueLits]
               /\ Succeed /\ UNCHANGED <<strs, ints, slices, tmpDirs>>
      BY <1>2, <2>1 DEF ObjTyped, BookTyped, Succeed
    <2>2. CASE Fail(l)
      BY <2>2, FailTyped
    <2>. QED
      BY <1>2, <2>1, <2>2 DEF ProcessBool
  <1>3. CASE l \in SliceLeaves /\ ProcessSlice(l, raw)
    <2>1. slices[l] \in Seq(SliceElems)
      BY <1>3 DEF ObjTyped
    <2>2. (IF raw = "" THEN slices[l] ELSE slices[l] \o SplitComma(raw))
            \in Seq(SliceElems)
      <3>1. SplitComma(raw) \in Seq(SliceElems)
        BY SplitTyped
      <3>2. slices[l] \o SplitComma(raw) \in Seq(SliceElems)
        BY <2>1, <3>1
      <3>. QED
        BY <2>1, <3>2
    <2>3. slices' = [slices EXCEPT ![l] = IF raw = "" THEN slices[l]
                                          ELSE slices[l] \o SplitComma(raw)]
      BY <1>3 DEF ProcessSlice
    <2>4. UNCHANGED <<strs, bools, ints, tmpDirs, aborted, fieldErrors, unapplied>>
      BY <1>3 DEF ProcessSlice, Succeed
    <2>. QED
      BY <1>3, <2>2, <2>3, <2>4, ExceptTyped DEF ObjTyped, BookTyped
  <1>4. CASE l \in IntLeaves /\ ProcessInt(l, raw)
    <2>1. CASE /\ ints' = [ints EXCEPT ![l] = IntOf(raw)]
               /\ Succeed /\ UNCHANGED <<strs, bools, slices, tmpDirs>>
      <3>1. IntOf(raw) \in Int
        BY DEF IntOf
      <3>. QED
        BY <1>4, <2>1, <3>1, ExceptTyped DEF ObjTyped, BookTyped, Succeed
    <2>2. CASE Fail(l)
      BY <2>2, FailTyped
    <2>. QED
      BY <1>4, <2>1, <2>2 DEF ProcessInt
  <1>. QED
    BY <1>1, <1>2, <1>3, <1>4 DEF ProcessValue

(* A decoded document merged into the object keeps it typed.             *)
LEMMA MergeTyped ==
  ASSUME ObjTyped, NEW d, IsDoc(d), Merge(d)
  PROVE  ObjTyped'
  BY OverlayTyped DEF IsDoc, Merge, ObjTyped

(* The facts about the schema and the documents that the typing proof    *)
(* uses.                                                                 *)
LEMMA SchemaFacts ==
  /\ Fields \in Seq(Leaves)
  /\ Frame \in [Leaves -> Frames]
  /\ DefaultTag \in [Leaves -> RawStrings \cup {NoTag}]
  /\ EnvTag \in [Leaves -> EnvVars \cup {NoTag}]
  /\ EnvChoices \subseteq RawStrings
  /\ \A d \in DocNames : IsDoc(Docs[d])
  /\ Bundled \subseteq DocNames /\ OnDisk \subseteq DocNames
  /\ ConfigChoices \subseteq Seq(STRING)
  BY ConstantsOK

(* The leaf the walk is at, and the raw strings load() may hand it.      *)
LEMMA CurFacts ==
  ASSUME TypeOK, Walking
  PROVE  /\ Cur \in Leaves
         /\ Frame[Cur] \in Frames
         /\ pos + 1 \in 1..(Len(Fields) + 1)
         /\ DefaultTag[Cur] # NoTag => DefaultTag[Cur] \in RawStrings
         /\ EnvTag[Cur] # NoTag => env[EnvTag[Cur]] \in RawStrings
         /\ setValue[Frame[Cur]] \in RawStrings
  <1>1. Cur \in Leaves
    BY SchemaFacts DEF TypeOK, Walking, Cur
  <1>2. EnvTag[Cur] # NoTag => EnvTag[Cur] \in EnvVars
    BY <1>1, SchemaFacts
  <1>. QED
    BY <1>1, <1>2, SchemaFacts DEF TypeOK, Walking

(* yaml.Unmarshal keeps the object typed, and either fails or goes on.   *)
LEMMA UnmarshalTyped ==
  ASSUME ObjTyped, NEW d, IsDoc(d), NEW ACTION C, Unmarshal(d, C)
  PROVE  /\ ObjTyped'
         /\ \/ C
            \/ pc' = "failed" /\ UNCHANGED <<ci, pos, setValue, aborted, unapplied>>
  <1>1. CASE d.syntax
    BY <1>1 DEF Unmarshal, ObjTyped
  <1>2. CASE ~d.syntax
    <2>1. /\ Merge(d)
          /\ \/ C
             \/ pc' = "failed" /\ UNCHANGED <<ci, pos, setValue, aborted, unapplied>>
      BY <1>2 DEF Unmarshal
    <2>. QED
      BY <2>1, MergeTyped
  <1>. QED
    BY <1>1, <1>2

(* The caller's zero-valued struct is typed.                             *)
LEMMA InitTypeOK == Init => TypeOK
  <1> SUFFICES ASSUME Init PROVE TypeOK
    OBVIOUS
  <1>1. strs \in [StrLeaves -> StrVal]
    <2>1. strs = [l \in StrLeaves |-> Lit("")]
      BY DEF Init
    <2>2. Lit("") \in StrVal
      BY LitTyped DEF RawStrings
    <2>. QED
      BY <2>1, <2>2
  <1>2. bools \in [BoolLeaves -> BOOLEAN]
    <2>1. bools = [l \in BoolLeaves |-> FALSE]
      BY DEF Init
    <2>. QED
      BY <2>1
  <1>3. ints \in [IntLeaves -> Int]
    <2>1. ints = [l \in IntLeaves |-> 0]
      BY DEF Init
    <2>. QED
      BY <2>1
  <1>4. slices \in [SliceLeaves -> Seq(SliceElems)]
    <2>1. slices = [l \in SliceLeaves |-> << >>]
      BY DEF Init
    <2>. QED
      BY <2>1
  <1>5. base \in ObjectTypes
    <2>1. base = Snapshot
      BY DEF Init
    <2>. QED
      BY <1>1, <1>2, <1>3, <1>4, <2>1 DEF Snapshot, ObjectTypes
  <1>6. setValue \in [Frames -> RawStrings]
    <2>1. setValue = EmptyLocals
      BY DEF Init
    <2>2. "" \in RawStrings
      BY DEF RawStrings
    <2>. QED
      BY <2>1, <2>2 DEF EmptyLocals
  <1>7. /\ pc = "defaults" /\ pos = 1 /\ ci = 1 /\ tmpDirs = 0
        /\ aborted = {} /\ fieldErrors = {} /\ unapplied = {}
        /\ configs \in ConfigChoices /\ custom \in CustomChoices
        /\ env \in [EnvVars -> EnvChoices]
    BY DEF Init
  <1>8. configs \in Seq(STRING) /\ Fields \in Seq(Leaves)
    BY <1>7, SchemaFacts
  <1>9. /\ pc \in {"defaults", "bundled", "custom", "env"} \cup Terminal
        /\ pos \in 1..(Len(Fields) + 1) /\ ci \in 1..(Len(configs) + 1)
    BY <1>7, <1>8
  <1>. QED
    BY <1>1, <1>2, <1>3, <1>4, <1>5, <1>6, <1>7, <1>9 DEF TypeOK

(* Passing over a field whose load() call has returned.                  *)
LEMMA SkipReturnedTyped == TypeOK /\ SkipReturned => TypeOK'
  <1> SUFFICES ASSUME TypeOK, SkipReturned PROVE TypeOK'
    OBVIOUS
  <1>1. Cur \in Leaves /\ pos + 1 \in 1..(Len(Fields) + 1)
    BY CurFacts DEF SkipReturned
  <1>. QED
    BY <1>1 DEF SkipReturned, TypeOK

(* One iteration of the default pass.                                    *)
LEMMA LoadDefaultTyped == TypeOK /\ LoadDefault => TypeOK'
  <1> SUFFICES ASSUME TypeOK, LoadDefault PROVE TypeOK'
    OBVIOUS
  <1>1. /\ Cur \in Leaves /\ Frame[Cur] \in Frames
        /\ pos + 1 \in 1..(Len(Fields) + 1)
        /\ DefaultTag[Cur] # NoTag => DefaultTag[Cur] \in RawStrings
    BY CurFacts DEF LoadDefault
  <1>2. CASE /\ DefaultTag[Cur] = NoTag
             /\ setValue' = [setValue EXCEPT ![Frame[Cur]] = ""]
             /\ UNCHANGED <<strs, bools, ints, slices, aborted, tmpDirs,
                            fieldErrors, unapplied>>
    <2>1. "" \in RawStrings
      BY DEF RawStrings
    <2>. QED
      BY <1>1, <1>2, <2>1 DEF LoadDefault, TypeOK
  <1>3. CASE /\ DefaultTag[Cur] # NoTag
             /\ setValue' = [setValue EXCEPT ![Frame[Cur]] = DefaultTag[Cur]]
             /\ ProcessValue(Cur, DefaultTag[Cur])
    <2>1. (ObjTyped /\ BookTyped)'
      BY <1>1, <1>3, ProcessValueTyped
    <2>. QED
      BY <1>1, <1>3, <2>1 DEF LoadDefault, TypeOK, ObjTyped, BookTyped
  <1>. QED
    BY <1>2, <1>3 DEF LoadDefault

(* One iteration of the environment pass.                                *)
LEMMA LoadEnvTyped == TypeOK /\ LoadEnv => TypeOK'
  <1> SUFFICES ASSUME TypeOK, LoadEnv PROVE TypeOK'
    OBVIOUS
  <1>1. /\ Cur \in Leaves /\ Frame[Cur] \in Frames
        /\ pos + 1 \in 1..(Len(Fields) + 1)
        /\ EnvTag[Cur] # NoTag => env[EnvTag[Cur]] \in RawStrings
        /\ setValue[Frame[Cur]] \in RawStrings
    BY CurFacts DEF LoadEnv
  <1>2. CASE /\ EnvTag[Cur] # NoTag
             /\ env[EnvTag[Cur]] = ""
             /\ setValue' = [setValue EXCEPT ![Frame[Cur]] = ""]
             /\ UNCHANGED <<strs, bools, ints, slices, aborted, tmpDirs,
                            fieldErrors, unapplied>>
    <2>1. "" \in RawStrings
      BY DEF RawStrings
    <2>. QED
      BY <1>1, <1>2, <2>1 DEF LoadEnv, TypeOK
  <1>3. CASE /\ EnvTag[Cur] # NoTag
             /\ env[EnvTag[Cur]] # ""
             /\ setValue' = [setValue EXCEPT ![Frame[Cur]] = env[EnvTag[Cur]]]
             /\ ProcessValue(Cur, env[EnvTag[Cur]])
    <2>1. (ObjTyped /\ BookTyped)'
      BY <1>1, <1>3, ProcessValueTyped
    <2>. QED
      BY <1>1, <1>3, <2>1 DEF LoadEnv, TypeOK, ObjTyped, BookTyped
  <1>4. CASE /\ EnvTag[Cur] = NoTag
             /\ UNCHANGED setValue
             /\ ProcessValue(Cur, setValue[Frame[Cur]])
    <2>1. (ObjTyped /\ BookTyped)'
      BY <1>1, <1>4, ProcessValueTyped
    <2>. QED
      BY <1>1, <1>4, <2>1 DEF LoadEnv, TypeOK, ObjTyped, BookTyped
  <1>. QED
    BY <1>2, <1>3, <1>4 DEF LoadEnv

(* The end of the default pass records the object as base.               *)
LEMMA FinishDefaultsTyped == TypeOK /\ FinishDefaults => TypeOK'
  <1> SUFFICES ASSUME TypeOK, FinishDefaults PROVE TypeOK'
    OBVIOUS
  <1>1. Snapshot \in ObjectTypes
    BY DEF TypeOK, Snapshot, ObjectTypes
  <1>2. EmptyLocals \in [Frames -> RawStrings]
    <2>1. "" \in RawStrings
      BY DEF RawStrings
    <2>. QED
      BY <2>1 DEF EmptyLocals
  <1>. QED
    BY <1>1, <1>2 DEF FinishDefaults, TypeOK

(* The start of the environment pass.                                    *)
LEMMA StartEnvTyped ==
  ASSUME TypeOK, StartEnv
  PROVE  /\ pc' = "env" /\ pos' = 1 /\ aborted' = {} /\ unapplied' = {}
         /\ setValue' \in [Frames -> RawStrings] /\ ci' = ci
         /\ pos' \in 1..(Len(Fields) + 1)
  <1>1. "" \in RawStrings
    BY DEF RawStrings
  <1>2. Fields \in Seq(Leaves)
    BY SchemaFacts
  <1>3. /\ pc' = "env" /\ pos' = 1 /\ aborted' = {} /\ unapplied' = {}
        /\ setValue' = EmptyLocals /\ ci' = ci
    BY DEF StartEnv
  <1>4. EmptyLocals \in [Frames -> RawStrings]
    BY <1>1 DEF EmptyLocals
  <1>5. 1 \in 1..(Len(Fields) + 1)
    BY <1>2
  <1>. QED
    BY <1>3, <1>4, <1>5

(* One iteration of the configs loop.                                    *)
LEMMA LoadBundledTyped == TypeOK /\ LoadBundled => TypeOK'
  <1> SUFFICES ASSUME TypeOK, LoadBundled PROVE TypeOK'
    OBVIOUS
  <1>0. ObjTyped /\ BookTyped
    BY TypeOKParts
  <1>1. UNCHANGED <<configs, custom, env, tmpDirs, base, fieldErrors>>
    BY DEF LoadBundled
  <1>2. ci \in 1..Len(configs) /\ configs \in Seq(STRING)
    BY SchemaFacts DEF LoadBundled, TypeOK
  <1>3. CASE /\ pc' = "failed"
             /\ UNCHANGED <<strs, bools, ints, slices, ci, pos, setValue,
                            aborted, unapplied>>
    BY <1>1, <1>3 DEF TypeOK, Terminal
  <1>4. CASE /\ configs[ci] \in Bundled
             /\ Unmarshal(Docs[configs[ci]],
                          ci' = ci + 1 /\ UNCHANGED <<pc, pos, setValue, aborted, unapplied>>)
    <2>1. IsDoc(Docs[configs[ci]])
      BY <1>4, SchemaFacts
    <2>2. /\ ObjTyped'
          /\ \/ ci' = ci + 1 /\ UNCHANGED <<pc, pos, setValue, aborted, unapplied>>
             \/ pc' = "failed" /\ UNCHANGED <<ci, pos, setValue, aborted, unapplied>>
      BY <1>0, <1>4, <2>1, UnmarshalTyped
    <2>3. ci' \in 1..(Len(configs') + 1)
      BY <1>1, <1>2, <2>2
    <2>. QED
      BY <1>1, <2>2, <2>3 DEF TypeOK, ObjTyped, Terminal
  <1>. QED
    BY <1>3, <1>4 DEF LoadBundled

(* After the configs loop: the custom file, or the environment pass.     *)
LEMMA FinishBundledTyped == TypeOK /\ FinishBundled => TypeOK'
  <1> SUFFICES ASSUME TypeOK, FinishBundled PROVE TypeOK'
    OBVIOUS
  <1>1. UNCHANGED <<strs, bools, ints, slices, configs, custom, env, tmpDirs,
                    base, fieldErrors>>
    BY DEF FinishBundled
  <1>2. CASE StartEnv
    BY <1>1, <1>2, StartEnvTyped DEF TypeOK
  <1>3. CASE pc' = "custom" /\ UNCHANGED <<pos, setValue, aborted, ci, unapplied>>
    BY <1>1, <1>3 DEF TypeOK
  <1>. QED
    BY <1>2, <1>3 DEF FinishBundled

(* loadYAMLFromFile: a fatal exit, a missing file, or the merge.         *)
LEMMA LoadCustomTyped == TypeOK /\ LoadCustom => TypeOK'
  <1> SUFFICES ASSUME TypeOK, LoadCustom PROVE TypeOK'
    OBVIOUS
  <1>0. ObjTyped /\ BookTyped
    BY TypeOKParts
  <1>1. UNCHANGED <<configs, custom, env, tmpDirs, base, fieldErrors>>
    BY DEF LoadCustom
  <1>2. CASE /\ pc' \in {"fatal", "failed"}
             /\ UNCHANGED <<strs, bools, ints, slices, ci, pos, setValue,
                            aborted, unapplied>>
    BY <1>1, <1>2 DEF TypeOK, Terminal
  <1>3. CASE custom \in OnDisk /\ Unmarshal(Docs[custom], StartEnv)
    <2>1. IsDoc(Docs[custom])
      BY <1>3, SchemaFacts
    <2>2. /\ ObjTyped'
          /\ \/ StartEnv
             \/ pc' = "failed" /\ UNCHANGED <<ci, pos, setValue, aborted, unapplied>>
      BY <1>0, <1>3, <2>1, UnmarshalTyped
    <2>3. CASE StartEnv
      BY <1>1, <2>2, <2>3, StartEnvTyped DEF TypeOK, ObjTyped
    <2>4. CASE pc' = "failed" /\ UNCHANGED <<ci, pos, setValue, aborted, unapplied>>
      BY <1>1, <2>2, <2>4 DEF TypeOK, ObjTyped, Terminal
    <2>. QED
      BY <2>2, <2>3, <2>4
  <1>. QED
    BY <1>2, <1>3 DEF LoadCustom

(* loadFromEnv returns and IntoObject with it.                           *)
LEMMA FinishEnvTyped == TypeOK /\ FinishEnv => TypeOK'
  BY DEF FinishEnv, TypeOK, Terminal

(* Every step of IntoObject keeps every variable at its type.            *)
LEMMA NextTypeOK == TypeOK /\ [Next]_vars => TypeOK'
  <1> SUFFICES ASSUME TypeOK, [Next]_vars PROVE TypeOK'
    OBVIOUS
  <1>1. CASE SkipReturned    BY <1>1, SkipReturnedTyped
  <1>2. CASE LoadDefault     BY <1>2, LoadDefaultTyped
  <1>3. CASE FinishDefaults  BY <1>3, FinishDefaultsTyped
  <1>4. CASE LoadBundled     BY <1>4, LoadBundledTyped
  <1>5. CASE FinishBundled   BY <1>5, FinishBundledTyped
  <1>6. CASE LoadCustom      BY <1>6, LoadCustomTyped
  <1>7. CASE LoadEnv         BY <1>7, LoadEnvTyped
  <1>8. CASE FinishEnv       BY <1>8, FinishEnvTyped
  <1>9. CASE UNCHANGED vars
    BY <1>9 DEF vars, TypeOK, ObjectTypes
  <1>. QED
    BY <1>1, <1>2, <1>3, <1>4, <1>5, <1>6, <1>7, <1>8, <1>9 DEF Next

(* Type correctness of IntoObject: each field of the config struct holds *)
(* a value of its reflect kind in every state of every run, whatever the *)
(* schema, the environment and the overlay documents.                    *)
THEOREM TypeCorrect == Spec => []TypeOK
  BY InitTypeOK, NextTypeOK, PTL DEF Spec

(* processValueFromString writes only the field it is given.             *)
LEMMA ProcessValueOnly ==
  ASSUME TypeOK, NEW l \in Leaves, NEW raw \in RawStrings, ProcessValue(l, raw)
  PROVE  /\ \A k \in StrLeaves \ {l} : strs'[k] = strs[k]
         /\ \A k \in BoolLeaves \ {l} : bools'[k] = bools[k]
         /\ \A k \in IntLeaves \ {l} : ints'[k] = ints[k]
         /\ \A k \in SliceLeaves \ {l} : slices'[k] = slices[k]
  <1>0. /\ DOMAIN strs = StrLeaves /\ DOMAIN bools = BoolLeaves
        /\ DOMAIN ints = IntLeaves /\ DOMAIN slices = SliceLeaves
    BY DEF TypeOK
  <1>1. CASE l \in StrLeaves /\ ProcessString(l, raw)
    <2>1. CASE UNCHANGED <<strs, bools, ints, slices>>
      BY <2>1
    <2>2. CASE \E v : strs' = [strs EXCEPT ![l] = v] /\ UNCHANGED <<bools, ints, slices>>
      BY <1>0, <2>2
    <2>. QED
      BY <1>1, <2>1, <2>2 DEF ProcessString, Fail, Succeed
  <1>2. CASE l \in BoolLeaves /\ ProcessBool(l, raw)
    <2>1. CASE UNCHANGED <<strs, bools, ints, slices>>
      BY <2>1
    <2>2. CASE \E v : bools' = [bools EXCEPT ![l] = v] /\ UNCHANGED <<strs, ints, slices>>
      BY <1>0, <2>2
    <2>. QED
      BY <1>2, <2>1, <2>2 DEF ProcessBool, Fail, Succeed
  <1>3. CASE l \in SliceLeaves /\ ProcessSlice(l, raw)
    <2>1. \E v : slices' = [slices EXCEPT ![l] = v] /\ UNCHANGED <<strs, bools, ints>>
      BY <1>3 DEF ProcessSlice, Succeed
    <2>. QED
      BY <1>0, <2>1
  <1>4. CASE l \in IntLeaves /\ ProcessInt(l, raw)
    <2>1. CASE UNCHANGED <<strs, bools, ints, slices>>
      BY <2>1
    <2>2. CASE \E v : ints' = [ints EXCEPT ![l] = v] /\ UNCHANGED <<strs, bools, slices>>
      BY <1>0, <2>2
    <2>. QED
      BY <1>4, <2>1, <2>2 DEF ProcessInt, Fail, Succeed
  <1>. QED
    BY <1>1, <1>2, <1>3, <1>4 DEF ProcessValue
=============================================================================
