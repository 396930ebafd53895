----------------------- MODULE ConfigLoadPrecedence_proofs ---------------------
(***************************************************************************)
(* Proofs of the two precedence rules of IntoObject, overlays last-writer- *)
(* wins (OverlayLastWriterWins) and the environment over the overlays     *)
(* (EnvPrecedence), for every schema, environment and set of overlay      *)
(* documents that satisfy ConstantsOK.                                     *)
(***************************************************************************)
EXTENDS ConfigLoad_proofs, SequenceTheorems

(* The documents among names that set field l of kind k, and that one of *)
(* them comes last.  LastWritten picks the last one by CHOOSE; that it    *)
(* exists is kept as part of the invariant, one document at a time, so    *)
(* that no induction over the index set is needed.                        *)
Setters(k, l, names) == {i \in 1..Len(names) : l \in DOMAIN Docs[names[i]][k]}
HasLast(k, l, names) ==
    Setters(k, l, names) = {} \/ \E i \in Setters(k, l, names) : \A j \in Setters(k, l, names) : j <= i

(* LastWritten with the object of the default pass as a parameter.      *)
LW(b, k, l, names) ==
    IF Setters(k, l, names) = {} THEN b[k][l]
    ELSE Docs[names[CHOOSE i \in Setters(k, l, names) :
                         \A j \in Setters(k, l, names) : j <= i]][k][l]

(* Every field of kind k holds the value of the last of names that sets  *)
(* it, or its value b after the default pass.                             *)
OverlaidB(b, k, cur, names) ==
    \A l \in DOMAIN cur : HasLast(k, l, names) /\ cur[l] = LW(b, k, l, names)

Overlaying == pc \in {"bundled", "custom"} \/ (pc = "env" /\ pos = 1)
LWInv ==
    Overlaying =>
        /\ OverlaidB(base, "strs", strs, Applied) /\ OverlaidB(base, "bools", bools, Applied)
        /\ OverlaidB(base, "ints", ints, Applied) /\ OverlaidB(base, "slices", slices, Applied)
(* The configs loop starts at the first name, and the custom stage is    *)
(* only reached with a path.                                              *)
DefaultsStart == pc = "defaults" => ci = 1
CustomGiven == pc = "custom" => custom # ""
IInv == TypeOK /\ LWInv /\ DefaultsStart /\ CustomGiven
-----------------------------------------------------------------------------
LEMMA LastWrittenIsLW ==
  ASSUME NEW k, NEW l, NEW names
  PROVE  LastWritten(k, l, names) = LW(base, k, l, names)
  BY DEF LastWritten, LW, Setters

(* Merging one more document: if it sets the field it is the last writer, *)
(* else the last writer is unchanged.                                      *)
LEMMA LastAppend ==
  ASSUME NEW b, NEW k, NEW l, NEW T, NEW names \in Seq(T), NEW n \in T,
         HasLast(k, l, names)
  PROVE  /\ HasLast(k, l, Append(names, n))
         /\ LW(b, k, l, Append(names, n)) =
              IF l \in DOMAIN Docs[n][k] THEN Docs[n][k][l] ELSE LW(b, k, l, names)
  <1> DEFINE S == Setters(k, l, names)
             S2 == Setters(k, l, Append(names, n))
             N == Len(names)
  <1> USE DEF S, S2, N
  <1>1. /\ Len(Append(names, n)) = N + 1
        /\ \A i \in 1..N : Append(names, n)[i] = names[i]
        /\ Append(names, n)[N + 1] = n
        /\ N \in Nat
    BY AppendProperties
  <1>2. S \subseteq 1..N
    BY DEF Setters
  <1>3. CASE l \in DOMAIN Docs[n][k]
    <2>1. S2 = S \cup {N + 1}
      BY <1>1, <1>3 DEF Setters
    <2>2. N + 1 \in S2 /\ \A j \in S2 : j <= N + 1
      BY <1>1, <1>2, <2>1
    <2>3. HasLast(k, l, Append(names, n))
      BY <2>2 DEF HasLast
    <2>4. (CHOOSE i \in S2 : \A j \in S2 : j <= i) = N + 1
      <3> DEFINE c == CHOOSE i \in S2 : \A j \in S2 : j <= i
      <3> USE DEF c
      <3>1. c \in S2 /\ \A j \in S2 : j <= c
        BY <2>2
      <3>2. c \in Int
        <4>1. S2 \subseteq 1..Len(Append(names, n))
          BY DEF Setters
        <4>. QED
          BY <3>1, <4>1
      <3>. QED
        BY <2>2, <3>1, <3>2
    <2>5. LW(b, k, l, Append(names, n)) = Docs[n][k][l]
      BY <1>1, <2>2, <2>4 DEF LW
    <2>. QED
      BY <1>3, <2>3, <2>5
  <1>4. CASE l \notin DOMAIN Docs[n][k]
    <2>1. S2 = S
      BY <1>1, <1>4 DEF Setters
    <2>2. HasLast(k, l, Append(names, n))
      BY <2>1 DEF HasLast
    <2>3. CASE S = {}
      BY <2>1, <2>2, <2>3, <1>4 DEF LW
    <2>4. CASE S # {}
      <3> DEFINE c == CHOOSE i \in S : \A j \in S : j <= i
      <3> USE DEF c
      <3>1. c \in S
        BY <2>4 DEF HasLast
      <3>2. Append(names, n)[c] = names[c]
        BY <1>1, <1>2, <3>1
      <3>3. LW(b, k, l, Append(names, n)) = Docs[Append(names, n)[c]][k][l]
        BY <2>1, <2>4 DEF LW
      <3>4. LW(b, k, l, names) = Docs[names[c]][k][l]
        BY <2>4 DEF LW
      <3>. QED
        BY <1>4, <2>2, <3>2, <3>3, <3>4
    <2>. QED
      BY <2>2, <2>3, <2>4
  <1>. QED
    BY <1>3, <1>4

(* yaml.Unmarshal of one more document keeps every field of kind k at    *)
(* its last writer.                                                      *)
LEMMA OverlaidMerge ==
  ASSUME NEW b, NEW k, NEW T, NEW names \in Seq(T), NEW n \in T, NEW cur,
         OverlaidB(b, k, cur, names)
  PROVE  OverlaidB(b, k, Overlay(Docs[n][k], cur), Append(names, n))
  <1> SUFFICES ASSUME NEW l \in DOMAIN cur
               PROVE  /\ HasLast(k, l, Append(names, n))
                      /\ Overlay(Docs[n][k], cur)[l] = LW(b, k, l, Append(names, n))
    BY DEF OverlaidB, Overlay
  <1>1. HasLast(k, l, names) /\ cur[l] = LW(b, k, l, names)
    BY DEF OverlaidB
  <1>. QED
    BY <1>1, LastAppend DEF Overlay

(* Before any overlay, every field holds its value after the defaults.   *)
LEMMA OverlaidEmpty ==
  ASSUME NEW b, NEW k, NEW cur, \A l \in DOMAIN cur : cur[l] = b[k][l]
  PROVE  OverlaidB(b, k, cur, << >>)
  <1>1. \A l : Setters(k, l, << >>) = {}
    BY DEF Setters
  <1>. QED
    BY <1>1 DEF OverlaidB, HasLast, LW

(* The first i names of a sequence are the first i - 1 and the i-th.     *)
LEMMA SubSeqStep ==
  ASSUME NEW T, NEW c \in Seq(T), NEW i \in 1..Len(c)
  PROVE  /\ SubSeq(c, 1, i - 1) \in Seq(T)
         /\ c[i] \in T
         /\ SubSeq(c, 1, i) = Append(SubSeq(c, 1, i - 1), c[i])
  <1>1. /\ SubSeq(c, 1, i - 1) \in Seq(T)
        /\ Len(SubSeq(c, 1, i - 1)) = i - 1
        /\ \A j \in 1..i - 1 : SubSeq(c, 1, i - 1)[j] = c[j]
    BY SubSeqProperties
  <1>2. /\ SubSeq(c, 1, i) \in Seq(T)
        /\ Len(SubSeq(c, 1, i)) = i
        /\ \A j \in 1..i : SubSeq(c, 1, i)[j] = c[j]
    BY SubSeqProperties
  <1>3. /\ Append(SubSeq(c, 1, i - 1), c[i]) \in Seq(T)
        /\ Len(Append(SubSeq(c, 1, i - 1), c[i])) = i
        /\ \A j \in 1..i - 1 : Append(SubSeq(c, 1, i - 1), c[i])[j] = c[j]
        /\ Append(SubSeq(c, 1, i - 1), c[i])[i] = c[i]
    BY <1>1, AppendProperties
  <1>4. \A j \in 1..i : SubSeq(c, 1, i)[j] = Append(SubSeq(c, 1, i - 1), c[i])[j]
    BY <1>2, <1>3
  <1>. QED
    BY <1>1, <1>2, <1>3, <1>4, SeqEqual

(* One more merged document keeps all four kinds at their last writer.   *)
LEMMA MergeOverlaid ==
  ASSUME NEW T, NEW names \in Seq(T), NEW n \in T,
         OverlaidB(base, "strs", strs, names), OverlaidB(base, "bools", bools, names),
         OverlaidB(base, "ints", ints, names), OverlaidB(base, "slices", slices, names),
         Merge(Docs[n]), base' = base
  PROVE  /\ OverlaidB(base', "strs", strs', Append(names, n))
         /\ OverlaidB(base', "bools", bools', Append(names, n))
         /\ OverlaidB(base', "ints", ints', Append(names, n))
         /\ OverlaidB(base', "slices", slices', Append(names, n))
  <1>1. /\ strs' = Overlay(Docs[n]["strs"], strs)
        /\ bools' = Overlay(Docs[n]["bools"], bools)
        /\ ints' = Overlay(Docs[n]["ints"], ints)
        /\ slices' = Overlay(Docs[n]["slices"], slices)
    BY DEF Merge
  <1>. QED
    BY <1>1, OverlaidMerge
-----------------------------------------------------------------------------
(* A step of a walk moves pos past 1: the overlay window is left.        *)
LEMMA WalkLeavesWindow ==
  ASSUME TypeOK, Walking, pos' = pos + 1, pc' = pc
  PROVE  ~Overlaying'
  BY DEF TypeOK, Walking, Overlaying

LEMMA SkipReturnedIInv == IInv /\ SkipReturned => IInv'
  <1> SUFFICES ASSUME IInv, SkipReturned PROVE IInv'
    OBVIOUS
  <1>1. TypeOK'
    BY SkipReturnedTyped DEF IInv
  <1>2. ~Overlaying'
    BY WalkLeavesWindow DEF IInv, SkipReturned
  <1>. QED
    BY <1>1, <1>2 DEF IInv, LWInv, SkipReturned, DefaultsStart, CustomGiven, Walking

LEMMA LoadDefaultIInv == IInv /\ LoadDefault => IInv'
  <1> SUFFICES ASSUME IInv, LoadDefault PROVE IInv'
    OBVIOUS
  <1>1. TypeOK'
    BY LoadDefaultTyped DEF IInv
  <1>2. ~Overlaying'
    BY DEF LoadDefault, Overlaying
  <1>. QED
    BY <1>1, <1>2 DEF IInv, LWInv, LoadDefault, DefaultsStart, CustomGiven

LEMMA LoadEnvIInv == IInv /\ LoadEnv => IInv'
  <1> SUFFICES ASSUME IInv, LoadEnv PROVE IInv'
    OBVIOUS
  <1>1. TypeOK'
    BY LoadEnvTyped DEF IInv
  <1>2. ~Overlaying'
    BY WalkLeavesWindow DEF IInv, LoadEnv
  <1>. QED
    BY <1>1, <1>2 DEF IInv, LWInv, LoadEnv, DefaultsStart, CustomGiven

LEMMA FinishEnvIInv == IInv /\ FinishEnv => IInv'
  <1> SUFFICES ASSUME IInv, FinishEnv PROVE IInv'
    OBVIOUS
  <1>1. TypeOK'
    BY FinishEnvTyped DEF IInv
  <1>. QED
    BY <1>1 DEF IInv, LWInv, Overlaying, FinishEnv, DefaultsStart, CustomGiven

(* The end of the default pass: no overlay yet, and base is the object.  *)
LEMMA FinishDefaultsIInv == IInv /\ FinishDefaults => IInv'
  <1> SUFFICES ASSUME IInv, FinishDefaults PROVE IInv'
    OBVIOUS
  <1>1. TypeOK'
    BY FinishDefaultsTyped DEF IInv
  <1>2. ci = 1 /\ ci' = 1 /\ pc' = "bundled" /\ base' = Snapshot
        /\ UNCHANGED <<strs, bools, ints, slices>>
    BY DEF IInv, DefaultsStart, FinishDefaults
  <1>3. Applied' = << >>
    <2>1. Applied' = SubSeq(configs', 1, ci' - 1)
      BY <1>2, Zenon DEF Applied
    <2>2. SubSeq(configs', 1, 0) = << >>
      BY SubSeqEmpty
    <2>. QED
      BY <1>2, <2>1, <2>2
  <1>4. /\ \A l \in DOMAIN strs' : strs'[l] = base'["strs"][l]
        /\ \A l \in DOMAIN bools' : bools'[l] = base'["bools"][l]
        /\ \A l \in DOMAIN ints' : ints'[l] = base'["ints"][l]
        /\ \A l \in DOMAIN slices' : slices'[l] = base'["slices"][l]
    BY <1>2 DEF Snapshot
  <1>5. LWInv'
    BY <1>3, <1>4, OverlaidEmpty DEF LWInv
  <1>. QED
    BY <1>1, <1>2, <1>5 DEF IInv, DefaultsStart, CustomGiven

(* The object before the merge is overlaid as Applied says; with this    *)
(* loop iteration's document appended, it still is.                      *)
LEMMA LoadBundledIInv == IInv /\ LoadBundled => IInv'
  <1> SUFFICES ASSUME IInv, LoadBundled PROVE IInv'
    OBVIOUS
  <1>0. /\ TypeOK /\ pc = "bundled" /\ ci \in 1..Len(configs)
        /\ configs \in Seq(STRING)
        /\ UNCHANGED <<configs, custom, base>>
    BY SchemaFacts DEF IInv, TypeOK, LoadBundled
  <1>1. TypeOK'
    BY LoadBundledTyped DEF IInv
  <1>2. pc' \in {"failed", "bundled"}
    BY DEF LoadBundled, Unmarshal
  <1>3. DefaultsStart' /\ CustomGiven'
    BY <1>2 DEF DefaultsStart, CustomGiven
  <1>4. CASE pc' = "failed"
    BY <1>1, <1>3, <1>4 DEF IInv, LWInv, Overlaying
  <1>5. CASE pc' = "bundled"
    <2> DEFINE d == Docs[configs[ci]]
    <2> USE DEF d
    <2>1. ~d.syntax /\ Merge(d) /\ ci' = ci + 1
      BY <1>5 DEF LoadBundled, Unmarshal
    <2>2. Applied = SubSeq(configs, 1, ci - 1) /\ Applied' = SubSeq(configs, 1, ci)
      <3>1. Applied = SubSeq(configs, 1, ci - 1)
        BY <1>0, Zenon DEF Applied
      <3>2. Applied' = SubSeq(configs', 1, ci' - 1)
        BY <1>5, Zenon DEF Applied
      <3>3. ci' - 1 = ci
        BY <1>0, <2>1
      <3>. QED
        BY <1>0, <3>1, <3>2, <3>3
    <2>3. /\ SubSeq(configs, 1, ci - 1) \in Seq(STRING)
          /\ configs[ci] \in STRING
          /\ SubSeq(configs, 1, ci) = Append(SubSeq(configs, 1, ci - 1), configs[ci])
      BY <1>0, SubSeqStep, Zenon
    <2>4. /\ OverlaidB(base, "strs", strs, Applied)
          /\ OverlaidB(base, "bools", bools, Applied)
          /\ OverlaidB(base, "ints", ints, Applied)
          /\ OverlaidB(base, "slices", slices, Applied)
      BY <1>0 DEF IInv, LWInv, Overlaying
    <2>5. /\ OverlaidB(base', "strs", strs', Applied')
          /\ OverlaidB(base', "bools", bools', Applied')
          /\ OverlaidB(base', "ints", ints', Applied')
          /\ OverlaidB(base', "slices", slices', Applied')
      <3>1. /\ OverlaidB(base', "strs", strs', Append(SubSeq(configs, 1, ci - 1), configs[ci]))
            /\ OverlaidB(base', "bools", bools', Append(SubSeq(configs, 1, ci - 1), configs[ci]))
            /\ OverlaidB(base', "ints", ints', Append(SubSeq(configs, 1, ci - 1), configs[ci]))
            /\ OverlaidB(base', "slices", slices', Append(SubSeq(configs, 1, ci - 1), configs[ci]))
        <4>1. /\ OverlaidB(base, "strs", strs, SubSeq(configs, 1, ci - 1))
              /\ OverlaidB(base, "bools", bools, SubSeq(configs, 1, ci - 1))
              /\ OverlaidB(base, "ints", ints, SubSeq(configs, 1, ci - 1))
              /\ OverlaidB(base, "slices", slices, SubSeq(configs, 1, ci - 1))
          BY <2>2, <2>4
        <4>. QED
          BY <1>0, <2>1, <2>3, <4>1, MergeOverlaid, Zenon
      <3>. QED
        BY <2>2, <2>3, <3>1
    <2>. QED
      BY <1>1, <1>3, <2>5 DEF IInv, LWInv
  <1>. QED
    BY <1>2, <1>4, <1>5

(* The object is overlaid as a whole sequence of names says; the same    *)
(* object, base and names in the next state keep it so.                  *)
LEMMA OverlaidKept ==
  ASSUME NEW names, UNCHANGED <<strs, bools, ints, slices, base>>,
         OverlaidB(base, "strs", strs, names), OverlaidB(base, "bools", bools, names),
         OverlaidB(base, "ints", ints, names), OverlaidB(base, "slices", slices, names)
  PROVE  /\ OverlaidB(base', "strs", strs', names)
         /\ OverlaidB(base', "bools", bools', names)
         /\ OverlaidB(base', "ints", ints', names)
         /\ OverlaidB(base', "slices", slices', names)
  OBVIOUS

(* The end of the configs loop merges nothing: Applied is all of configs *)
(* before and after.                                                     *)
LEMMA FinishBundledIInv == IInv /\ FinishBundled => IInv'
  <1> SUFFICES ASSUME IInv, FinishBundled PROVE IInv'
    OBVIOUS
  <1>0. /\ TypeOK /\ pc = "bundled" /\ ci = Len(configs) + 1
        /\ configs \in Seq(STRING)
        /\ UNCHANGED <<strs, bools, ints, slices, configs, custom, base>>
    BY SchemaFacts DEF IInv, TypeOK, FinishBundled
  <1>1. TypeOK'
    BY FinishBundledTyped DEF IInv
  <1>2. Applied = configs
    <2>1. Applied = SubSeq(configs, 1, Len(configs))
      <3>1. Applied = SubSeq(configs, 1, ci - 1)
        BY <1>0, Zenon DEF Applied
      <3>2. ci - 1 = Len(configs)
        BY <1>0
      <3>. QED
        BY <3>1, <3>2
    <2>2. SubSeq(configs, 1, Len(configs)) = configs
      BY <1>0, SubSeqFull, Zenon
    <2>. QED
      BY <2>1, <2>2
  <1>3. /\ OverlaidB(base, "strs", strs, configs)
        /\ OverlaidB(base, "bools", bools, configs)
        /\ OverlaidB(base, "ints", ints, configs)
        /\ OverlaidB(base, "slices", slices, configs)
    BY <1>0, <1>2 DEF IInv, LWInv, Overlaying
  <1>4. CASE custom = ""
    <2>1. pc' = "env" /\ pos' = 1
      BY <1>4 DEF FinishBundled, StartEnv
    <2>2. Applied' = configs
      <3>1. Applied' = configs \o << >>
        BY <1>0, <1>4, <2>1, Zenon DEF Applied
      <3>2. configs \o << >> = configs
        BY <1>0, ConcatEmptySeq, Zenon
      <3>. QED
        BY <1>0, <3>1, <3>2
    <2>3. LWInv'
      BY <1>0, <1>3, <2>2, OverlaidKept DEF LWInv
    <2>. QED
      BY <1>1, <2>1, <2>3 DEF IInv, DefaultsStart, CustomGiven
  <1>5. CASE custom # ""
    <2>1. pc' = "custom"
      BY <1>5 DEF FinishBundled
    <2>2. Applied' = configs
      BY <1>0, <2>1, Zenon DEF Applied
    <2>3. LWInv'
      BY <1>0, <1>3, <2>2, OverlaidKept DEF LWInv
    <2>. QED
      BY <1>0, <1>1, <1>5, <2>1, <2>3 DEF IInv, DefaultsStart, CustomGiven
  <1>. QED
    BY <1>4, <1>5

(* loadYAMLFromFile merges the custom file after every bundled overlay.  *)
LEMMA LoadCustomIInv == IInv /\ LoadCustom => IInv'
  <1> SUFFICES ASSUME IInv, LoadCustom PROVE IInv'
    OBVIOUS
  <1>0. /\ TypeOK /\ pc = "custom" /\ custom # ""
        /\ configs \in Seq(STRING) /\ custom \in STRING
        /\ UNCHANGED <<configs, custom, base>>
    BY SchemaFacts, ConstantsOK DEF IInv, TypeOK, CustomGiven, LoadCustom
  <1>1. TypeOK'
    BY LoadCustomTyped DEF IInv
  <1>2. pc' \in {"fatal", "failed", "env"}
    BY DEF LoadCustom, Unmarshal, StartEnv
  <1>3. DefaultsStart' /\ CustomGiven'
    BY <1>2 DEF DefaultsStart, CustomGiven
  <1>4. CASE pc' \in {"fatal", "failed"}
    BY <1>1, <1>3, <1>4 DEF IInv, LWInv, Overlaying
  <1>5. CASE pc' = "env"
    <2>1. Merge(Docs[custom]) /\ pos' = 1
      BY <1>5 DEF LoadCustom, Unmarshal, StartEnv
    <2>2. Applied = configs /\ Applied' = Append(configs, custom)
      <3>1. Applied = configs
        BY <1>0, Zenon DEF Applied
      <3>2. Applied' = configs \o <<custom>>
        BY <1>0, <1>5, Zenon DEF Applied
      <3>3. Append(configs, custom) = configs \o <<custom>>
        BY <1>0, AppendIsConcat, Zenon
      <3>. QED
        BY <3>1, <3>2, <3>3
    <2>3. /\ OverlaidB(base, "strs", strs, configs)
          /\ OverlaidB(base, "bools", bools, configs)
          /\ OverlaidB(base, "ints", ints, configs)
          /\ OverlaidB(base, "slices", slices, configs)
      BY <1>0, <2>2 DEF IInv, LWInv, Overlaying
    <2>4. /\ OverlaidB(base', "strs", strs', Append(configs, custom))
          /\ OverlaidB(base', "bools", bools', Append(configs, custom))
          /\ OverlaidB(base', "ints", ints', Append(configs, custom))
          /\ OverlaidB(base', "slices", slices', Append(configs, custom))
      BY <1>0, <2>1, <2>3, MergeOverlaid, Zenon
    <2>. QED
      BY <1>1, <1>3, <2>2, <2>4 DEF IInv, LWInv
  <1>. QED
    BY <1>2, <1>4, <1>5

LEMMA InitIInv == Init => IInv
  <1> SUFFICES ASSUME Init PROVE IInv
    OBVIOUS
  <1>1. TypeOK
    BY InitTypeOK
  <1>. QED
    BY <1>1 DEF Init, IInv, LWInv, Overlaying, DefaultsStart, CustomGiven

(* Every step of IntoObject keeps IInv.                                  *)
LEMMA NextIInv == IInv /\ [Next]_vars => IInv'
  <1> SUFFICES ASSUME IInv, [Next]_vars PROVE IInv'
    OBVIOUS
  <1>1. CASE SkipReturned    BY <1>1, SkipReturnedIInv
  <1>2. CASE LoadDefault     BY <1>2, LoadDefaultIInv
  <1>3. CASE FinishDefaults  BY <1>3, FinishDefaultsIInv
  <1>4. CASE LoadBundled     BY <1>4, LoadBundledIInv
  <1>5. CASE FinishBundled   BY <1>5, FinishBundledIInv
  <1>6. CASE LoadCustom      BY <1>6, LoadCustomIInv
  <1>7. CASE LoadEnv         BY <1>7, LoadEnvIInv
  <1>8. CASE FinishEnv       BY <1>8, FinishEnvIInv
  <1>9. CASE UNCHANGED vars
    <2>1. TypeOK'
      BY <1>9, NextTypeOK DEF IInv
    <2>2. Applied' = Applied /\ Overlaying' = Overlaying
      BY <1>9, Zenon DEF vars, Applied, Overlaying
    <2>3. Overlaying' =>
            /\ OverlaidB(base', "strs", strs', Applied')
            /\ OverlaidB(base', "bools", bools', Applied')
            /\ OverlaidB(base', "ints", ints', Applied')
            /\ OverlaidB(base', "slices", slices', Applied')
      BY <1>9, <2>2, OverlaidKept DEF vars, IInv, LWInv
    <2>. QED
      BY <1>9, <2>1, <2>3 DEF vars, IInv, LWInv, DefaultsStart, CustomGiven
  <1>. QED
    BY <1>1, <1>2, <1>3, <1>4, <1>5, <1>6, <1>7, <1>8, <1>9 DEF Next

(* IInv gives the property: LW with the default-pass object is LastWritten. *)
LEMMA IInvOverlay == IInv => OverlayLastWriterWins
  <1> SUFFICES ASSUME IInv, Overlaying
               PROVE  /\ OverlaidAs("strs", strs) /\ OverlaidAs("bools", bools)
                      /\ OverlaidAs("ints", ints) /\ OverlaidAs("slices", slices)
    BY DEF OverlayLastWriterWins, Overlaying
  <1>1. /\ OverlaidB(base, "strs", strs, Applied)
        /\ OverlaidB(base, "bools", bools, Applied)
        /\ OverlaidB(base, "ints", ints, Applied)
        /\ OverlaidB(base, "slices", slices, Applied)
    BY DEF IInv, LWInv
  <1>. QED
    BY <1>1, LastWrittenIsLW DEF OverlaidB, OverlaidAs

(* Overlay precedence holds for every schema and set of documents:       *)
(* between the default and the environment pass, every field holds the   *)
(* value of the last merged overlay (loadYAMLFromConfigs in configs      *)
(* order, then loadYAMLFromFile) that sets it, and its default when none *)
(* does.                                                                 *)
THEOREM OverlayLastWriterWinsHolds == Spec => []OverlayLastWriterWins
  <1>1. Init => IInv
    BY InitIInv
  <1>2. IInv /\ [Next]_vars => IInv'
    BY NextIInv
  <1>3. IInv => OverlayLastWriterWins
    BY IInvOverlay
  <1>. QED
    BY <1>1, <1>2, <1>3, PTL DEF Spec
-----------------------------------------------------------------------------
(* Environment precedence.  The env pass visits the leaves in the order  *)
(* of Fields, and processValueFromString writes only the leaf it is       *)
(* given, so every leaf the pass has gone past and applied its variable   *)
(* to still holds what that variable says.                               *)
EnvSet(l) ==
    /\ l \in StrLeaves => StoresString(env[EnvTag[l]], strs[l])
    /\ l \in BoolLeaves => bools[l] = (env[EnvTag[l]] \in TrueLits)
    /\ l \in IntLeaves => ints[l] = IntOf(env[EnvTag[l]])
EnvInv ==
    /\ pc \in {"env", "done"} =>
           \A i \in 1..(pos - 1) : EnvApplied(Fields[i]) => EnvSet(Fields[i])
    /\ pc = "done" => pos = Len(Fields) + 1
EInv == TypeOK /\ EnvInv

(* processValueFromString either reports the field unapplied or stores   *)
(* what the raw string says; it never shrinks unapplied or tmpDirs.      *)
LEMMA ProcessValueStores ==
  ASSUME TypeOK, NEW l \in Leaves, NEW raw \in RawStrings, ProcessValue(l, raw)
  PROVE  /\ unapplied \subseteq unapplied'
         /\ tmpDirs' \in Nat /\ tmpDirs <= tmpDirs'
         /\ l \notin unapplied' =>
               /\ l \in StrLeaves => StoresString(raw, strs[l])'
               /\ l \in BoolLeaves => bools'[l] = (raw \in TrueLits)
               /\ l \in IntLeaves => ints'[l] = IntOf(raw)
  <1>0. /\ DOMAIN strs = StrLeaves /\ DOMAIN bools = BoolLeaves /\ DOMAIN ints = IntLeaves
        /\ tmpDirs \in Nat
        /\ StrLeaves \cap (BoolLeaves \cup IntLeaves \cup SliceLeaves) = {}
        /\ BoolLeaves \cap (IntLeaves \cup SliceLeaves) = {}
        /\ IntLeaves \cap SliceLeaves = {}
    BY ConstantsOK DEF TypeOK
  <1>1. CASE l \in StrLeaves /\ ProcessString(l, raw)
    <2>1. CASE raw = TmpDirSentinel /\ strs' = [strs EXCEPT ![l] = TmpDir(tmpDirs + 1)]
               /\ tmpDirs' = tmpDirs + 1 /\ Succeed
      <3>1. strs'[l] = TmpDir(tmpDirs + 1)
        BY <1>0, <1>1, <2>1
      <3>2. StoresString(raw, strs[l])'
        <4>0. tmpDirs' = tmpDirs + 1
          BY <2>1
        <4>a. TmpDir(tmpDirs + 1).src = "tmpdir" /\ TmpDir(tmpDirs + 1).n = tmpDirs + 1
          BY Zenon DEF TmpDir
        <4>1. strs'[l].src = "tmpdir" /\ strs'[l].n = tmpDirs + 1
          BY <3>1, <4>a, Zenon
        <4>2. tmpDirs + 1 \in 1..tmpDirs'
          BY <1>0, <4>0
        <4>. QED
          BY <2>1, <4>1, <4>2, Zenon DEF StoresString
      <3>. QED
        BY <1>0, <1>1, <2>1, <3>2 DEF Succeed
    <2>2. CASE raw \in RndInRange /\ strs' = [strs EXCEPT ![l] = RndStr(RndLength(raw))]
               /\ Succeed /\ UNCHANGED tmpDirs
      <3>1. strs'[l] = RndStr(RndLength(raw)) /\ raw # TmpDirSentinel /\ raw \in RndDirectives
        BY <1>0, <1>1, <2>2 DEF RndInRange, RndDirectives, TmpDirSentinel
      <3>2. StoresString(raw, strs[l])'
        BY <3>1, Zenon DEF StoresString
      <3>. QED
        BY <1>0, <1>1, <2>2, <3>2 DEF Succeed
    <2>3. CASE raw \notin RndDirectives \cup {TmpDirSentinel}
               /\ strs' = [strs EXCEPT ![l] = Lit(raw)] /\ Succeed /\ UNCHANGED tmpDirs
      <3>1. strs'[l] = Lit(raw)
        BY <1>0, <1>1, <2>3
      <3>2. StoresString(raw, strs[l])'
        BY <2>3, <3>1, Zenon DEF StoresString
      <3>. QED
        BY <1>0, <1>1, <2>3, <3>2 DEF Succeed
    <2>4. CASE Fail(l)
      BY <1>0, <2>4 DEF Fail
    <2>. QED
      BY <1>1, <2>1, <2>2, <2>3, <2>4 DEF ProcessString
  <1>2. CASE l \in BoolLeaves /\ ProcessBool(l, raw)
    <2>1. l \notin StrLeaves /\ l \notin IntLeaves /\ l \in DOMAIN bools
      BY <1>0, <1>2
    <2>2. CASE raw \in TrueLits \cup FalseLits
      <3>1. bools' = [bools EXCEPT ![l] = raw \in TrueLits] /\ Succeed
            /\ UNCHANGED tmpDirs
        BY <1>2, <2>2, Zenon DEF ProcessBool
      <3>2. bools'[l] = (raw \in TrueLits)
        BY <2>1, <3>1
      <3>. QED
        BY <1>0, <2>1, <3>1, <3>2 DEF Succeed
    <2>3. CASE raw \notin TrueLits \cup FalseLits
      <3>1. Fail(l)
        BY <1>2, <2>3, Zenon DEF ProcessBool
      <3>. QED
        BY <1>0, <3>1 DEF Fail
    <2>. QED
      BY <2>2, <2>3
  <1>3. CASE l \in SliceLeaves /\ ProcessSlice(l, raw)
    <2>1. Succeed /\ UNCHANGED tmpDirs
      BY <1>3, Zenon DEF ProcessSlice
    <2>. QED
      BY <1>0, <1>3, <2>1 DEF Succeed
  <1>4. CASE l \in IntLeaves /\ ProcessInt(l, raw)
    <2>1. l \notin StrLeaves /\ l \notin BoolLeaves /\ l \in DOMAIN ints
      BY <1>0, <1>4
    <2>2. CASE raw \in IntTexts
      <3>1. ints' = [ints EXCEPT ![l] = IntOf(raw)] /\ Succeed
            /\ UNCHANGED tmpDirs
        BY <1>4, <2>2, Zenon DEF ProcessInt
      <3>2. ints'[l] = IntOf(raw)
        BY <2>1, <3>1
      <3>. QED
        BY <1>0, <2>1, <3>1, <3>2 DEF Succeed
    <2>3. CASE raw \notin IntTexts
      <3>1. Fail(l)
        BY <1>4, <2>3, Zenon DEF ProcessInt
      <3>. QED
        BY <1>0, <3>1 DEF Fail
    <2>. QED
      BY <2>2, <2>3
  <1>. QED
    BY <1>1, <1>2, <1>3, <1>4 DEF ProcessValue

(* A leaf no step writes keeps its env value: env does not change, and   *)
(* unapplied and the count of temporary directories only grow.           *)
LEMMA EnvKept ==
  ASSUME TypeOK, NEW k \in Leaves, env' = env, unapplied \subseteq unapplied',
         tmpDirs' \in Nat, tmpDirs <= tmpDirs',
         k \in StrLeaves => strs'[k] = strs[k],
         k \in BoolLeaves => bools'[k] = bools[k],
         k \in IntLeaves => ints'[k] = ints[k],
         EnvApplied(k) => EnvSet(k)
  PROVE  EnvApplied(k)' => EnvSet(k)'
  <1>1. EnvApplied(k)' => EnvApplied(k)
    BY Zenon DEF EnvApplied
  <1>2. 1..tmpDirs \subseteq 1..tmpDirs'
    BY DEF TypeOK
  <1>3. EnvSet(k) => EnvSet(k)'
    BY <1>2, Zenon DEF EnvSet, StoresString
  <1>. QED
    BY <1>1, <1>3

(* Outside the env pass, and at its first leaf, EnvInv says nothing.     *)
LEMMA EnvInvVacuous ==
  ASSUME \/ pc' \in {"defaults", "bundled", "custom", "failed", "fatal"}
         \/ pc' = "env" /\ pos' = 1
  PROVE  EnvInv'
  <1>1. CASE pc' \in {"defaults", "bundled", "custom", "failed", "fatal"}
    BY <1>1, Zenon DEF EnvInv
  <1>2. CASE pc' = "env" /\ pos' = 1
    <2>1. 1..(pos' - 1) = {}
      BY <1>2
    <2>. QED
      BY <1>2, <2>1, Zenon DEF EnvInv
  <1>. QED
    BY <1>1, <1>2

(* Fields lists every leaf exactly once.                                  *)
LEMMA FieldsFacts ==
  /\ Fields \in Seq(Leaves)
  /\ \A i, j \in 1..Len(Fields) : Fields[i] = Fields[j] => i = j
  /\ \A l \in Leaves : \E i \in 1..Len(Fields) : Fields[i] = l
  BY ConstantsOK, Zenon

(* The leaves before the walk's position are not the one it is at.       *)
LEMMA EarlierLeaves ==
  ASSUME TypeOK, Walking
  PROVE  \A i \in 1..(pos - 1) : Fields[i] \in Leaves /\ Fields[i] # Cur
  <1>1. pos \in 1..Len(Fields)
    BY Zenon DEF Walking
  <1>2. /\ Fields \in Seq(Leaves)
        /\ \A i, j \in 1..Len(Fields) : Fields[i] = Fields[j] => i = j
    BY FieldsFacts
  <1>. QED
    BY <1>1, <1>2 DEF Cur

(* One iteration of load(v, "env"): the leaves already passed keep their *)
(* value, and Cur holds its variable's value unless it is unapplied.     *)
LEMMA LoadEnvEInv == EInv /\ LoadEnv => EInv'
  <1> SUFFICES ASSUME EInv, LoadEnv PROVE EInv'
    OBVIOUS
  <1>0. /\ TypeOK /\ Walking /\ pc = "env" /\ pc' = "env"
        /\ pos' = pos + 1 /\ env' = env /\ pos \in 1..Len(Fields)
    BY DEF EInv, LoadEnv, Walking
  <1>t. TypeOK
    BY DEF EInv
  <1>1. TypeOK'
    BY LoadEnvTyped DEF EInv
  <1>2. \A i \in 1..(pos - 1) : Fields[i] \in Leaves /\ Fields[i] # Cur
    BY <1>0, EarlierLeaves
  <1>3. \A i \in 1..(pos - 1) : EnvApplied(Fields[i]) => EnvSet(Fields[i])
    BY <1>0, Zenon DEF EInv, EnvInv
  <1>4. 1..(pos' - 1) = 1..(pos - 1) \cup {pos}
    BY <1>0
  <1>6. tmpDirs \in Nat
    BY Zenon DEF EInv, TypeOK
  <1>5. \A i \in 1..(pos - 1) \cup {pos} : EnvApplied(Fields[i])' => EnvSet(Fields[i])'
    <2> SUFFICES ASSUME NEW i \in 1..(pos - 1) \cup {pos}, EnvApplied(Fields[i])'
                 PROVE  EnvSet(Fields[i])'
      OBVIOUS
    <2>1. CASE /\ EnvTag[Cur] # NoTag /\ env[EnvTag[Cur]] = ""
               /\ UNCHANGED <<strs, bools, ints, tmpDirs, unapplied>>
      <3>1. CASE i \in 1..(pos - 1)
        <4>1. Fields[i] \in Leaves
          BY <1>2, <3>1
        <4>2. tmpDirs' \in Nat /\ tmpDirs <= tmpDirs'
          <5>1. tmpDirs' = tmpDirs
            BY <2>1, Zenon
          <5>. QED
            BY <1>6, <5>1
        <4>3. EnvApplied(Fields[i]) => EnvSet(Fields[i])
          BY <1>3, <3>1
        <4>. QED
          BY <1>0, <2>1, <4>1, <4>2, <4>3, EnvKept, Zenon
      <3>2. CASE i = pos
        BY <1>0, <2>1, <3>2, Zenon DEF EnvApplied, Cur
      <3>. QED
        BY <3>1, <3>2
    <2>2. CASE \E raw \in RawStrings :
                 /\ ProcessValue(Cur, raw)
                 /\ EnvTag[Cur] = NoTag \/ raw = env[EnvTag[Cur]]
      <3>p. PICK raw \in RawStrings :
                 /\ ProcessValue(Cur, raw)
                 /\ EnvTag[Cur] = NoTag \/ raw = env[EnvTag[Cur]]
        BY <2>2
      <3>c. PICK l \in Leaves : l = Cur
        BY <1>0, CurFacts
      <3>0. /\ ProcessValue(l, raw)
            /\ EnvTag[l] = NoTag \/ raw = env[EnvTag[l]]
        BY <3>p, <3>c, Zenon
      <3>1. /\ unapplied \subseteq unapplied'
            /\ tmpDirs' \in Nat /\ tmpDirs <= tmpDirs'
            /\ l \notin unapplied' =>
                 /\ l \in StrLeaves => StoresString(raw, strs[l])'
                 /\ l \in BoolLeaves => bools'[l] = (raw \in TrueLits)
                 /\ l \in IntLeaves => ints'[l] = IntOf(raw)
        BY <1>t, <3>0, ProcessValueStores, Zenon
      <3>2. CASE i \in 1..(pos - 1)
        <4>1. /\ Fields[i] \in Leaves /\ Fields[i] # l
          BY <1>2, <3>2, <3>c
        <4>2. /\ Fields[i] \in StrLeaves => strs'[Fields[i]] = strs[Fields[i]]
              /\ Fields[i] \in BoolLeaves => bools'[Fields[i]] = bools[Fields[i]]
              /\ Fields[i] \in IntLeaves => ints'[Fields[i]] = ints[Fields[i]]
          BY <1>t, <3>0, <4>1, ProcessValueOnly, Zenon
        <4>3. EnvApplied(Fields[i]) => EnvSet(Fields[i])
          BY <1>3, <3>2
        <4>. QED
          BY <1>0, <3>1, <4>1, <4>2, <4>3, EnvKept, Zenon
      <3>3. CASE i = pos
        <4>0. Fields[i] = l
          BY <3>3, <3>c DEF Cur
        <4>1. EnvTag[l] # NoTag /\ env[EnvTag[l]] # "" /\ l \notin unapplied'
          BY <1>0, <4>0, Zenon DEF EnvApplied
        <4>2. raw = env'[EnvTag[l]]
          BY <1>0, <3>0, <4>1, Zenon
        <4>. QED
          BY <3>1, <4>0, <4>1, <4>2, Zenon DEF EnvSet
      <3>. QED
        BY <3>2, <3>3
    <2>. QED
      BY <1>0, <2>1, <2>2, CurFacts DEF LoadEnv
  <1>. QED
    BY <1>0, <1>1, <1>4, <1>5, Zenon DEF EInv, EnvInv

(* A step that writes no field and does not move the walk keeps EnvInv.  *)
LEMMA EnvFrozen ==
  ASSUME EInv, TypeOK',
         UNCHANGED <<strs, bools, ints, pos, env, tmpDirs, unapplied>>,
         pc \in {"env", "done"}, pc' \in {"env", "done"},
         pc' = "done" => pos = Len(Fields) + 1
  PROVE  EnvInv'
  <1>1. \A i \in 1..(pos - 1) : EnvApplied(Fields[i]) => EnvSet(Fields[i])
    BY Zenon DEF EInv, EnvInv
  <1>2. pos \in 1..(Len(Fields) + 1) /\ tmpDirs \in Nat /\ TypeOK
    BY Zenon DEF EInv, TypeOK
  <1>3. \A i \in 1..(pos - 1) : Fields[i] \in Leaves
    BY <1>2, FieldsFacts
  <1>4. \A i \in 1..(pos - 1) : EnvApplied(Fields[i])' => EnvSet(Fields[i])'
    <2> SUFFICES ASSUME NEW i \in 1..(pos - 1) PROVE EnvApplied(Fields[i])' => EnvSet(Fields[i])'
      OBVIOUS
    <2>1. tmpDirs' \in Nat /\ tmpDirs <= tmpDirs'
      BY <1>2
    <2>. QED
      BY <1>1, <1>2, <1>3, <2>1, EnvKept, Zenon
  <1>. QED
    BY <1>4, Zenon DEF EnvInv

LEMMA SkipReturnedEInv == EInv /\ SkipReturned => EInv'
  <1> SUFFICES ASSUME EInv, SkipReturned PROVE EInv'
    OBVIOUS
  <1>t. TypeOK /\ tmpDirs \in Nat
    BY Zenon DEF EInv, TypeOK
  <1>1. TypeOK'
    BY SkipReturnedTyped DEF EInv
  <1>2. CASE pc = "defaults"
    BY <1>1, <1>2, EnvInvVacuous, Zenon DEF SkipReturned, EInv
  <1>3. CASE pc = "env"
    <2>0. pc' = "env" /\ pos' = pos + 1 /\ pos \in 1..Len(Fields)
      BY <1>3, Zenon DEF SkipReturned, Walking
    <2>1. 1..(pos' - 1) = 1..(pos - 1) \cup {pos}
      BY <2>0
    <2>2. \A i \in 1..(pos - 1) : Fields[i] \in Leaves
      BY <1>t, EarlierLeaves DEF SkipReturned
    <2>3. \A i \in 1..(pos - 1) \cup {pos} : EnvApplied(Fields[i])' => EnvSet(Fields[i])'
      <3> SUFFICES ASSUME NEW i \in 1..(pos - 1) \cup {pos}
                   PROVE  EnvApplied(Fields[i])' => EnvSet(Fields[i])'
        OBVIOUS
      <3>1. CASE i \in 1..(pos - 1)
        <4>1. EnvApplied(Fields[i]) => EnvSet(Fields[i])
          BY <1>3, <3>1, Zenon DEF EInv, EnvInv
        <4>2. unapplied \subseteq unapplied' /\ tmpDirs' = tmpDirs
          BY Zenon DEF SkipReturned
        <4>3. tmpDirs' \in Nat /\ tmpDirs <= tmpDirs'
          BY <1>t, <4>2
        <4>. QED
          BY <1>t, <2>2, <3>1, <4>1, <4>2, <4>3, EnvKept, Zenon DEF SkipReturned
      <3>2. CASE i = pos
        BY <3>2, Zenon DEF SkipReturned, EnvApplied, Cur
      <3>. QED
        BY <3>1, <3>2
    <2>. QED
      BY <1>1, <2>0, <2>1, <2>3, Zenon DEF EInv, EnvInv
  <1>. QED
    BY <1>2, <1>3, Zenon DEF SkipReturned, Walking

LEMMA LoadDefaultEInv == EInv /\ LoadDefault => EInv'
  <1> SUFFICES ASSUME EInv, LoadDefault PROVE EInv'
    OBVIOUS
  <1>1. TypeOK'
    BY LoadDefaultTyped DEF EInv
  <1>. QED
    BY <1>1, EnvInvVacuous, Zenon DEF LoadDefault, EInv

LEMMA FinishDefaultsEInv == EInv /\ FinishDefaults => EInv'
  <1> SUFFICES ASSUME EInv, FinishDefaults PROVE EInv'
    OBVIOUS
  <1>1. TypeOK'
    BY FinishDefaultsTyped DEF EInv
  <1>. QED
    BY <1>1, EnvInvVacuous, Zenon DEF FinishDefaults, EInv

LEMMA LoadBundledEInv == EInv /\ LoadBundled => EInv'
  <1> SUFFICES ASSUME EInv, LoadBundled PROVE EInv'
    OBVIOUS
  <1>1. TypeOK'
    BY LoadBundledTyped DEF EInv
  <1>2. pc' \in {"bundled", "failed"}
    BY Zenon DEF LoadBundled, Unmarshal
  <1>. QED
    BY <1>1, <1>2, EnvInvVacuous, Zenon DEF EInv

(* The env pass starts at the first leaf, or the custom stage comes first. *)
LEMMA FinishBundledEInv == EInv /\ FinishBundled => EInv'
  <1> SUFFICES ASSUME EInv, FinishBundled PROVE EInv'
    OBVIOUS
  <1>1. TypeOK'
    BY FinishBundledTyped DEF EInv
  <1>2. pc' = "custom" \/ (pc' = "env" /\ pos' = 1)
    BY Zenon DEF FinishBundled, StartEnv
  <1>. QED
    BY <1>1, <1>2, EnvInvVacuous, Zenon DEF EInv

LEMMA LoadCustomEInv == EInv /\ LoadCustom => EInv'
  <1> SUFFICES ASSUME EInv, LoadCustom PROVE EInv'
    OBVIOUS
  <1>1. TypeOK'
    BY LoadCustomTyped DEF EInv
  <1>2. pc' \in {"fatal", "failed"} \/ (pc' = "env" /\ pos' = 1)
    BY Zenon DEF LoadCustom, Unmarshal, StartEnv
  <1>. QED
    BY <1>1, <1>2, EnvInvVacuous, Zenon DEF EInv

LEMMA FinishEnvEInv == EInv /\ FinishEnv => EInv'
  <1> SUFFICES ASSUME EInv, FinishEnv PROVE EInv'
    OBVIOUS
  <1>1. TypeOK'
    BY FinishEnvTyped DEF EInv
  <1>2. /\ UNCHANGED <<strs, bools, ints, pos, env, tmpDirs, unapplied>>
        /\ pc \in {"env", "done"} /\ pc' \in {"env", "done"}
        /\ pc' = "done" => pos = Len(Fields) + 1
    BY Zenon DEF FinishEnv
  <1>3. EnvInv'
    BY <1>1, <1>2, EnvFrozen
  <1>. QED
    BY <1>1, <1>3 DEF EInv

LEMMA InitEInv == Init => EInv
  <1> SUFFICES ASSUME Init PROVE EInv
    OBVIOUS
  <1>1. TypeOK
    BY InitTypeOK
  <1>. QED
    BY <1>1, Zenon DEF Init, EInv, EnvInv

(* Every step of IntoObject keeps EInv.                                  *)
LEMMA NextEInv == EInv /\ [Next]_vars => EInv'
  <1> SUFFICES ASSUME EInv, [Next]_vars PROVE EInv'
    OBVIOUS
  <1>1. CASE SkipReturned    BY <1>1, SkipReturnedEInv
  <1>2. CASE LoadDefault     BY <1>2, LoadDefaultEInv
  <1>3. CASE FinishDefaults  BY <1>3, FinishDefaultsEInv
  <1>4. CASE LoadBundled     BY <1>4, LoadBundledEInv
  <1>5. CASE FinishBundled   BY <1>5, FinishBundledEInv
  <1>6. CASE LoadCustom      BY <1>6, LoadCustomEInv
  <1>7. CASE LoadEnv         BY <1>7, LoadEnvEInv
  <1>8. CASE FinishEnv       BY <1>8, FinishEnvEInv
  <1>9. CASE UNCHANGED vars
    <2>1. TypeOK'
      BY <1>9, NextTypeOK DEF EInv
    <2>2. CASE pc \in {"env", "done"}
      <3>1. pc' = "done" => pos = Len(Fields) + 1
        BY <1>9, Zenon DEF vars, EInv, EnvInv
      <3>. QED
        BY <1>9, <2>1, <2>2, <3>1, EnvFrozen, Zenon DEF vars, EInv
    <2>3. CASE pc \notin {"env", "done"}
      <3>1. pc' \in {"defaults", "bundled", "custom", "failed", "fatal"}
        BY <1>9, <2>3, Zenon DEF vars, EInv, TypeOK, Terminal
      <3>. QED
        BY <2>1, <3>1, EnvInvVacuous, Zenon DEF EInv
    <2>. QED
      BY <2>2, <2>3
  <1>. QED
    BY <1>1, <1>2, <1>3, <1>4, <1>5, <1>6, <1>7, <1>8, <1>9 DEF Next

(* At the end of the env pass every leaf has been passed.               *)
LEMMA EInvPrecedence == EInv => EnvPrecedence
  <1> SUFFICES ASSUME EInv, pc = "done"
               PROVE  \A l \in Leaves : EnvApplied(l) => EnvSet(l)
    BY Zenon DEF EnvPrecedence, EnvSet, Leaves
  <1>1. pos = Len(Fields) + 1
    BY Zenon DEF EInv, EnvInv
  <1>2. 1..(pos - 1) = 1..Len(Fields)
    BY <1>1, FieldsFacts
  <1>3. \A i \in 1..Len(Fields) : EnvApplied(Fields[i]) => EnvSet(Fields[i])
    BY <1>2, Zenon DEF EInv, EnvInv
  <1>. QED
    BY <1>3, FieldsFacts, Zenon

(* Environment precedence holds for every schema, environment and set of *)
(* overlays: when IntoObject returns, every string, bool and int field    *)
(* whose env variable is set holds what processValueFromString makes of   *)
(* that variable (loadFromEnv runs last and overrides the overlays),      *)
(* unless the env pass skipped it or failed on it.                        *)
THEOREM EnvPrecedenceHolds == Spec => []EnvPrecedence
  <1>1. Init => EInv
    BY InitEInv
  <1>2. EInv /\ [Next]_vars => EInv'
    BY NextEInv
  <1>3. EInv => EnvPrecedence
    BY EInvPrecedence
  <1>. QED
    BY <1>1, <1>2, <1>3, PTL DEF Spec
=============================================================================
