------------------------- MODULE SnapshotStoreProofs -------------------------
(***************************************************************************)
(* SnapshotStore is type correct, never shows a torn file, loses no save   *)
(* in the coalescing, and implements SnapshotRegister, for every set of    *)
(* processes and every number of saves.                                    *)
(***************************************************************************)
EXTENDS SnapshotStore, TLAPS

-----------------------------------------------------------------------------
\* What the flush loop holds while it works, per process.
WriterInv(p) ==
    /\ ~up[p] => phase[p] = "idle" /\ issued[p] = {}
    /\ phase[p] = "idle" => pending[p] = NoSnap
    /\ phase[p] \in {"tmp", "rename", "rm"} =>
          writing[p] \in issued[p] /\ writing[p].ver > landed[p]
    /\ phase[p] \in {"tmp", "rename"} => tmp[p].snap = writing[p]
    /\ phase[p] = "rename" => tmp[p].whole
    /\ phase[p] = "returned" => writing[p] \in issued[p] /\ landed[p] <= writing[p].ver
    /\ pending[p] # NoSnap => pending[p] \in issued[p] /\ pending[p].ver > writing[p].ver
    /\ landed[p] <= saves
    /\ \A s \in issued[p] : s.ver \in 1..saves

\* What p saved and has not landed is being written, waits, or was rejected.
NothingForgotten(p) ==
    \A s \in issued[p] :
        \/ s.ver <= landed[p]
        \/ phase[p] # "idle" /\ s.ver <= writing[p].ver
                             /\ (phase[p] = "returned" => rejected[p])
        \/ pending[p] # NoSnap /\ s.ver <= pending[p].ver
        \/ phase[p] = "idle" /\ rejected[p]

IInv ==
    /\ TypeOK
    /\ FileIsWhole
    /\ \A p \in Proc : WriterInv(p) /\ NothingForgotten(p)

-----------------------------------------------------------------------------
\* The pieces snapshots are made of have their types.
LEMMA SnapshotTypes ==
    /\ NoSnap \in Snapshot /\ NoFile \in Snapshot
    /\ \A s \in Snapshot : Whole(s) \in Contents /\ Torn(s) \in Contents
    /\ \A v \in 0..MaxSaves, e \in BOOLEAN : [ver |-> v, empty |-> e] \in Snapshot
  BY MaxSavesAssumption DEF NoSnap, NoFile, Whole, Torn, Snapshot, Contents

\* The initial state satisfies the inductive invariant.
LEMMA InitInv == Init => IInv
  BY SnapshotTypes, MaxSavesAssumption
  DEF Init, IInv, TypeOK, FileIsWhole, WriterInv, NothingForgotten, Phases, Whole, NoSnap

\* save() preserves it.
LEMMA SaveInv ==
  ASSUME IInv, NEW p \in Proc, NEW e \in BOOLEAN, Save(p, e)
  PROVE  IInv'
  <1> DEFINE s == [ver |-> saves + 1, empty |-> e]
  <1>1. s \in Snapshot /\ s # NoSnap /\ s.ver = saves + 1
    BY MaxSavesAssumption DEF Save, IInv, TypeOK, Snapshot, NoSnap
  <1>2. TypeOK'
    <2>1. saves' \in 0..MaxSaves
      BY MaxSavesAssumption DEF Save, IInv, TypeOK
    <2>2. mem' \in [Proc -> Snapshot] /\ issued' \in [Proc -> SUBSET Snapshot]
      BY <1>1 DEF Save, IInv, TypeOK
    <2>3. CASE phase[p] = "idle"
      BY <1>1, <2>1, <2>2, <2>3, SnapshotTypes DEF Save, StartWrite, IInv, TypeOK, Phases
    <2>4. CASE phase[p] # "idle"
      BY <1>1, <2>1, <2>2, <2>4 DEF Save, IInv, TypeOK
    <2>5. QED BY <2>3, <2>4
  <1>3. FileIsWhole'
    BY DEF Save, IInv, FileIsWhole
  <1>4. ASSUME NEW q \in Proc PROVE (WriterInv(q) /\ NothingForgotten(q))'
    <2>1. CASE q # p
      BY <2>1, <1>1 DEF Save, StartWrite, IInv, TypeOK, WriterInv, NothingForgotten, Snapshot
    <2>2. CASE q = p
      <3>1. issued'[p] = issued[p] \cup {s} /\ saves' = saves + 1 /\ saves \in Nat
            /\ landed' = landed /\ rejected' = rejected /\ up' = up /\ up[p]
        BY MaxSavesAssumption DEF Save, IInv, TypeOK
      <3>2. /\ landed[p] \in Nat /\ landed[p] <= saves
            /\ pending[p] \in Snapshot /\ writing[p] \in Snapshot
            /\ \A r \in issued[p] : r.ver \in 1..saves
        BY MaxSavesAssumption DEF IInv, TypeOK, WriterInv
      <3>3. CASE phase[p] = "idle"
        <4>1. /\ writing'[p] = s /\ pending'[p] = NoSnap
              /\ phase'[p] = IF e THEN "rm" ELSE "tmp"
              /\ ~e => tmp'[p].snap = s
          BY <3>3 DEF Save, StartWrite, IInv, TypeOK, WriterInv, Torn
        <4> HIDE DEF s
        <4>2. WriterInv(p)'
          BY <3>1, <3>2, <4>1, <1>1 DEF WriterInv
        <4>3. NothingForgotten(p)'
          BY <3>1, <3>2, <4>1, <1>1 DEF NothingForgotten
        <4>4. QED BY <2>2, <4>2, <4>3
      <3>4. CASE phase[p] # "idle"
        <4>1. pending'[p] = s /\ writing' = writing /\ phase' = phase /\ tmp' = tmp
          BY <3>4 DEF Save, IInv, TypeOK
        <4>2. WriterInv(p) /\ NothingForgotten(p)
          BY DEF IInv
        <4> HIDE DEF s
        <4>3. writing[p].ver <= saves
          BY <3>2, <3>4, <4>2 DEF WriterInv, IInv, TypeOK, Phases
        <4>31. writing[p].ver \in Nat /\ pending[p].ver \in Nat
          BY <3>2, MaxSavesAssumption DEF Snapshot
        <4>4. WriterInv(p)'
          BY <3>1, <3>2, <3>4, <4>1, <4>2, <4>3, <4>31, <1>1 DEF WriterInv
        <4>5. NothingForgotten(p)'
          BY <3>1, <3>2, <3>4, <4>1, <4>2, <4>3, <4>31, <1>1 DEF NothingForgotten, WriterInv
        <4>6. QED BY <2>2, <4>4, <4>5
      <3>5. QED BY <3>3, <3>4
    <2>3. QED BY <2>1, <2>2
  <1>5. QED BY <1>2, <1>3, <1>4 DEF IInv

\* A published snapshot (rename or rm) preserves it.
LEMMA LandInv ==
  ASSUME IInv, NEW p \in Proc, Renamed(p) \/ Removed(p)
  PROVE  IInv'
  <1>1. file' = Whole(writing[p]) /\ file' \in Contents
    <2>1. writing[p] \in Snapshot /\ tmp[p] \in Contents
      BY DEF IInv, TypeOK
    <2>2. CASE Renamed(p)
      <3>1. tmp[p].snap = writing[p] /\ tmp[p].whole = TRUE
        BY <2>1, <2>2 DEF IInv, WriterInv, Renamed, Contents
      <3>2. tmp[p] = [snap |-> tmp[p].snap, whole |-> tmp[p].whole]
        BY <2>1 DEF Contents
      <3>3. QED BY <2>1, <2>2, <3>1, <3>2 DEF Renamed, Land, Whole
    <2>3. CASE Removed(p)
      BY <2>1, <2>3, SnapshotTypes DEF Removed, Land
    <2>4. QED BY <2>2, <2>3
  <1>2. TypeOK'
    <2>1. /\ landed' = [landed EXCEPT ![p] = writing[p].ver]
          /\ rejected' = [rejected EXCEPT ![p] = FALSE]
          /\ phase' = [phase EXCEPT ![p] = "returned"]
          /\ UNCHANGED <<up, mem, pending, writing, saves, issued>>
          /\ tmp' = tmp \/ tmp' = [tmp EXCEPT ![p] = Whole(NoFile)]
      BY DEF Renamed, Removed, Land
    <2>2. writing[p].ver \in 0..MaxSaves
      BY DEF IInv, TypeOK, Snapshot
    <2>3. QED BY <1>1, <2>1, <2>2, SnapshotTypes DEF IInv, TypeOK, Phases
  <1>3. FileIsWhole'
    BY <1>1 DEF FileIsWhole, Whole
  <1>4. ASSUME NEW q \in Proc PROVE (WriterInv(q) /\ NothingForgotten(q))'
    <2>1. CASE q # p
      BY <2>1 DEF Renamed, Removed, Land, IInv, TypeOK, WriterInv, NothingForgotten
    <2>2. CASE q = p
      BY <2>2 DEF Renamed, Removed, Land, IInv, TypeOK, WriterInv, NothingForgotten, Snapshot
    <2>3. QED BY <2>1, <2>2
  <1>5. QED BY <1>2, <1>3, <1>4 DEF IInv

\* flush() resuming after an await preserves it.
LEMMA ResumeInv ==
  ASSUME IInv, NEW p \in Proc, Resume(p)
  PROVE  IInv'
  <1>1. TypeOK'
    BY SnapshotTypes DEF Resume, StartWrite, IInv, TypeOK, Phases
  <1>2. FileIsWhole'
    BY DEF Resume, IInv, FileIsWhole
  <1>3. ASSUME NEW q \in Proc PROVE (WriterInv(q) /\ NothingForgotten(q))'
    <2>1. CASE q # p
      BY <2>1 DEF Resume, StartWrite, IInv, TypeOK, WriterInv, NothingForgotten
    <2>2. CASE q = p /\ pending[p] # NoSnap
      BY <2>2 DEF Resume, StartWrite, IInv, TypeOK, WriterInv, NothingForgotten, Torn, Snapshot
    <2>3. CASE q = p /\ pending[p] = NoSnap
      BY <2>3 DEF Resume, IInv, TypeOK, WriterInv, NothingForgotten, Snapshot
    <2>4. QED BY <2>1, <2>2, <2>3
  <1>4. QED BY <1>1, <1>2, <1>3 DEF IInv

\* The steps that leave the snapshots where they are preserve it.
LEMMA OtherStepsInv ==
  ASSUME IInv, NEW p \in Proc, TmpWritten(p) \/ WriteFails(p) \/ Crash(p) \/ Restart(p)
  PROVE  IInv'
  <1>1. CASE TmpWritten(p)
    <2>1. TypeOK' BY <1>1, SnapshotTypes DEF TmpWritten, IInv, TypeOK, Phases
    <2>2. QED BY <1>1, <2>1
          DEF TmpWritten, IInv, TypeOK, FileIsWhole, WriterInv, NothingForgotten, Whole
  <1>2. CASE WriteFails(p)
    <2>1. TypeOK'
      <3>1. phase' \in [Proc -> Phases] /\ rejected' \in [Proc -> BOOLEAN]
        BY <1>2 DEF WriteFails, IInv, TypeOK, Phases
      <3> QED BY <1>2, <3>1 DEF WriteFails, IInv, TypeOK
    <2>2. ASSUME NEW q \in Proc PROVE (WriterInv(q) /\ NothingForgotten(q))'
      BY <1>2 DEF WriteFails, IInv, TypeOK, WriterInv, NothingForgotten, Snapshot
    <2>3. QED BY <1>2, <2>1, <2>2 DEF WriteFails, IInv, FileIsWhole
  <1>3. CASE Crash(p)
    <2>1. TypeOK' BY <1>3, SnapshotTypes DEF Crash, IInv, TypeOK, Phases
    <2>2. ASSUME NEW q \in Proc PROVE (WriterInv(q) /\ NothingForgotten(q))'
      BY <1>3 DEF Crash, IInv, TypeOK, WriterInv, NothingForgotten, Snapshot, NoSnap
    <2>3. QED BY <1>3, <2>1, <2>2 DEF Crash, IInv, FileIsWhole
  <1>4. CASE Restart(p)
    <2>1. TypeOK' BY <1>4, SnapshotTypes DEF Restart, IInv, TypeOK, Contents
    <2>2. QED BY <1>4, <2>1
          DEF Restart, IInv, TypeOK, FileIsWhole, WriterInv, NothingForgotten
  <1>5. QED BY <1>1, <1>2, <1>3, <1>4

\* Every step of the specification, and none, preserves the invariant.
LEMMA NextInv == IInv /\ [Next]_vars => IInv'
  <1> SUFFICES ASSUME IInv, [Next]_vars PROVE IInv'
    OBVIOUS
  <1>1. CASE UNCHANGED vars
    BY <1>1 DEF vars, IInv, TypeOK, FileIsWhole, WriterInv, NothingForgotten
  <1>2. CASE Next
    BY <1>2, SaveInv, LandInv, ResumeInv, OtherStepsInv DEF Next
  <1>3. QED BY <1>1, <1>2

\* The inductive invariant holds of every reachable state.
THEOREM Invariance == Spec => []IInv
  BY InitInv, NextInv, PTL DEF Spec

\* The state is always well typed.
THEOREM TypeCorrect == Spec => []TypeOK
  BY Invariance, PTL DEF IInv

\* No reader of the path ever finds a half-written snapshot.
THEOREM NeverTorn == Spec => []FileIsWhole
  BY Invariance, PTL DEF IInv

\* The coalescing loses no save: a writer at rest has landed all it was given,
\* unless its last write was rejected.
THEOREM SettledLatest == Spec => []SettledIsLatest
  <1>1. IInv => SettledIsLatest
    BY DEF IInv, WriterInv, NothingForgotten, SettledIsLatest
  <1>2. QED BY <1>1, Invariance, PTL

-----------------------------------------------------------------------------
\* The steps that publish are the register's Publish.
LEMMA LandPublishes ==
  ASSUME IInv, NEW p \in Proc, Renamed(p) \/ Removed(p)
  PROVE  Register!Publish(p)
  <1>1. writing[p] \in issued[p] /\ writing[p].ver > landed[p]
    BY DEF IInv, WriterInv, Renamed, Removed
  <1>2. file'.snap = writing[p]
    BY DEF IInv, WriterInv, Renamed, Removed, Land, Whole
  <1>3. landed' = [landed EXCEPT ![p] = writing[p].ver] /\ UNCHANGED <<issued, saves>>
    BY DEF Renamed, Removed, Land
  <1>4. QED BY <1>1, <1>2, <1>3 DEF Register!Publish

\* The writer implements the register a reader of the file relies on.
THEOREM Refinement == Spec => ImplementsRegister
  <1>1. Init => Register!Init
    BY DEF Init, Register!Init, NoFile, Whole
  <1>2. IInv /\ [Next]_vars => [Register!Next]_(Register!vars)
    <2> SUFFICES ASSUME IInv, [Next]_vars PROVE [Register!Next]_(Register!vars)
      OBVIOUS
    <2>1. CASE UNCHANGED vars
      BY <2>1 DEF vars, Register!vars
    <2>2. ASSUME NEW p \in Proc, NEW e \in BOOLEAN, Save(p, e)
          PROVE  Register!Next
      BY <2>2 DEF Save, Register!Next, Register!Issue
    <2>3. ASSUME NEW p \in Proc, Renamed(p) \/ Removed(p)
          PROVE  Register!Next
      BY <2>3, LandPublishes DEF Register!Next
    <2>4. ASSUME NEW p \in Proc, Crash(p)
          PROVE  Register!Next
      BY <2>4 DEF Crash, Register!Next, Register!Forget
    <2>5. ASSUME NEW p \in Proc, TmpWritten(p) \/ WriteFails(p) \/ Resume(p) \/ Restart(p)
          PROVE  UNCHANGED Register!vars
      BY <2>5 DEF TmpWritten, WriteFails, Resume, StartWrite, Restart, Register!vars
    <2>6. QED BY <2>1, <2>2, <2>3, <2>4, <2>5 DEF Next
  <1>3. QED BY <1>1, <1>2, Invariance, PTL DEF Spec, ImplementsRegister, Register!Spec
=============================================================================
