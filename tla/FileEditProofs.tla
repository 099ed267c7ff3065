---------------------------- MODULE FileEditProofs ----------------------------
(***************************************************************************)
(* What FileLock and FileEdit promise for any processes, callers, tools    *)
(* and bounds: that the tools use the lock as FileLock lets its callers    *)
(* (so what holds of the lock alone holds under them), exclusion unless a  *)
(* lock in use was unlinked, no leaked lock, and no lost edit.             *)
(***************************************************************************)
EXTENDS FileEdit, TLAPS

USE ProcOfAssumption, TriesAssumption, CallsAssumption, NoneAssumption

-----------------------------------------------------------------------------
(* The lock                                                                 *)

Owning == {"writing", "holding", "releasing"}

\* A task that asked for the lock has a call of its own to sign it with.
HasCalled == \A t \in Task : pc[t] \in Waiting => calls[t] \in 1..MaxCalls

\* What heldLocks names is held: the exit hook unlinks no other lock.
HeldIsHeld == \A p \in held : \E t \in Task : ProcOf[t] = p /\ pc[t] \in {"holding", "releasing"}

\* The file is that of whoever created it last, as long as no lock in use was
\* unlinked.
FileIsOwners ==
    cleared \/ \A t \in Task :
        pc[t] \in Owning => file # None /\ file.by = t /\ file.call = calls[t]

\* A handle on a lock another task holds is remembered.
SharingIsShared == \A t \in Task : pc[t] = "sharing" => shared

LockInv ==
    LockTypeOK /\ HasCalled /\ HeldIsHeld /\ FileIsOwners /\ SharingIsShared /\ LiveLockHasHolder

\* At first there is no lock and nobody asked for one.
LEMMA InitLockInv == Init => LockInv
<1> SUFFICES ASSUME Init PROVE LockInv
  OBVIOUS
<1> USE DEF Init
<1>1. LockTypeOK
  <2>1. tries \in [Task -> 0..MaxTries] /\ calls \in [Task -> 0..MaxCalls]
    OBVIOUS
  <2>2. pc \in [Task -> Points] /\ \A t \in Task : pc[t] = "out"
    BY DEF Points
  <2>3. \A t \in Task : pc[t] = "dead" <=> ProcOf[t] \notin alive
    BY <2>2
  <2> QED
    BY <2>1, <2>2, <2>3 DEF LockTypeOK
<1>2. HasCalled /\ FileIsOwners /\ SharingIsShared
  BY DEF HasCalled, FileIsOwners, SharingIsShared, Waiting, InAttempt, Owning
<1>3. HeldIsHeld /\ LiveLockHasHolder
  BY DEF HeldIsHeld, LiveLockHasHolder
<1> QED
  BY <1>1, <1>2, <1>3 DEF LockInv

\* What a task signs the lock with is a lock.
LEMMA MineIsLock ==
  ASSUME NEW t \in Task, calls[t] \in 1..MaxCalls
  PROVE  Mine(t) \in Lock /\ [Mine(t) EXCEPT !.text = "empty"] \in Lock
  BY DEF Mine, Lock

\* Steps of one task that neither have nor get the lock, and leave it alone.
LEMMA QuietStep ==
  ASSUME LockInv, NEW t \in Task, pc[t] \notin {"holding", "releasing", "dead"},
         NEW point \in Points \ (Owning \cup {"dead"}),
         pc' = [pc EXCEPT ![t] = point],
         seen' \in [Task -> Lock \cup {None}],
         \A u \in Task \ {t} : seen'[u] = seen[u],
         point = "judging" => seen'[t] # None,
         tries' \in [Task -> 0..MaxTries],
         calls' = calls \/ (point \in Waiting /\ calls' = [calls EXCEPT ![t] = @ + 1]),
         calls'[t] \in 0..MaxCalls, point \in Waiting => calls'[t] # 0,
         shared' \in BOOLEAN, shared \/ point = "sharing" => shared',
         UNCHANGED <<alive, file, held, cleared>>
  PROVE  LockInv'
<1> USE DEF LockInv
<1>1. LockTypeOK'
  BY DEF LockTypeOK
<1>2. HasCalled'
  BY DEF HasCalled, LockTypeOK
<1>3. HeldIsHeld'
  BY DEF HeldIsHeld, LockTypeOK
<1>4. FileIsOwners'
  BY DEF FileIsOwners, LockTypeOK, Owning
<1>5. SharingIsShared'
  BY DEF SharingIsShared, LockTypeOK
<1>6. LiveLockHasHolder'
  BY DEF LiveLockHasHolder, LockTypeOK, Lock
<1> QED
  BY <1>1, <1>2, <1>3, <1>4, <1>5, <1>6

\* Creating the file: it is the creator's, and nobody else's is under way.
LEMMA CreateInv ==
  ASSUME LockInv, NEW t \in Task, Create(t)
  PROVE  LockInv'
<1> USE DEF LockInv
<1>1. pc[t] \in {"trying", "again"} /\ calls[t] \in 1..MaxCalls
  BY DEF Create, Starts, HasCalled, Waiting, InAttempt
<1>2. CASE file # None
  <2>1. /\ pc' = [pc EXCEPT ![t] = "reading"]
        /\ UNCHANGED <<alive, file, held, seen, tries, calls, cleared, shared>>
    BY <1>2 DEF Create, Goto
  <2>2. "reading" \in Points \ (Owning \cup {"dead"})
    BY DEF Points, Waiting, InAttempt, Owning
  <2>3. /\ seen' \in [Task -> Lock \cup {None}] /\ \A u \in Task \ {t} : seen'[u] = seen[u]
        /\ tries' \in [Task -> 0..MaxTries]
        /\ calls'[t] \in 0..MaxCalls /\ calls'[t] # 0
        /\ shared' \in BOOLEAN /\ (shared => shared')
    BY <1>1, <2>1 DEF LockTypeOK
  <2> QED
    BY <1>1, <2>1, <2>2, <2>3, QuietStep
<1>3. CASE file = None
  <2>0. /\ pc' = [pc EXCEPT ![t] = "writing"]
        /\ file' = [Mine(t) EXCEPT !.text = "empty"]
        /\ UNCHANGED <<alive, held, seen, tries, calls, cleared, shared>>
    BY <1>3 DEF Create, Goto
  <2>1. LockTypeOK'
    BY <1>1, <2>0, MineIsLock DEF LockTypeOK, Points, Waiting, InAttempt
  <2>2. HasCalled' /\ HeldIsHeld' /\ SharingIsShared'
    BY <1>1, <2>0 DEF HasCalled, HeldIsHeld, SharingIsShared, LockTypeOK
  <2>3. FileIsOwners'
    <3>1. file' # None /\ file'.by = t /\ file'.call = calls[t]
      BY <1>1, <2>0, MineIsLock DEF Mine
    <3> QED
      BY <1>3, <2>0, <3>1 DEF FileIsOwners, LockTypeOK, Owning
  <2>4. LiveLockHasHolder'
    BY <2>0 DEF LiveLockHasHolder, Mine
  <2> QED
    BY <2>1, <2>2, <2>3, <2>4
<1> QED
  BY <1>2, <1>3

\* Filling the file: whoever created it holds the lock from now on.
LEMMA WriteInv ==
  ASSUME LockInv, NEW t \in Task, Write(t)
  PROVE  LockInv'
<1> USE DEF LockInv
<1>1. pc[t] = "writing" /\ calls[t] \in 1..MaxCalls /\ ProcOf[t] \in alive
  BY DEF Write, HasCalled, Waiting, InAttempt, LockTypeOK
<1>2. /\ pc' = [pc EXCEPT ![t] = "holding"]
      /\ held' = held \cup {ProcOf[t]}
      /\ tries' = [tries EXCEPT ![t] = 0]
      /\ UNCHANGED <<alive, seen, calls, cleared, shared>>
  BY DEF Write, Leave, Goto
<1>3. Mine(t) \in Lock /\ Mine(t).by = t /\ Mine(t).call = calls[t]
  BY <1>1, MineIsLock DEF Mine
<1>4. file' = file \/ (file' = Mine(t) /\ file # None /\ file.by = t)
  BY <1>3, NoneAssumption DEF Write, SameHolder
<1>5. LockTypeOK'
  <2>1. tries' \in [Task -> 0..MaxTries]
    BY <1>2 DEF LockTypeOK
  <2> QED
    BY <1>1, <1>2, <1>3, <1>4, <2>1 DEF LockTypeOK, Points, Using
<1>6. HasCalled' /\ SharingIsShared'
  BY <1>1, <1>2 DEF HasCalled, SharingIsShared, LockTypeOK, Waiting, InAttempt
<1>7. HeldIsHeld'
  BY <1>1, <1>2 DEF HeldIsHeld, LockTypeOK
<1>8. FileIsOwners'
  BY <1>1, <1>2, <1>3, <1>4 DEF FileIsOwners, LockTypeOK, Owning
<1>9. LiveLockHasHolder'
  BY <1>1, <1>2, <1>3, <1>4 DEF LiveLockHasHolder, LockTypeOK, Lock
<1> QED
  BY <1>5, <1>6, <1>7, <1>8, <1>9

\* Unlinking a stale file: a lock in use is gone only if that is remembered.
LEMMA ClearInv ==
  ASSUME LockInv, NEW t \in Task, Clear(t)
  PROVE  LockInv'
<1> USE DEF LockInv
<1>1. pc[t] = "clearing" /\ calls[t] \in 1..MaxCalls
  BY DEF Clear, HasCalled, Waiting, InAttempt
<1>2. /\ pc' = [pc EXCEPT ![t] = "again"]
      /\ file' = None /\ cleared' = (cleared \/ InUse)
      /\ UNCHANGED <<alive, held, seen, tries, calls, shared>>
  BY DEF Clear, Goto
<1>3. LockTypeOK'
  BY <1>1, <1>2 DEF LockTypeOK, Points, Waiting, InAttempt, InUse
<1>4. HasCalled' /\ SharingIsShared' /\ HeldIsHeld'
  BY <1>1, <1>2 DEF HasCalled, SharingIsShared, HeldIsHeld, LockTypeOK
<1>5. FileIsOwners'
  <2> SUFFICES ASSUME ~cleared', NEW u \in Task PROVE pc'[u] \notin Owning
    BY <1>2 DEF FileIsOwners
  <2>1. ~InUse /\ ~cleared
    BY <1>2 DEF LockTypeOK
  <2>2. pc[u] \notin Owning
    BY <2>1 DEF InUse, FileIsOwners, Owning
  <2> QED
    BY <1>2, <2>2 DEF LockTypeOK, Owning
<1>6. LiveLockHasHolder'
  BY <1>2 DEF LiveLockHasHolder
<1> QED
  BY <1>3, <1>4, <1>5, <1>6

\* Letting go of a handle: one on a lock cleared meanwhile leaves the file,
\* which is then another call's or a dead process's.
LEMMA LetGoInv ==
  ASSUME LockInv, NEW t \in Task, LetGo(t)
  PROVE  LockInv'
<1> USE DEF LockInv
<1>1. pc[t] \in Using /\ ProcOf[t] \in alive
  BY DEF LetGo, LockTypeOK, Using
<1>2. UNCHANGED <<alive, file, seen, tries, calls, cleared, shared>>
  BY DEF LetGo
<1>3. CASE pc[t] = "holding" /\ (Parsed = None \/ SameHolder(Parsed, Mine(t)))
  <2>0. pc' = [pc EXCEPT ![t] = "releasing"] /\ UNCHANGED held
    BY <1>3 DEF LetGo, Goto
  <2>1. LockTypeOK'
    BY <1>2, <1>3, <2>0 DEF LockTypeOK, Points
  <2>2. HasCalled' /\ SharingIsShared' /\ HeldIsHeld'
    BY <1>2, <1>3, <2>0
       DEF HasCalled, SharingIsShared, HeldIsHeld, LockTypeOK, Waiting, InAttempt
  <2>3. FileIsOwners'
    BY <1>2, <1>3, <2>0 DEF FileIsOwners, LockTypeOK, Owning
  <2>4. LiveLockHasHolder'
    BY <1>2, <1>3, <2>0 DEF LiveLockHasHolder, LockTypeOK, Lock
  <2> QED
    BY <2>1, <2>2, <2>3, <2>4
<1>4. CASE ~(pc[t] = "holding" /\ (Parsed = None \/ SameHolder(Parsed, Mine(t))))
  <2>0. /\ pc' = [pc EXCEPT ![t] = "out"]
        /\ held' = IF pc[t] = "holding" THEN held \ {ProcOf[t]} ELSE held
    BY <1>4 DEF LetGo, Goto
  <2>1. LockTypeOK'
    BY <1>1, <1>2, <2>0 DEF LockTypeOK, Points, Using
  <2>2. HasCalled' /\ SharingIsShared'
    BY <1>2, <2>0 DEF HasCalled, SharingIsShared, LockTypeOK, Waiting, InAttempt
  <2>3. HeldIsHeld'
    BY <1>1, <1>2, <2>0 DEF HeldIsHeld, LockTypeOK, Using
  <2>4. FileIsOwners'
    BY <1>2, <2>0 DEF FileIsOwners, LockTypeOK, Owning
  <2>5. LiveLockHasHolder'
    <3> SUFFICES ASSUME file # None, file.text # "empty", ProcOf[file.by] \in alive
                 PROVE  file.by # t
      BY <1>2, <2>0 DEF LiveLockHasHolder, LockTypeOK, Lock
    <3>1. pc[file.by] \in {"holding", "releasing"} /\ calls[file.by] = file.call
      BY DEF LiveLockHasHolder
    <3> SUFFICES ASSUME file.by = t PROVE FALSE
      OBVIOUS
    <3>2. pc[t] = "holding" /\ calls[t] = file.call
      BY <1>1, <3>1 DEF Using
    <3>3. Parsed = file
      BY DEF Parsed
    <3>4. SameHolder(Parsed, Mine(t))
      BY <3>2, <3>3, NoneAssumption, MineIsLock DEF SameHolder, Mine, LockTypeOK, Lock
    <3> QED
      BY <1>4, <3>2, <3>4
  <2> QED
    BY <2>1, <2>2, <2>3, <2>4, <2>5
<1> QED
  BY <1>3, <1>4

\* A release unlinks the lock of its own call, or one of a call the releaser
\* no longer keeps out.
LEMMA UnlinkInv ==
  ASSUME LockInv, NEW t \in Task, Unlink(t)
  PROVE  LockInv'
<1> USE DEF LockInv
<1>1. pc[t] = "releasing"
  BY DEF Unlink
<1>2. /\ pc' = [pc EXCEPT ![t] = "out"]
      /\ file' = None /\ held' = held \ {ProcOf[t]}
      /\ UNCHANGED <<alive, seen, tries, calls, cleared, shared>>
  BY DEF Unlink, Goto
<1>3. LockTypeOK'
  BY <1>1, <1>2 DEF LockTypeOK, Points
<1>4. HasCalled' /\ SharingIsShared'
  BY <1>1, <1>2 DEF HasCalled, SharingIsShared, LockTypeOK, Waiting, InAttempt
<1>5. HeldIsHeld'
  BY <1>1, <1>2 DEF HeldIsHeld, LockTypeOK
<1>6. FileIsOwners'
  BY <1>1, <1>2 DEF FileIsOwners, LockTypeOK, Owning
<1>7. LiveLockHasHolder'
  BY <1>2 DEF LiveLockHasHolder
<1> QED
  BY <1>3, <1>4, <1>5, <1>6, <1>7

\* The end of a process: what its exit hook unlinks is a lock of its own, if
\* none was unlinked in use.
LEMMA EndsInv ==
  ASSUME LockInv, NEW p \in Proc, Crash(p) \/ Exit(p)
  PROVE  LockInv'
<1> USE DEF LockInv
<1>1. /\ alive' = alive \ {p} /\ held' = held \ {p}
      /\ pc' = [t \in Task |-> IF ProcOf[t] = p THEN "dead" ELSE pc[t]]
      /\ seen' = [t \in Task |-> IF ProcOf[t] = p THEN None ELSE seen[t]]
      /\ tries' = [t \in Task |-> IF ProcOf[t] = p THEN 0 ELSE tries[t]]
      /\ UNCHANGED <<calls, cleared, shared>>
      /\ file' = file \/ (file' = None /\ p \in held)
  BY DEF Crash, Exit, End
<1>2. LockTypeOK'
  <2>1. tries' \in [Task -> 0..MaxTries] /\ seen' \in [Task -> Lock \cup {None}]
    BY <1>1 DEF LockTypeOK
  <2>2. \A t \in Task : pc'[t] = "judging" => seen'[t] # None
    BY <1>1 DEF LockTypeOK
  <2>3. pc' \in [Task -> Points] /\ \A t \in Task : pc'[t] = "dead" <=> ProcOf[t] \notin alive'
    BY <1>1 DEF LockTypeOK, Points
  <2> QED
    BY <1>1, <2>1, <2>2, <2>3 DEF LockTypeOK
<1>3. HasCalled' /\ SharingIsShared'
  BY <1>1 DEF HasCalled, SharingIsShared, LockTypeOK, Waiting, InAttempt
<1>4. HeldIsHeld'
  BY <1>1 DEF HeldIsHeld, LockTypeOK
<1>5. FileIsOwners'
  <2>1. CASE file' = file
    BY <1>1, <2>1 DEF FileIsOwners, LockTypeOK, Owning
  <2>2. CASE file' = None /\ p \in held
    <3>1. PICK h \in Task : ProcOf[h] = p /\ pc[h] \in {"holding", "releasing"}
      BY <2>2 DEF HeldIsHeld
    <3> SUFFICES ASSUME ~cleared, NEW u \in Task, pc'[u] \in Owning PROVE FALSE
      BY <1>1 DEF FileIsOwners
    <3>2. pc[u] \in Owning /\ ProcOf[u] # p
      BY <1>1 DEF Owning
    <3>3. u = h
      BY <3>1, <3>2 DEF FileIsOwners, Owning
    <3> QED
      BY <3>1, <3>2, <3>3
  <2> QED
    BY <1>1, <2>1, <2>2
<1>6. LiveLockHasHolder'
  BY <1>1 DEF LiveLockHasHolder, LockTypeOK, Lock
<1> QED
  BY <1>2, <1>3, <1>4, <1>5, <1>6

\* A lock that grows old stays its holder's.
LEMMA GrowOldInv == LockInv /\ GrowOld => LockInv'
<1> SUFFICES ASSUME LockInv, GrowOld PROVE LockInv'
  OBVIOUS
<1> USE DEF LockInv
<1>1. /\ file \in Lock /\ file.text = "holder" /\ file' = [file EXCEPT !.text = "old"]
      /\ UNCHANGED <<alive, held, pc, seen, tries, calls, cleared, shared>>
  BY DEF GrowOld, LockTypeOK
<1>2. file' \in Lock /\ file'.by = file.by /\ file'.call = file.call
  BY <1>1 DEF Lock
<1>3. LockTypeOK' /\ HasCalled' /\ HeldIsHeld' /\ SharingIsShared'
  BY <1>1, <1>2 DEF LockTypeOK, HasCalled, HeldIsHeld, SharingIsShared
<1>4. FileIsOwners'
  BY <1>1, <1>2, NoneAssumption DEF FileIsOwners
<1>5. LiveLockHasHolder'
  BY <1>1, <1>2, NoneAssumption DEF LiveLockHasHolder
<1> QED
  BY <1>3, <1>4, <1>5

\* Moving on without the lock: nothing but the place and what was read last.
LEMMA QuietMove ==
  ASSUME LockInv, NEW t \in Task, pc[t] \in (Waiting \cup {"failed"}),
         NEW point \in {"reading", "rereading", "judging", "clearing", "again", "failed", "out"},
         pc' = [pc EXCEPT ![t] = point],
         point \in Waiting => pc[t] \in Waiting,
         NEW read \in Lock \cup {None},
         seen' = seen \/ seen' = [seen EXCEPT ![t] = read],
         point = "judging" => seen' = [seen EXCEPT ![t] = read] /\ read # None,
         tries' \in [Task -> 0..MaxTries],
         UNCHANGED <<alive, file, held, calls, cleared, shared>>
  PROVE  LockInv'
<1>1. point \in Points \ (Owning \cup {"dead"})
  BY DEF Points, Waiting, InAttempt, Owning
<1>2. /\ seen' \in [Task -> Lock \cup {None}] /\ \A u \in Task \ {t} : seen'[u] = seen[u]
      /\ (point = "judging" => seen'[t] # None)
  BY DEF LockInv, LockTypeOK
<1>3. /\ calls'[t] \in 0..MaxCalls
      /\ shared' \in BOOLEAN /\ (shared => shared')
  BY DEF LockInv, LockTypeOK
<1>4. point \in Waiting => calls'[t] # 0
  BY DEF LockInv, HasCalled
<1>5. pc[t] \notin {"holding", "releasing", "dead"} /\ point # "sharing"
  BY DEF Waiting, InAttempt
<1> QED
  BY <1>1, <1>2, <1>3, <1>4, <1>5, QuietStep

\* Judging the lock that was read: a stale one is read again, one of the own
\* process is shared, a peer's is waited for or given up on.
LEMMA JudgeInv ==
  ASSUME LockInv, NEW t \in Task, Judge(t)
  PROVE  LockInv'
<1>1. /\ pc[t] = "judging" /\ calls[t] \in 1..MaxCalls
      /\ UNCHANGED <<alive, file, held, calls, cleared>>
  BY DEF Judge, LockInv, HasCalled, Waiting, InAttempt
<1>2. CASE ProcOf[seen[t].by] # ProcOf[t] /\ StaleLock(seen[t])
  <2>1. pc' = [pc EXCEPT ![t] = "rereading"] /\ UNCHANGED <<seen, tries, shared>>
    BY <1>2 DEF Judge, Goto
  <2>2. tries' \in [Task -> 0..MaxTries]
    BY <2>1 DEF LockInv, LockTypeOK
  <2> QED
    BY <1>1, <2>1, <2>2, QuietMove DEF Waiting, InAttempt
<1>3. CASE ~(ProcOf[seen[t].by] # ProcOf[t] /\ StaleLock(seen[t]))
  <2>1. seen' = [seen EXCEPT ![t] = None] /\ ShareOrContend(t)
    BY <1>3 DEF Judge, Forget
  <2>2. PICK point \in {"sharing", "trying", "failed"} :
           /\ pc' = [pc EXCEPT ![t] = point]
           /\ shared' \in BOOLEAN /\ (shared \/ point = "sharing" => shared')
           /\ tries' \in [Task -> 0..MaxTries]
    <3>1. tries[t] \in 0..MaxTries /\ tries \in [Task -> 0..MaxTries] /\ shared \in BOOLEAN
      BY DEF LockInv, LockTypeOK
    <3>2. CASE ProcOf[seen[t].by] = ProcOf[t]
      BY <1>1, <2>1, <3>1, <3>2 DEF ShareOrContend, Leave, Goto
    <3>3. CASE ProcOf[seen[t].by] # ProcOf[t]
      <4>1. shared' = shared /\ ( \/ /\ tries[t] < MaxTries
                                     /\ tries' = [tries EXCEPT ![t] = @ + 1]
                                     /\ pc' = [pc EXCEPT ![t] = "trying"]
                                  \/ /\ tries' = [tries EXCEPT ![t] = 0]
                                     /\ pc' = [pc EXCEPT ![t] = "failed"])
        BY <2>1, <3>3 DEF ShareOrContend, Leave, Goto
      <4>2. tries' \in [Task -> 0..MaxTries]
        BY <3>1, <4>1
      <4> QED
        BY <3>1, <4>1, <4>2
    <3> QED
      BY <3>2, <3>3
  <2>3. point \in Points \ (Owning \cup {"dead"}) /\ point # "judging"
    BY DEF Points, Waiting, InAttempt, Using, Owning
  <2>4. seen' \in [Task -> Lock \cup {None}] /\ \A u \in Task \ {t} : seen'[u] = seen[u]
    BY <2>1 DEF LockInv, LockTypeOK
  <2>5. calls'[t] \in 0..MaxCalls /\ calls'[t] # 0
    BY <1>1
  <2> QED
    BY <1>1, <2>2, <2>3, <2>4, <2>5, QuietStep
<1> QED
  BY <1>2, <1>3

\* A new call signs with a number of its own.
LEMMA CallInv ==
  ASSUME LockInv, NEW t \in Task, Call(t)
  PROVE  LockInv'
<1>1. /\ pc[t] = "out" /\ pc' = [pc EXCEPT ![t] = "trying"]
      /\ calls' = [calls EXCEPT ![t] = @ + 1] /\ calls[t] < MaxCalls
      /\ UNCHANGED <<alive, file, held, seen, cleared, shared>>
  BY DEF Call, Goto
<1>2. tries' \in [Task -> 0..MaxTries]
  BY DEF Call, LockInv, LockTypeOK
<1>3. /\ seen' \in [Task -> Lock \cup {None}] /\ \A u \in Task \ {t} : seen'[u] = seen[u]
      /\ shared' \in BOOLEAN /\ (shared => shared')
      /\ calls'[t] \in 0..MaxCalls /\ calls'[t] # 0
  BY <1>1 DEF LockInv, LockTypeOK
<1>4. "trying" \in Points \ (Owning \cup {"dead"}) /\ "trying" \in Waiting
  BY DEF Points, Waiting, InAttempt, Owning
<1> QED
  BY <1>1, <1>2, <1>3, <1>4, QuietStep

\* Every step keeps the invariant of the lock.
LEMMA NextLockInv == LockInv /\ [Next]_vars => LockInv'
<1> SUFFICES ASSUME LockInv, [Next]_vars PROVE LockInv'
  OBVIOUS
<1>0. ASSUME NEW t \in Task, tries' = tries \/ tries' = [tries EXCEPT ![t] = 0]
      PROVE  tries' \in [Task -> 0..MaxTries]
  BY <1>0 DEF LockInv, LockTypeOK
<1>1. ASSUME NEW t \in Task, Throws(t) PROVE LockInv'
  BY <1>0, <1>1, QuietMove DEF Throws, Starts, Leave, Goto, Waiting, InAttempt
<1>2. ASSUME NEW t \in Task, Read(t) PROVE LockInv'
  <2>1. Parsed \in Lock \cup {None}
    BY DEF Parsed, LockInv, LockTypeOK
  <2> QED
    BY <1>0, <1>2, <2>1, QuietMove DEF Read, Goto, Waiting, InAttempt
<1>3. ASSUME NEW t \in Task, Reread(t) \/ ClearFails(t) PROVE LockInv'
  BY <1>0, <1>3, QuietMove DEF Reread, ClearFails, Goto, Forget, Waiting, InAttempt
<1>4. ASSUME NEW t \in Task, Recover(t) PROVE LockInv'
  BY <1>0, <1>4, QuietMove DEF Recover, Goto, Waiting, InAttempt
<1>5. CASE UNCHANGED vars
  BY <1>5 DEF vars, LockInv, LockTypeOK, HasCalled, HeldIsHeld, FileIsOwners,
              SharingIsShared, LiveLockHasHolder
<1> QED
  BY <1>1, <1>2, <1>3, <1>4, <1>5, CallInv, CreateInv, WriteInv, JudgeInv, ClearInv,
     LetGoInv, UnlinkInv, EndsInv, GrowOldInv DEF Next, Attempt

\* The invariant carries exclusion: two holders would both own the file.
LEMMA InvExcludes == LockInv => ExclusiveUnlessCleared
  BY DEF LockInv, FileIsOwners, ExclusiveUnlessCleared, Owning

-----------------------------------------------------------------------------
(* The tools use the lock as its callers may                                *)

\* Every step of a tool call, a tracker or a process is a step of the lock or
\* leaves it alone.
LEMMA ToolsUseLock == [ENext]_evars => [Next]_vars
<1> SUFFICES ASSUME [ENext]_evars PROVE [Next]_vars
  OBVIOUS
<1>1. ASSUME NEW t \in Task, ReadContent(t) \/ StartCall(t) PROVE [Next]_vars
  BY <1>1 DEF ReadContent, StartCall, Next
<1>2. ASSUME NEW t \in Task, Progress(t) PROVE [Next]_vars
  BY <1>2 DEF Progress, TrackRead, LockStep, LockFailed, Check, Load, Put, TrackWrite,
              Dispose, Released, Next
<1>3. ASSUME NEW p \in Proc, ProcessEnds(p) PROVE [Next]_vars
  BY <1>3 DEF ProcessEnds, Next
<1>4. CASE GrowOld \/ UNCHANGED evars
  BY <1>4 DEF Next, evars
<1> QED
  BY <1>1, <1>2, <1>3, <1>4 DEF ENext

-----------------------------------------------------------------------------
(* Tool calls                                                               *)

\* A call that waits for the lock has not looked at the file yet, and one
\* that has looked has a handle.
Paced ==
    \A t \in Task :
        /\ pc[t] \in Waiting \cup {"failed"} => at[t] = "called"
        /\ at[t] \in {"checked", "loaded", "written", "settled"} => pc[t] \in Using

\* From the check to the write the file is the one that was checked, as long
\* as the lock keeps everybody else out.
CheckedIsCurrent ==
    cleared \/ shared \/ \A t \in Task : at[t] \in {"checked", "loaded"} => base[t] = disk

EInv == LockInv /\ EditTypeOK /\ Paced /\ CheckedIsCurrent /\ NoLostEdit

\* At first nobody has looked at the file.
LEMMA InitEInv == EInit => EInv
<1> SUFFICES ASSUME EInit PROVE EInv
  OBVIOUS
<1>1. LockInv
  BY InitLockInv DEF EInit
<1>2. EditTypeOK
  <2>1. disk \in Nat /\ last = disk /\ disk <= last
    BY InitiallyAssumption DEF EInit
  <2>2. tracked \in [Proc -> Nat \cup {None}] /\ at \in [Task -> Steps] /\ base \in [Task -> Nat]
    BY DEF EInit, Steps
  <2> QED
    BY <1>1, <2>1, <2>2 DEF EInit, EditTypeOK, LockInv
<1>3. Paced /\ CheckedIsCurrent /\ NoLostEdit
  BY DEF EInit, Init, Paced, CheckedIsCurrent, NoLostEdit, Waiting, InAttempt
<1> QED
  BY <1>1, <1>2, <1>3 DEF EInv

\* A step of an acquire takes a waiting task no further than to a handle or
\* an error.
LEMMA AcquireMoves ==
  ASSUME LockInv, NEW t \in Task, Attempt(t) \/ Throws(t)
  PROVE  /\ pc[t] \in Waiting
         /\ \E point \in Waiting \cup Using \cup {"failed"} : pc' = [pc EXCEPT ![t] = point]
<1>1. CASE Create(t) \/ Write(t) \/ Throws(t)
  BY <1>1 DEF Create, Write, Throws, Starts, Leave, Goto, Waiting, InAttempt, Using
<1>2. CASE Read(t) \/ Reread(t) \/ Clear(t) \/ ClearFails(t)
  BY <1>2 DEF Read, Reread, Clear, ClearFails, Goto, Waiting, InAttempt, Using
<1>3. CASE Judge(t)
  BY <1>3 DEF Judge, ShareOrContend, Leave, Goto, Waiting, InAttempt, Using
<1> QED
  BY <1>1, <1>2, <1>3 DEF Attempt

\* What went wrong with the lock is not forgotten.
LEMMA WrongsStay ==
  ASSUME LockInv, [Next]_vars
  PROVE  (cleared => cleared') /\ (shared => shared')
<1>0. cleared \in BOOLEAN /\ shared \in BOOLEAN
  BY DEF LockInv, LockTypeOK
<1>1. ASSUME NEW t \in Task, Clear(t) \/ Judge(t)
      PROVE  (cleared => cleared') /\ (shared => shared')
  <2>1. CASE Clear(t)
    <3>1. cleared' = (cleared \/ InUse) /\ shared' = shared
      BY <2>1 DEF Clear
    <3> QED
      BY <1>0, <3>1 DEF InUse
  <2>2. CASE Judge(t)
    <3>1. cleared' = cleared /\ (shared' = shared \/ shared' = TRUE)
      BY <2>2 DEF Judge, ShareOrContend
    <3> QED
      BY <1>0, <3>1
  <2> QED
    BY <1>1, <2>1, <2>2
<1>2. CASE \E t \in Task :
          Call(t) \/ Create(t) \/ Write(t) \/ Read(t) \/ Reread(t) \/ ClearFails(t)
  BY <1>2 DEF Call, Create, Write, Read, Reread, ClearFails
<1>3. CASE \E t \in Task : Throws(t) \/ LetGo(t) \/ Unlink(t) \/ Recover(t)
  BY <1>3 DEF Throws, LetGo, Unlink, Recover
<1>4. CASE GrowOld \/ UNCHANGED vars \/ \E p \in Proc : Crash(p) \/ Exit(p)
  BY <1>4 DEF GrowOld, vars, Crash, Exit, End
<1> QED
  BY <1>1, <1>2, <1>3, <1>4 DEF Next, Attempt

\* Unless something went wrong with the lock, one task at a time has a handle.
LEMMA OneUser ==
  ASSUME LockInv, ~cleared, ~shared, NEW t \in Task, NEW u \in Task,
         pc[t] \in Using, pc[u] \in Using
  PROVE  t = u
  BY DEF LockInv, FileIsOwners, SharingIsShared, Using, Owning

\* Steps of the lock under the tools: the file and the trackers stay.
LEMMA LockOnlyInv ==
  ASSUME EInv, [Next]_vars, UNCHANGED <<disk, last, tracked, tool, lost>>, Paced'
  PROVE  EInv'
<1>1. LockInv' /\ LockTypeOK'
  BY NextLockInv DEF EInv, LockInv
<1>2. (cleared => cleared') /\ (shared => shared')
  BY WrongsStay DEF EInv
<1>3. EditTypeOK'
  BY <1>1 DEF EInv, EditTypeOK, tool
<1>4. CheckedIsCurrent' /\ NoLostEdit'
  BY <1>2 DEF EInv, CheckedIsCurrent, NoLostEdit, tool
<1> QED
  BY <1>1, <1>3, <1>4 DEF EInv

\* An acquire that is under way is one of a call that waits for it.
LEMMA LockStepInv ==
  ASSUME EInv, NEW t \in Task, LockStep(t)
  PROVE  EInv'
<1>1. [Next]_vars /\ UNCHANGED <<disk, last, tracked, tool, lost>>
  BY DEF LockStep, Next
<1>2. PICK point \in Waiting \cup Using \cup {"failed"} : pc' = [pc EXCEPT ![t] = point]
  BY AcquireMoves DEF LockStep, EInv
<1>3. pc[t] \in Waiting /\ pc[t] \notin Using /\ at[t] = "called"
  BY AcquireMoves DEF LockStep, EInv, Paced, Waiting, InAttempt, Using
<1>4. Paced'
  BY <1>1, <1>2, <1>3 DEF EInv, Paced, LockInv, LockTypeOK, tool
<1> QED
  BY <1>1, <1>4, LockOnlyInv

\* An unlink is the second half of a release: the call has returned before.
LEMMA ReleasedInv ==
  ASSUME EInv, NEW t \in Task, Released(t)
  PROVE  EInv'
<1>1. [Next]_vars /\ UNCHANGED <<disk, last, tracked, tool, lost>>
  BY DEF Released, Next
<1>2. pc[t] = "releasing" /\ pc' = [pc EXCEPT ![t] = "out"]
  BY DEF Released, Unlink, Goto
<1>3. Paced'
  BY <1>1, <1>2 DEF EInv, Paced, LockInv, LockTypeOK, tool, Waiting, InAttempt, Using
<1> QED
  BY <1>1, <1>3, LockOnlyInv

\* Steps between the lock and the call: t's place and version are t's own,
\* and the file stays.
LEMMA CallStepInv ==
  ASSUME EInv, [Next]_vars, NEW t \in Task,
         NEW s \in {"idle", "called"}, NEW b \in Nat,
         at' = [at EXCEPT ![t] = s], base' = [base EXCEPT ![t] = b],
         UNCHANGED <<disk, last, tracked, lost>>, Paced'
  PROVE  EInv'
<1>1. LockInv' /\ LockTypeOK'
  BY NextLockInv DEF EInv, LockInv
<1>2. (cleared => cleared') /\ (shared => shared')
  BY WrongsStay DEF EInv
<1>3. EditTypeOK'
  BY <1>1 DEF EInv, EditTypeOK, Steps
<1>4. CheckedIsCurrent'
  BY <1>2 DEF EInv, EditTypeOK, CheckedIsCurrent
<1>5. NoLostEdit'
  BY <1>2 DEF EInv, NoLostEdit
<1> QED
  BY <1>1, <1>3, <1>4, <1>5 DEF EInv

\* A call starts by asking for the lock, ends when it lets go of it, and is
\* refused when it did not get it.
LEMMA CallInvE ==
  ASSUME EInv, NEW t \in Task, StartCall(t) \/ LockFailed(t) \/ Dispose(t)
  PROVE  EInv'
<1> USE DEF EInv
<1>1. [Next]_vars /\ UNCHANGED <<disk, last, tracked, lost>>
  BY DEF StartCall, LockFailed, Dispose, Next
<1>2. CASE StartCall(t)
  <2>1. /\ pc' = [pc EXCEPT ![t] = "trying"] /\ at' = [at EXCEPT ![t] = "called"]
        /\ base' = base
    BY <1>2 DEF StartCall, Call, Goto, Step
  <2>2. base' = [base EXCEPT ![t] = base[t]] /\ base[t] \in Nat
    BY <2>1 DEF EditTypeOK
  <2>3. Paced'
    BY <2>1 DEF Paced, LockInv, LockTypeOK, EditTypeOK
  <2> QED
    BY <1>1, <2>1, <2>2, <2>3, CallStepInv
<1>3. CASE LockFailed(t) \/ Dispose(t)
  <2>1. PICK point \in {"out", "releasing"} : pc' = [pc EXCEPT ![t] = point]
    BY <1>3 DEF LockFailed, Recover, Dispose, LetGo, Goto
  <2>2. at' = [at EXCEPT ![t] = "idle"] /\ base' = [base EXCEPT ![t] = 0]
    BY <1>3 DEF LockFailed, Dispose, Done, Step
  <2>3. Paced'
    BY <2>1, <2>2 DEF Paced, LockInv, LockTypeOK, EditTypeOK, Waiting, InAttempt
  <2> QED
    BY <1>1, <2>2, <2>3, CallStepInv
<1> QED
  BY <1>2, <1>3

\* Steps that leave the lock alone: Read, the check, and what follows it.
LEMMA QuietCallInv ==
  ASSUME EInv, NEW t \in Task,
         ReadContent(t) \/ TrackRead(t) \/ Check(t) \/ Load(t) \/ TrackWrite(t)
  PROVE  EInv'
<1> USE DEF EInv
<1>1. UNCHANGED <<vars, disk, last, lost>>
  BY DEF ReadContent, TrackRead, Check, Load, TrackWrite
<1>2. LockInv' /\ LockTypeOK'
  BY <1>1, NextLockInv DEF LockInv
<1>3. tracked' \in [Proc -> Nat \cup {None}]
  BY DEF ReadContent, TrackRead, Check, Load, TrackWrite, EditTypeOK
<1>4. PICK s \in Steps, b \in Nat :
         /\ at' = [at EXCEPT ![t] = s] /\ base' = [base EXCEPT ![t] = b]
         /\ s \in {"checked", "loaded"} => b = disk
         /\ \/ pc[t] \in Using /\ at[t] # "idle"
            \/ pc[t] = "out" /\ s = "reading"
            \/ at[t] = "reading" /\ s = "idle"
  <2>1. disk \in Nat /\ base[t] \in Nat /\ base = [base EXCEPT ![t] = base[t]]
    BY DEF EditTypeOK
  <2>2. CASE ReadContent(t)
    BY <2>1, <2>2 DEF ReadContent, Step, Steps
  <2>3. CASE TrackRead(t)
    BY <2>1, <2>3 DEF TrackRead, Done, Step, Steps
  <2>4. CASE Check(t)
    BY <2>1, <2>4 DEF Check, Step, Steps
  <2>5. CASE Load(t)
    BY <2>1, <2>5 DEF Load, Step, Steps
  <2>6. CASE TrackWrite(t)
    BY <2>1, <2>6 DEF TrackWrite, Step, Steps
  <2> QED
    BY <2>2, <2>3, <2>4, <2>5, <2>6
<1>5. EditTypeOK'
  BY <1>1, <1>2, <1>3, <1>4 DEF EditTypeOK
<1>6. Paced'
  BY <1>1, <1>4 DEF Paced, EditTypeOK, vars, Waiting, InAttempt, Using
<1>7. CheckedIsCurrent' /\ NoLostEdit'
  BY <1>1, <1>4 DEF CheckedIsCurrent, NoLostEdit, EditTypeOK, vars
<1> QED
  BY <1>2, <1>5, <1>6, <1>7

\* The write: while the lock keeps the others out, no other call has a check
\* the write could outdate, and the writer's own still stands.
LEMMA PutInv ==
  ASSUME EInv, NEW t \in Task, Put(t)
  PROVE  EInv'
<1> USE DEF EInv
<1>1. /\ UNCHANGED <<vars, tracked>> /\ pc[t] \in Using /\ at[t] = "loaded"
      /\ base' = [base EXCEPT ![t] = 0]
      /\ \/ /\ last' = last + 1 /\ disk' = last' /\ lost' = (lost \/ disk # base[t])
            /\ at' = [at EXCEPT ![t] = "written"]
         \/ at' = [at EXCEPT ![t] = "settled"] /\ UNCHANGED <<disk, last, lost>>
  BY DEF Put, Step
<1>2. LockInv' /\ LockTypeOK'
  BY <1>1, NextLockInv DEF LockInv
<1>3. EditTypeOK'
  <2>1. disk \in Nat /\ last \in Nat /\ disk <= last /\ lost \in BOOLEAN
    BY DEF EditTypeOK
  <2>2. disk' \in Nat /\ last' \in Nat /\ disk' <= last'
    BY <1>1, <2>1
  <2>3. lost' \in BOOLEAN
    BY <1>1, <2>1
  <2>4. at' \in [Task -> Steps] /\ base' \in [Task -> Nat]
    BY <1>1 DEF EditTypeOK, Steps
  <2> QED
    BY <1>1, <1>2, <2>2, <2>3, <2>4 DEF EditTypeOK
<1>4. Paced'
  BY <1>1 DEF Paced, EditTypeOK, vars
<1>5. CheckedIsCurrent' /\ NoLostEdit'
  <2>1. CASE cleared \/ shared
    BY <1>1, <2>1 DEF CheckedIsCurrent, NoLostEdit, vars
  <2>2. CASE ~cleared /\ ~shared
    <3>1. \A u \in Task \ {t} : at[u] \notin {"checked", "loaded"}
      BY <1>1, <2>2, OneUser DEF Paced
    <3>2. base[t] = disk /\ ~lost
      BY <1>1, <2>2 DEF CheckedIsCurrent, NoLostEdit
    <3> QED
      BY <1>1, <3>1, <3>2 DEF CheckedIsCurrent, NoLostEdit, EditTypeOK
  <2> QED
    BY <2>1, <2>2
<1> QED
  BY <1>2, <1>3, <1>4, <1>5

\* A process that ends takes its calls with it.
LEMMA ProcessEndsInv ==
  ASSUME EInv, NEW p \in Proc, ProcessEnds(p)
  PROVE  EInv'
<1> USE DEF EInv
<1>1. [Next]_vars /\ UNCHANGED <<disk, last, lost>>
  BY DEF ProcessEnds, Next
<1>2. /\ tracked' = [tracked EXCEPT ![p] = None]
      /\ at' = [t \in Task |-> IF ProcOf[t] = p THEN "idle" ELSE at[t]]
      /\ base' = [t \in Task |-> IF ProcOf[t] = p THEN 0 ELSE base[t]]
      /\ pc' = [t \in Task |-> IF ProcOf[t] = p THEN "dead" ELSE pc[t]]
  BY DEF ProcessEnds, Crash, Exit, End
<1>3. LockInv' /\ LockTypeOK'
  BY <1>1, NextLockInv DEF LockInv
<1>4. (cleared => cleared') /\ (shared => shared')
  BY <1>1, WrongsStay
<1>5. EditTypeOK'
  <2>1. tracked' \in [Proc -> Nat \cup {None}]
    BY <1>2 DEF EditTypeOK
  <2>2. at' \in [Task -> Steps] /\ base' \in [Task -> Nat]
    BY <1>2 DEF EditTypeOK, Steps
  <2> QED
    BY <1>1, <1>3, <2>1, <2>2 DEF EditTypeOK
<1>6. Paced'
  BY <1>2 DEF Paced, Waiting, InAttempt
<1>7. CheckedIsCurrent' /\ NoLostEdit'
  BY <1>1, <1>2, <1>4 DEF CheckedIsCurrent, NoLostEdit
<1> QED
  BY <1>3, <1>5, <1>6, <1>7

\* Every step keeps the invariant of the tools.
LEMMA NextEInv == EInv /\ [ENext]_evars => EInv'
<1> SUFFICES ASSUME EInv, [ENext]_evars PROVE EInv'
  OBVIOUS
<1>1. CASE GrowOld /\ UNCHANGED <<disk, last, tracked, tool, lost>>
  BY <1>1, LockOnlyInv DEF GrowOld, Next, EInv, Paced, tool
<1>2. CASE UNCHANGED evars
  BY <1>2, LockOnlyInv DEF evars, vars, EInv, Paced, tool
<1> QED
  BY <1>1, <1>2, CallInvE, QuietCallInv, LockStepInv, PutInv, ReleasedInv, ProcessEndsInv
     DEF ENext, Progress

-----------------------------------------------------------------------------
(* Theorems                                                                 *)

LEMMA LockInductive == Spec => []LockInv
  BY InitLockInv, NextLockInv, PTL DEF Spec

LEMMA EditInductive == ESpec => []EInv
  BY InitEInv, NextEInv, PTL DEF ESpec

\* The tools implement the lock's specification: acquire, release and the
\* exit hook are used as file-lock.ts allows, so what is proved of the lock
\* for any callers holds of these.
THEOREM ToolsRefineLock == ESpec => Spec
<1>1. EInit => Init
  BY DEF EInit
<1> QED
  BY <1>1, ToolsUseLock, PTL DEF ESpec, Spec

\* Every variable of the lock keeps its type, and the judge always has a lock
\* to judge (file-lock.ts attemptAcquire: lastExisting is not null there).
THEOREM LockTypeCorrect == Spec => []LockTypeOK
  BY LockInductive, PTL DEF LockInv

\* However acquirers race on stale and empty files and however processes end,
\* two calls hold the lock only after an acquirer has unlinked one in use.
THEOREM LockExcludes == Spec => []ExclusiveUnlessCleared
  BY LockInductive, InvExcludes, PTL

\* A lock that names a live process is always one its writer still holds and
\* will release: none is leaked.
THEOREM NoLeakedLock == Spec => []LiveLockHasHolder
  BY LockInductive, PTL DEF LockInv

\* Every variable of the tools keeps its type.
THEOREM EditTypeCorrect == ESpec => []EditTypeOK
  BY EditInductive, PTL DEF EInv

\* Edit and Write never replace a version their call had not checked, unless
\* a lock in use was unlinked or a process shared one with itself.
THEOREM NoEditIsLost == ESpec => []NoLostEdit
  BY EditInductive, PTL DEF EInv
=============================================================================
