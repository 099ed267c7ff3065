--------------------------- MODULE CredentialProofs ---------------------------
(***************************************************************************)
(* What the lockfile and the shared credentials promise for any processes, *)
(* tasks, entries and bounds.  Of the lock: its types, exclusion as long   *)
(* as no process has ended, and no lock of a live process without a        *)
(* holder.  Of the credentials: they use the lock as PidLock has it, a     *)
(* refresh token is refused only for a reason, and the store has the pair  *)
(* the server honours, or a task is about to write it.                     *)
(***************************************************************************)
EXTENDS Credential, TLAPS

USE NoneAssumption, ProcOfAssumption, TriesAssumption, CallsAssumption,
    ProviderOfAssumption, GuardedAssumption, ExpiriesAssumption

-----------------------------------------------------------------------------
(* The lock                                                                 *)

\* A lock that names a live process is one its HELD_LOCKS will release.
Tracked == lock \in alive => lock \in held

\* Once a task probes, it has read the pid of some process.
SawHolder == \A t \in Task : pc[t] = "probing" => seen[t] \in Proc

\* While nobody has ended, holding the lock is having one's pid in the file,
\* and no attempt gets as far as unlinking it.
Undisturbed ==
    alive = Proc =>
        /\ \A t \in Task : pc[t] = "holding" => lock = ProcOf[t]
        /\ \A t \in Task : pc[t] # "breaking"
        /\ Exclusive

IInv == TypeOK /\ Tracked /\ SawHolder /\ LiveLockHasHolder /\ Undisturbed

\* At first nobody holds anything and nobody has ended.
LEMMA InitInv == Init => IInv
  BY DEF Init, IInv, TypeOK, Tracked, SawHolder, LiveLockHasHolder,
         Undisturbed, Exclusive, Points, Waiting, InAttempt

\* The two outcomes of a failed attempt: the task waits or goes unlocked.
LEMMA FailedAttempt ==
  ASSUME TypeOK, NEW t \in Task, AttemptFails(t)
  PROVE  /\ tries' \in [Task -> 0..MaxTries]
         /\ pc' = [pc EXCEPT ![t] = "trying"] \/ pc' = [pc EXCEPT ![t] = "unlocked"]
  BY DEF TypeOK, AttemptFails, Goto

\* Steps of one live task that is not a holder and leave the lock alone.
LEMMA QuietStep ==
  ASSUME IInv, NEW t \in Task, pc[t] \notin {"holding", "dead"},
         NEW point \in Points \ {"holding", "dead"},
         pc' = [pc EXCEPT ![t] = point],
         point = "probing" => seen'[t] \in Proc,
         point = "breaking" => alive # Proc,
         seen' \in [Task -> Proc \cup {None}],
         \A u \in Task \ {t} : seen'[u] = seen[u],
         tries' \in [Task -> 0..MaxTries],
         calls' \in [Task -> 0..MaxCalls],
         UNCHANGED <<alive, lock, held>>
  PROVE  IInv'
<1> USE DEF IInv
<1>1. TypeOK'
  BY DEF TypeOK
<1>2. Tracked'
  BY DEF Tracked
<1>3. SawHolder'
  BY DEF SawHolder, TypeOK
<1>4. LiveLockHasHolder'
  BY DEF LiveLockHasHolder, TypeOK
<1>5. Undisturbed'
  BY DEF Undisturbed, Exclusive, TypeOK
<1> QED
  BY <1>1, <1>2, <1>3, <1>4, <1>5

\* Winning the link makes the winner the holder of a lock nobody had.
LEMMA LinkWinsInv ==
  ASSUME IInv, NEW t \in Task, LinkWins(t)
  PROVE  IInv'
<1> USE DEF IInv, LinkWins, Goto
<1>1. ProcOf[t] \in alive
  BY DEF TypeOK
<1>2. TypeOK'
  BY <1>1 DEF TypeOK, Points
<1>3. Tracked'
  BY DEF Tracked
<1>4. SawHolder'
  BY DEF SawHolder, TypeOK
<1>5. LiveLockHasHolder'
  BY DEF LiveLockHasHolder, TypeOK
<1>6. Undisturbed'
  <2> SUFFICES ASSUME alive' = Proc PROVE Undisturbed'
    BY DEF Undisturbed
  <2>1. \A u \in Task : pc[u] # "holding" /\ pc[u] # "breaking"
    BY DEF Undisturbed
  <2>2. pc' = [pc EXCEPT ![t] = "holding"] /\ lock' = ProcOf[t]
    OBVIOUS
  <2> QED
    BY <2>1, <2>2 DEF Undisturbed, Exclusive, TypeOK
<1> QED
  BY <1>2, <1>3, <1>4, <1>5, <1>6

\* Breaking a lock presupposes that some process has ended.
LEMMA BreakInv ==
  ASSUME IInv, NEW t \in Task, Break(t)
  PROVE  IInv'
<1> USE DEF IInv, Break
<1>1. PICK point \in {"trying", "unlocked"} : pc' = [pc EXCEPT ![t] = point]
  BY FailedAttempt
<1>2. TypeOK'
  BY <1>1, FailedAttempt DEF TypeOK, Points, Waiting, InAttempt
<1>3. Tracked' /\ LiveLockHasHolder'
  BY DEF Tracked, LiveLockHasHolder, TypeOK
<1>4. SawHolder'
  BY <1>1 DEF SawHolder, TypeOK
<1>5. Undisturbed'
  BY DEF Undisturbed
<1> QED
  BY <1>2, <1>3, <1>4, <1>5

\* A release unlinks its own lock, or one of a process other than its own.
LEMMA ReleaseInv ==
  ASSUME IInv, NEW t \in Task, Release(t)
  PROVE  IInv'
<1> USE DEF IInv, Release, Goto
<1>1. TypeOK'
  BY DEF TypeOK, Points, Waiting
<1>2. Tracked'
  BY DEF Tracked, TypeOK
<1>3. SawHolder'
  BY DEF SawHolder, TypeOK
<1>4. LiveLockHasHolder'
  BY DEF LiveLockHasHolder, Tracked, TypeOK
<1>5. Undisturbed'
  BY DEF Undisturbed, Exclusive, Tracked, TypeOK
<1> QED
  BY <1>1, <1>2, <1>3, <1>4, <1>5

\* An end takes its own holders with it, and its lock names no live process.
LEMMA EndsInv ==
  ASSUME IInv, NEW p \in alive, Ends(p),
         lock' = lock \/ lock' = None
  PROVE  IInv'
<1> USE DEF IInv, Ends
<1>0. alive' # Proc /\ p \in Proc
  BY DEF TypeOK
<1>1. TypeOK'
  BY DEF TypeOK, Points, Waiting
<1>2. Tracked'
  BY DEF Tracked, TypeOK
<1>3. SawHolder'
  BY DEF SawHolder, TypeOK
<1>4. LiveLockHasHolder'
  BY DEF LiveLockHasHolder, TypeOK
<1>5. Undisturbed'
  BY <1>0 DEF Undisturbed
<1> QED
  BY <1>1, <1>2, <1>3, <1>4, <1>5

\* Every step keeps the invariant.
LEMMA NextInv == IInv /\ [Next]_vars => IInv'
<1> SUFFICES ASSUME IInv, [Next]_vars PROVE IInv'
  OBVIOUS
<1> USE DEF IInv
<1>1. ASSUME NEW t \in Task, Call(t) PROVE IInv'
  <2>1. tries' \in [Task -> 0..MaxTries] /\ calls' \in [Task -> 0..MaxCalls]
    BY <1>1 DEF Call, TypeOK
  <2>2. pc[t] = "out" /\ pc' = [pc EXCEPT ![t] = "trying"]
    BY <1>1 DEF Call, Goto
  <2>3. seen' \in [Task -> Proc \cup {None}] /\ UNCHANGED <<alive, lock, held, seen>>
    BY <1>1 DEF Call, TypeOK
  <2> QED
    BY <2>1, <2>2, <2>3, QuietStep DEF Points, Waiting, InAttempt
<1>2. ASSUME NEW t \in Task, LinkThrows(t) PROVE IInv'
  BY <1>2, QuietStep DEF LinkThrows, Goto, TypeOK, Points, Waiting, InAttempt
<1>3. ASSUME NEW t \in Task, LinkLoses(t) PROVE IInv'
  BY <1>3, QuietStep DEF LinkLoses, Goto, TypeOK, Points, Waiting, InAttempt
<1>4. ASSUME NEW t \in Task, FinishUnlocked(t) PROVE IInv'
  BY <1>4, QuietStep DEF FinishUnlocked, Goto, TypeOK, Points, Waiting, InAttempt
<1>5. ASSUME NEW t \in Task, Read(t) PROVE IInv'
  <2>1. CASE lock = None
    <3>1. PICK point \in {"trying", "unlocked"} : pc' = [pc EXCEPT ![t] = point]
      BY <1>5, <2>1, FailedAttempt DEF Read
    <3> QED
      BY <1>5, <2>1, <3>1, FailedAttempt, QuietStep
         DEF Read, TypeOK, Points, Waiting, InAttempt
  <2>2. CASE lock # None
    BY <1>5, <2>2, QuietStep DEF Read, Goto, TypeOK, Points, Waiting, InAttempt
  <2> QED
    BY <2>1, <2>2
<1>6. ASSUME NEW t \in Task, Probe(t) PROVE IInv'
  <2>1. CASE seen[t] \in alive
    <3>1. PICK point \in {"trying", "unlocked"} : pc' = [pc EXCEPT ![t] = point]
      BY <1>6, <2>1, FailedAttempt DEF Probe
    <3> QED
      BY <1>6, <2>1, <3>1, FailedAttempt, QuietStep
         DEF Probe, TypeOK, Points, Waiting, InAttempt
  <2>2. CASE seen[t] \notin alive
    <3>1. alive # Proc
      BY <1>6, <2>2 DEF Probe, SawHolder
    <3> QED
      BY <1>6, <2>2, <3>1, QuietStep
         DEF Probe, Goto, TypeOK, Points, Waiting, InAttempt
  <2> QED
    BY <2>1, <2>2
<1>7. ASSUME NEW p \in Proc, Crash(p) \/ Exit(p) PROVE IInv'
  BY <1>7, EndsInv DEF Crash, Exit
<1>8. CASE UNCHANGED vars
  BY <1>8 DEF vars, TypeOK, Tracked, SawHolder, LiveLockHasHolder,
             Undisturbed, Exclusive
<1> QED
  BY <1>1, <1>2, <1>3, <1>4, <1>5, <1>6, <1>7, <1>8,
     LinkWinsInv, BreakInv, ReleaseInv DEF Next, Attempt

LEMMA Inductive == Spec => []IInv
  BY InitInv, NextInv, PTL DEF Spec


\* Every variable of the lock keeps its type.
THEOREM LockTypeCorrect == Spec => []TypeOK
<1>1. IInv => TypeOK
  BY DEF IInv
<1> QED
  BY <1>1, Inductive, PTL

\* As long as every process lives, at most one task holds the lock, however
\* many tasks each process runs and however their system calls interleave.
THEOREM MutualExclusion == Spec => []ExclusiveWhileAllLive
<1>1. IInv => ExclusiveWhileAllLive
  BY DEF IInv, Undisturbed, ExclusiveWhileAllLive
<1> QED
  BY <1>1, Inductive, PTL

\* A lock naming a live process is always in use: no crash, race or theft
\* of a lock makes the others wait for a lock that nobody holds.
THEOREM NoLeakedLock == Spec => []LiveLockHasHolder
<1>1. IInv => LiveLockHasHolder
  BY DEF IInv
<1> QED
  BY <1>1, Inductive, PTL

-----------------------------------------------------------------------------
(* The lock under the refreshes                                             *)

\* A step of the refreshes is a step of the lock, or none.
LEMMA StepsRefineLock == [CNext]_cvars => [Next]_vars
<1> SUFFICES ASSUME [CNext]_cvars PROVE [Next]_vars
  OBVIOUS
<1>1. ASSUME NEW t \in Task,
             Call(t) \/ LinkThrows(t) \/ Attempt(t) \/ Release(t) \/ FinishUnlocked(t)
      PROVE  Next
  BY <1>1 DEF Next
<1>2. ASSUME NEW p \in Proc, Crash(p) \/ Exit(p) PROVE Next
  BY <1>2 DEF Next
<1>3. CASE UNCHANGED cvars
  BY <1>3 DEF cvars
<1>4. ASSUME NEW t \in Task,
             \/ AskForLock(t) \/ LockStep(t) \/ ReadUnderLock(t) \/ LetGo(t)
             \/ Unauthorized(t) \/ Authorized(t)
             \/ ServerAnswers(t) \/ NetworkFails(t) \/ Load(t) \/ Save(t)
      PROVE  [Next]_vars
  BY <1>1, <1>4 DEF AskForLock, LockStep, ReadUnderLock, LetGo, Unauthorized, Authorized,
                    ServerAnswers, NetworkFails, Load, Save
<1>5. ASSUME NEW q \in Provider, Expire(q) PROVE [Next]_vars
  BY <1>5 DEF Expire
<1>6. ASSUME NEW p \in Proc, ProcessEnds(p) PROVE [Next]_vars
  BY <1>2, <1>6 DEF ProcessEnds
<1> QED
  BY <1>3, <1>4, <1>5, <1>6 DEF CNext

\* The tasks that refresh use the lock as PidLock specifies it.
THEOREM RefreshRefinesLock == CSpec => Spec
<1>1. CInit => Init
  BY DEF CInit
<1> QED
  BY <1>1, StepsRefineLock, PTL DEF CSpec, Spec

LEMMA LockInvariance == CSpec => []IInv
BY RefreshRefinesLock, Inductive, PTL

-----------------------------------------------------------------------------
(* The inductive invariant                                                  *)

RefreshTypes ==
    /\ store \in [Provider -> Nat] /\ issued \in [Provider -> Nat]
    /\ valid \in [Provider -> BOOLEAN]
    /\ token \in [Task -> Nat] /\ reply \in [Task -> Nat]
    /\ at \in [Task -> Steps]
    /\ image \in [Task -> [Provider -> Nat]]
    /\ lost \in SUBSET Provider /\ undone \in SUBSET Provider /\ refused \in SUBSET Task
    /\ breached \in BOOLEAN

\* A guarded task refreshes between taking the lock and letting it go, also
\* when it had to do without; a send never asks for the lock.
Inside ==
    \A t \in Task :
        IF t \in Guarded THEN at[t] # "idle" => pc[t] \in {"holding", "unlocked", "dead"}
                         ELSE pc[t] \in {"out", "dead"}

\* Until it is breached the lock names its one holder, and HELD_LOCKS as well.
Intact ==
    ~breached =>
        /\ \A t \in Task : pc[t] # "unlocked" /\ (pc[t] = "holding" => lock = ProcOf[t])
        /\ held \subseteq {lock}
        /\ Exclusive

Bears(t) == at[t] \in {"granted", "saving"}

\* The pair a process takes with it is lost.
BornePairIsLost == \A t \in Task : pc[t] = "dead" /\ Bears(t) => ProviderOf[t] \in lost

\* One rotation at a time: while a task bears a new pair, which is the one the
\* server honours, no request carries a token the server would rotate again.
Rotation(q) ==
    /\ \A t \in Task : ProviderOf[t] = q /\ at[t] = "sent" => reply[t] <= store[q]
    /\ \A t \in Task : ProviderOf[t] = q /\ Bears(t) => reply[t] = issued[q] /\ store[q] < issued[q]
    /\ \A t, u \in Task : ProviderOf[t] = q /\ Bears(t) /\ ProviderOf[u] = q /\ Bears(u) => t = u
    /\ store[q] = issued[q] \/ \E t \in Task : ProviderOf[t] = q /\ Bears(t)

Rotations == \A q \in Provider \ (lost \cup undone) : Rotation(q)

\* An entry nothing has happened to.
Sound(q) == q \notin lost \cup undone /\ ~breached /\ ~Contended(q)

\* What a live task has sent for such an entry is what the server honours.
SentIsHonoured ==
    \A t \in Task : at[t] = "sent" /\ pc[t] # "dead" /\ Sound(ProviderOf[t])
                        => reply[t] = issued[ProviderOf[t]]

CInv ==
    /\ RefreshTypes /\ Inside /\ Intact /\ BornePairIsLost
    /\ Rotations /\ SentIsHonoured /\ RefusedOnlyAfterLoss

LEMMA CInitInv == CInit => CInv
<1> SUFFICES ASSUME CInit PROVE CInv
  OBVIOUS
<1>1. RefreshTypes
  BY DEF CInit, RefreshTypes, Steps
<1>2. Inside /\ BornePairIsLost /\ SentIsHonoured /\ RefusedOnlyAfterLoss
  BY DEF CInit, Init, Inside, BornePairIsLost, Bears, SentIsHonoured, RefusedOnlyAfterLoss
<1>3. Intact
  BY DEF CInit, Init, Intact, Exclusive
<1>4. Rotations
  BY DEF CInit, Rotations, Rotation, Bears
<1> QED
  BY <1>1, <1>2, <1>3, <1>4 DEF CInv

-----------------------------------------------------------------------------
(* The lock stays intact                                                    *)

LEMMA LiveTasks ==
  ASSUME IInv, NEW t \in Task
  PROVE  /\ ProcOf[t] \in Proc /\ pc[t] \in Points
         /\ pc[t] # "dead" => ProcOf[t] \in alive
         /\ held \subseteq alive /\ alive \subseteq Proc
BY DEF IInv, TypeOK

\* The tasks that hold the lock or go without it stay the same.
LEMMA SameHolders ==
  ASSUME Intact, breached' = breached, UNCHANGED <<lock, held>>,
         \A t \in Task : pc'[t] \in {"holding", "unlocked"} => pc'[t] = pc[t]
  PROVE  Intact'
BY DEF Intact, Exclusive

LEMMA LockStepIntact ==
  ASSUME IInv, Intact, NEW t \in Task, LockStep(t)
  PROVE  Intact'
<1>0. /\ pc \in [Task -> Points] /\ ProcOf[t] \in Proc /\ held \subseteq alive /\ alive \subseteq Proc
      /\ ProcOf \in [Task -> Proc]
  BY DEF IInv, TypeOK
<1> SUFFICES ASSUME ~breached' PROVE Intact'
  BY DEF Intact
<1>1. ~breached /\ pc'[t] # "unlocked" /\ ~(pc[t] = "breaking" /\ lock \in alive)
  BY DEF LockStep
<1>2. /\ \A u \in Task : pc[u] # "unlocked" /\ (pc[u] = "holding" => lock = ProcOf[u])
      /\ held \subseteq {lock} /\ Exclusive
  BY <1>1 DEF Intact
<1>3. CASE LinkWins(t)
  <2>1. lock = None /\ lock' = ProcOf[t] /\ held' = held \cup {ProcOf[t]}
        /\ pc' = [pc EXCEPT ![t] = "holding"]
    BY <1>3 DEF LinkWins, Goto
  <2>2. \A u \in Task : pc[u] # "holding"
    BY <1>0, <1>2, <2>1
  <2>3. held = {}
    BY <1>0, <1>2, <2>1
  <2> QED
    BY <1>0, <1>2, <2>1, <2>2, <2>3 DEF Intact, Exclusive
<1>4. CASE Break(t)
  <2>1. lock \notin alive /\ lock' = None /\ held' = held
    BY <1>1, <1>4 DEF Break
  <2>2. \A u \in Task : pc[u] # "holding"
    BY <1>2, <2>1, LiveTasks
  <2>3. held = {}
    BY <1>0, <1>2, <2>1
  <2>4. \A u \in Task : pc'[u] # "holding"
    BY <1>0, <1>4, <2>2 DEF Break, AttemptFails, Goto
  <2>5. \A u \in Task : pc'[u] # "unlocked"
    BY <1>0, <1>1, <1>2, <1>4 DEF Break, AttemptFails, Goto
  <2> QED
    BY <2>1, <2>3, <2>4, <2>5 DEF Intact, Exclusive
<1>5. CASE LinkLoses(t) \/ LinkThrows(t) \/ Read(t) \/ Probe(t)
  <2>1. UNCHANGED <<lock, held>>
    BY <1>5 DEF LinkLoses, LinkThrows, Read, Probe
  <2>2. PICK point \in {"reading", "out", "trying", "unlocked", "probing", "breaking"} :
            pc' = [pc EXCEPT ![t] = point]
    BY <1>5 DEF LinkLoses, LinkThrows, Read, Probe, AttemptFails, Goto
  <2>3. \A u \in Task : pc'[u] # "unlocked" /\ (pc'[u] = "holding" => pc[u] = "holding")
    BY <1>0, <1>1, <1>2, <2>2
  <2> QED
    BY <1>2, <2>1, <2>3 DEF Intact, Exclusive
<1> QED
  BY <1>3, <1>4, <1>5 DEF LockStep, Attempt

LEMMA LetGoIntact ==
  ASSUME IInv, Intact, NEW t \in Task, Release(t) \/ FinishUnlocked(t), breached' = breached
  PROVE  Intact'
<1>0. pc \in [Task -> Points]
  BY DEF IInv, TypeOK
<1> SUFFICES ASSUME ~breached PROVE Intact'
  BY DEF Intact
<1>1. /\ \A u \in Task : pc[u] # "unlocked" /\ (pc[u] = "holding" => lock = ProcOf[u])
      /\ held \subseteq {lock} /\ Exclusive
  BY DEF Intact
<1>2. pc[t] = "holding" /\ pc' = [pc EXCEPT ![t] = "out"] /\ held' = held \ {ProcOf[t]}
  BY <1>1 DEF Release, FinishUnlocked, Goto
<1>3. \A u \in Task : pc'[u] # "holding" /\ pc'[u] # "unlocked"
  BY <1>0, <1>1, <1>2 DEF Exclusive
<1>4. held' = {}
  BY <1>1, <1>2
<1> QED
  BY <1>3, <1>4 DEF Intact, Exclusive

LEMMA EndsIntact ==
  ASSUME IInv, Intact, NEW p \in Proc, Crash(p) \/ Exit(p), breached' = breached
  PROVE  Intact'
<1>0. ProcOf \in [Task -> Proc]
  OBVIOUS
<1> SUFFICES ASSUME ~breached PROVE Intact'
  BY DEF Intact
<1>1. /\ \A u \in Task : pc[u] # "unlocked" /\ (pc[u] = "holding" => lock = ProcOf[u])
      /\ held \subseteq {lock} /\ Exclusive
  BY DEF Intact
<1>2. /\ held' = held \ {p}
      /\ pc' = [u \in Task |-> IF ProcOf[u] = p THEN "dead" ELSE pc[u]]
      /\ lock' = lock \/ (p \in held /\ lock' = None)
  BY DEF Crash, Exit, Ends
<1>3. \A u \in Task : pc'[u] # "unlocked"
                      /\ (pc'[u] = "holding" => pc[u] = "holding" /\ ProcOf[u] # p)
  BY <1>1, <1>2
<1>4. CASE lock' = lock
  BY <1>1, <1>2, <1>3, <1>4 DEF Intact, Exclusive
<1>5. CASE p \in held /\ lock' = None
  <2>1. lock = p /\ held' = {}
    BY <1>1, <1>2, <1>5
  <2>2. \A u \in Task : pc'[u] # "holding"
    BY <1>1, <1>3, <2>1
  <2> QED
    BY <1>3, <2>1, <2>2 DEF Intact, Exclusive
<1> QED
  BY <1>2, <1>4, <1>5
-----------------------------------------------------------------------------
(* The refreshes                                                            *)

\* A step of the lock moves no refresh, unless the process ends.
LEMMA LockOnlyStep ==
  ASSUME CInv, UNCHANGED <<store, issued, valid, refresh, lost, undone, refused>>,
         breached' \in BOOLEAN, breached => breached',
         \A t \in Task : pc'[t] = "dead" => pc[t] = "dead",
         \A t \in Task : pc[t] = "dead" => pc'[t] = "dead"
  PROVE  RefreshTypes' /\ BornePairIsLost' /\ Rotations' /\ SentIsHonoured' /\ RefusedOnlyAfterLoss'
<1> USE DEF refresh
<1>1. RefreshTypes'
  BY DEF CInv, RefreshTypes
<1>2. BornePairIsLost'
  BY DEF CInv, BornePairIsLost, Bears
<1>3. Rotations'
  BY DEF CInv, Rotations, Rotation, Bears
<1>4. SentIsHonoured'
  BY DEF CInv, SentIsHonoured, Sound, Contended
<1>5. RefusedOnlyAfterLoss'
  BY DEF CInv, RefusedOnlyAfterLoss, Contended
<1> QED
  BY <1>1, <1>2, <1>3, <1>4, <1>5

\* A refresh moves among the states in which it bears and asks nothing.
LEMMA QuietRefresh ==
  ASSUME CInv, NEW t \in Task, ~Bears(t),
         NEW s \in {"idle", "adopted", "settled"}, at' = [at EXCEPT ![t] = s],
         UNCHANGED <<store, server, reply, image, lost, undone, breached, refused>>,
         token' \in [Task -> Nat],
         \A u \in Task : pc'[u] = "dead" <=> pc[u] = "dead"
  PROVE  RefreshTypes' /\ BornePairIsLost' /\ Rotations' /\ SentIsHonoured' /\ RefusedOnlyAfterLoss'
<1> USE DEF server
<1>0. at \in [Task -> Steps]
  BY DEF CInv, RefreshTypes
<1>1. RefreshTypes'
  BY <1>0 DEF CInv, RefreshTypes, Steps
<1>2. \A u \in Task : /\ (Bears(u))' <=> Bears(u)
                      /\ at'[u] = "sent" => at[u] = "sent"
  BY <1>0 DEF Bears
<1>3. BornePairIsLost'
  BY <1>2 DEF CInv, BornePairIsLost
<1>4. Rotations'
  <2> SUFFICES ASSUME NEW q \in Provider, q \notin lost \cup undone PROVE Rotation(q)'
    BY DEF Rotations
  <2>1. Rotation(q)
    BY DEF CInv, Rotations
  <2> QED
    BY <1>2, <2>1 DEF Rotation
<1>5. SentIsHonoured'
  BY <1>2 DEF CInv, SentIsHonoured, Sound, Contended
<1>6. RefusedOnlyAfterLoss'
  BY DEF CInv, RefusedOnlyAfterLoss, Contended
<1> QED
  BY <1>1, <1>3, <1>4, <1>5, <1>6

\* For a sound entry, at most one task is between asking and saving, and when
\* one may ask, the store has the pair the server honours.
LEMMA OneAtATime ==
  ASSUME IInv, CInv, NEW t \in Task, NEW u \in Task, ProviderOf[t] = ProviderOf[u],
         Sound(ProviderOf[t]),
         t \in Guarded => pc[t] \in {"holding", "unlocked"}, pc[t] # "dead",
         at[u] # "idle", pc[u] # "dead"
  PROVE  t = u
<1> SUFFICES ASSUME t # u PROVE FALSE
  OBVIOUS
<1>1. t \in Guarded /\ u \in Guarded
  BY DEF Sound, Contended
<1>2. pc[t] = "holding" /\ pc[u] = "holding"
  BY <1>1 DEF CInv, Inside, Intact, Sound
<1> QED
  BY <1>2 DEF CInv, Intact, Exclusive, Sound

\* A request is sent with the refresh token of the store.
LEMMA SendKeeps ==
  ASSUME IInv, CInv, NEW t \in Task, ~Bears(t), pc[t] # "dead",
         t \in Guarded => pc[t] \in {"holding", "unlocked"},
         Send(t, Stored(t)), UNCHANGED <<vars, store, server, image, history>>
  PROVE  RefreshTypes' /\ BornePairIsLost' /\ Rotations' /\ SentIsHonoured' /\ RefusedOnlyAfterLoss'
<1> USE DEF server, history
<1>0. /\ at \in [Task -> Steps] /\ reply \in [Task -> Nat] /\ store \in [Provider -> Nat]
      /\ issued \in [Provider -> Nat] /\ ProviderOf[t] \in Provider
      /\ Stored(t) = store[ProviderOf[t]] /\ Stored(t) \in Nat
  BY DEF CInv, RefreshTypes, Stored
<1>1. /\ at' = [at EXCEPT ![t] = "sent"] /\ reply' = [reply EXCEPT ![t] = Stored(t)]
      /\ token' = token /\ pc' = pc
  BY DEF Send, Step, vars
<1>2. RefreshTypes'
  BY <1>0, <1>1 DEF CInv, RefreshTypes, Steps
<1>3. \A u \in Task : /\ (Bears(u))' <=> Bears(u)
                      /\ u # t => at'[u] = at[u] /\ reply'[u] = reply[u]
  BY <1>0, <1>1 DEF Bears
<1>4. BornePairIsLost'
  BY <1>1, <1>3 DEF CInv, BornePairIsLost
<1>5. Rotations'
  <2> SUFFICES ASSUME NEW q \in Provider, q \notin lost \cup undone PROVE Rotation(q)'
    BY DEF Rotations
  <2>1. Rotation(q)
    BY DEF CInv, Rotations
  <2>2. \A u \in Task : ProviderOf[u] = q /\ at'[u] = "sent" => reply'[u] <= store[q]
    BY <1>0, <1>1, <1>3, <2>1 DEF Rotation
  <2>3. \A u \in Task : Bears(u) => reply'[u] = reply[u]
    BY <1>3
  <2> QED
    BY <1>3, <2>1, <2>2, <2>3 DEF Rotation
<1>6. SentIsHonoured'
  <2> SUFFICES ASSUME NEW u \in Task, at'[u] = "sent", pc[u] # "dead", Sound(ProviderOf[u])
               PROVE  reply'[u] = issued[ProviderOf[u]]
    BY <1>1 DEF SentIsHonoured, Sound, Contended
  <2>1. CASE u # t
    BY <1>3, <2>1 DEF CInv, SentIsHonoured
  <2>2. CASE u = t
    <3>1. Rotation(ProviderOf[t])
      BY <1>0, <2>2 DEF CInv, Rotations, Sound
    <3>2. ASSUME NEW w \in Task, ProviderOf[w] = ProviderOf[t], Bears(w) PROVE FALSE
      <4>1. pc[w] # "dead"
        BY <2>2, <3>2 DEF CInv, BornePairIsLost, Sound
      <4>2. at[w] # "idle"
        BY <3>2 DEF Bears
      <4>3. t = w
        BY <2>2, <3>2, <4>1, <4>2, OneAtATime
      <4> QED
        BY <3>2, <4>3
    <3>3. store[ProviderOf[t]] = issued[ProviderOf[t]]
      BY <3>1, <3>2 DEF Rotation
    <3> QED
      BY <1>0, <1>1, <2>2, <3>3
  <2> QED
    BY <2>1, <2>2
<1>7. RefusedOnlyAfterLoss'
  BY DEF CInv, RefusedOnlyAfterLoss, Contended
<1> QED
  BY <1>2, <1>4, <1>5, <1>6, <1>7
\* The server rotates for the one request that carries the pair it honours.
LEMMA GrantKeeps ==
  ASSUME IInv, CInv, NEW t \in Task, ServerAnswers(t), reply[t] = issued[ProviderOf[t]]
  PROVE  RefreshTypes' /\ BornePairIsLost' /\ Rotations' /\ SentIsHonoured' /\ RefusedOnlyAfterLoss'
<1> DEFINE q == ProviderOf[t]
<1>0. /\ at \in [Task -> Steps] /\ reply \in [Task -> Nat] /\ store \in [Provider -> Nat]
      /\ issued \in [Provider -> Nat] /\ valid \in [Provider -> BOOLEAN]
      /\ q \in Provider /\ lost \in SUBSET Provider
  BY DEF CInv, RefreshTypes
<1>1. /\ at[t] = "sent" /\ at' = [at EXCEPT ![t] = "granted"]
      /\ issued' = [issued EXCEPT ![q] = issued[q] + 1]
      /\ valid' = [valid EXCEPT ![q] = TRUE]
      /\ reply' = [reply EXCEPT ![t] = reply[t] + 1]
      /\ lost' = IF pc[t] = "dead" THEN lost \cup {q} ELSE lost
      /\ UNCHANGED <<vars, store, token, image, undone, breached, refused>>
  BY DEF ServerAnswers, Step
<1> HIDE DEF q
<1>2. /\ at' \in [Task -> Steps] /\ reply' \in [Task -> Nat] /\ issued' \in [Provider -> Nat]
      /\ valid' \in [Provider -> BOOLEAN] /\ lost' \in SUBSET Provider
  BY <1>0, <1>1 DEF Steps
<1>3. RefreshTypes'
  BY <1>1, <1>2 DEF CInv, RefreshTypes
<1>4. /\ \A u \in Task : u # t => at'[u] = at[u] /\ reply'[u] = reply[u] /\ ((Bears(u))' <=> Bears(u))
      /\ at'[t] = "granted" /\ reply'[t] = reply[t] + 1 /\ issued'[q] = issued[q] + 1
      /\ \A r \in Provider : r # q => issued'[r] = issued[r]
      /\ pc' = pc /\ lost \subseteq lost'
  BY <1>0, <1>1 DEF Bears, vars
<1>5. BornePairIsLost'
  BY <1>1, <1>4 DEF CInv, BornePairIsLost, q
<1>6. Rotations'
  <2> SUFFICES ASSUME NEW r \in Provider, r \notin lost' \cup undone' PROVE Rotation(r)'
    BY DEF Rotations
  <2>1. Rotation(r)
    BY <1>1, <1>4 DEF CInv, Rotations
  <2>2. CASE r # q
    <3>1. \A u \in Task : ProviderOf[u] = r => u # t
      BY <2>2 DEF q
    <3> QED
      BY <1>1, <1>4, <2>1, <2>2, <3>1 DEF Rotation
  <2>3. CASE r = q
    <3>1. reply[t] <= store[q] /\ reply[t] = issued[q] /\ ProviderOf[t] = q
      BY <1>1, <2>1, <2>3 DEF Rotation, q
    <3>2. \A u \in Task : ProviderOf[u] = q => ~Bears(u)
      BY <1>0, <2>1, <2>3, <3>1 DEF Rotation
    <3>3. store[q] = issued[q]
      BY <2>1, <2>3, <3>2 DEF Rotation
    <3>4. \A u \in Task : ProviderOf[u] = q /\ (Bears(u))' => u = t
      BY <1>4, <3>2
    <3>5. (Bears(t))' /\ reply'[t] = issued'[q] /\ store'[q] < issued'[q]
      BY <1>0, <1>1, <1>4, <3>1, <3>3 DEF Bears
    <3>6. \A u \in Task : ProviderOf[u] = q /\ at'[u] = "sent" => reply'[u] <= store'[q]
      BY <1>1, <1>4, <2>1, <2>3 DEF Rotation
    <3> QED
      BY <2>3, <3>1, <3>4, <3>5, <3>6 DEF Rotation
  <2> QED
    BY <2>2, <2>3
<1>7. SentIsHonoured'
  <2> SUFFICES ASSUME NEW u \in Task, at'[u] = "sent", pc[u] # "dead", Sound(ProviderOf[u])'
               PROVE  reply'[u] = issued'[ProviderOf[u]]
    BY <1>4 DEF SentIsHonoured
  <2>1. u # t /\ at[u] = "sent" /\ Sound(ProviderOf[u])
    BY <1>1, <1>4 DEF Sound, Contended
  <2>2. CASE ProviderOf[u] = q
    <3>1. pc[t] # "dead"
      BY <1>1, <2>2 DEF Sound
    <3>2. at[t] # "idle" /\ at[u] # "idle"
      BY <1>1, <2>1
    <3>3. t \in Guarded => pc[t] \in {"holding", "unlocked"}
      BY <3>1, <3>2 DEF CInv, Inside
    <3>4. t = u
      BY <2>1, <2>2, <3>1, <3>2, <3>3, OneAtATime DEF q
    <3> QED
      BY <2>1, <3>4
  <2>3. CASE ProviderOf[u] # q
    BY <1>4, <2>1, <2>3 DEF CInv, SentIsHonoured
  <2> QED
    BY <2>2, <2>3
<1>8. RefusedOnlyAfterLoss'
  BY <1>1, <1>4 DEF CInv, RefusedOnlyAfterLoss, Contended
<1> QED
  BY <1>3, <1>5, <1>6, <1>7, <1>8

\* A refusal has a reason.
LEMMA RefuseKeeps ==
  ASSUME IInv, CInv, NEW t \in Task, ServerAnswers(t), reply[t] # issued[ProviderOf[t]]
  PROVE  RefreshTypes' /\ BornePairIsLost' /\ Rotations' /\ SentIsHonoured' /\ RefusedOnlyAfterLoss'
<1>1. /\ at[t] = "sent" /\ at' = [at EXCEPT ![t] = "settled"]
      /\ refused' = IF pc[t] = "dead" THEN refused ELSE refused \cup {t}
      /\ UNCHANGED <<vars, store, issued, valid, reply, token, image, lost, undone, breached>>
  BY DEF ServerAnswers, Step
<1>2. at \in [Task -> Steps] /\ refused' \in SUBSET Task
  BY <1>1 DEF CInv, RefreshTypes
<1>3. RefreshTypes'
  BY <1>1, <1>2 DEF CInv, RefreshTypes, Steps
<1>4. \A u \in Task : /\ (Bears(u))' <=> Bears(u)
                      /\ at'[u] = "sent" => at[u] = "sent"
  BY <1>1, <1>2 DEF Bears
<1>5. BornePairIsLost'
  BY <1>1, <1>4 DEF CInv, BornePairIsLost, vars
<1>6. Rotations'
  <2> SUFFICES ASSUME NEW q \in Provider, q \notin lost \cup undone PROVE Rotation(q)'
    BY <1>1 DEF Rotations
  <2>1. Rotation(q)
    BY DEF CInv, Rotations
  <2> QED
    BY <1>1, <1>4, <2>1 DEF Rotation
<1>7. SentIsHonoured'
  BY <1>1, <1>4 DEF CInv, SentIsHonoured, Sound, Contended, vars
<1>8. pc[t] # "dead" => ~Sound(ProviderOf[t])
  BY <1>1 DEF CInv, SentIsHonoured
<1>9. RefusedOnlyAfterLoss'
  BY <1>1, <1>8 DEF CInv, RefusedOnlyAfterLoss, Sound, Contended
<1> QED
  BY <1>3, <1>5, <1>6, <1>7, <1>9

\* The network fails, and takes a pair that was granted with it.
LEMMA FailKeeps ==
  ASSUME IInv, CInv, NEW t \in Task, NetworkFails(t)
  PROVE  RefreshTypes' /\ BornePairIsLost' /\ Rotations' /\ SentIsHonoured' /\ RefusedOnlyAfterLoss'
<1>1. /\ at[t] \in {"sent", "granted"} /\ at' = [at EXCEPT ![t] = "settled"]
      /\ lost' = IF at[t] = "granted" THEN lost \cup {ProviderOf[t]} ELSE lost
      /\ UNCHANGED <<vars, store, issued, valid, token, reply, image, undone, breached, refused>>
  BY DEF NetworkFails, Step, server
<1>2. at \in [Task -> Steps] /\ lost' \in SUBSET Provider /\ lost \subseteq lost'
  BY <1>1 DEF CInv, RefreshTypes
<1>3. RefreshTypes'
  BY <1>1, <1>2 DEF CInv, RefreshTypes, Steps
<1>4. /\ \A u \in Task : ((Bears(u))' => Bears(u)) /\ (at'[u] = "sent" => at[u] = "sent")
      /\ \A u \in Task : ProviderOf[u] \notin lost' => ((Bears(u))' <=> Bears(u))
  BY <1>1, <1>2 DEF Bears
<1>5. BornePairIsLost'
  BY <1>1, <1>2, <1>4 DEF CInv, BornePairIsLost, vars
<1>6. Rotations'
  <2> SUFFICES ASSUME NEW q \in Provider, q \notin lost' \cup undone PROVE Rotation(q)'
    BY <1>1 DEF Rotations
  <2>1. Rotation(q)
    BY <1>2 DEF CInv, Rotations
  <2>2. \A u \in Task : ProviderOf[u] = q => ((Bears(u))' <=> Bears(u))
    BY <1>4
  <2> QED
    BY <1>1, <1>4, <2>1, <2>2 DEF Rotation
<1>7. SentIsHonoured'
  BY <1>1, <1>2, <1>4 DEF CInv, SentIsHonoured, Sound, Contended, vars
<1>8. RefusedOnlyAfterLoss'
  BY <1>1, <1>2 DEF CInv, RefusedOnlyAfterLoss, Contended
<1> QED
  BY <1>3, <1>5, <1>6, <1>7, <1>8
LEMMA LoadKeeps ==
  ASSUME IInv, CInv, NEW t \in Task, Load(t)
  PROVE  RefreshTypes' /\ BornePairIsLost' /\ Rotations' /\ SentIsHonoured' /\ RefusedOnlyAfterLoss'
<1>1. /\ at[t] = "granted" /\ at' = [at EXCEPT ![t] = "saving"] /\ image' = [image EXCEPT ![t] = store]
      /\ UNCHANGED <<vars, store, issued, valid, token, reply, lost, undone, breached, refused>>
  BY DEF Load, Step, server, history
<1>2. at \in [Task -> Steps] /\ image' \in [Task -> [Provider -> Nat]]
  BY <1>1 DEF CInv, RefreshTypes
<1>3. RefreshTypes'
  BY <1>1, <1>2 DEF CInv, RefreshTypes, Steps
<1>4. \A u \in Task : ((Bears(u))' <=> Bears(u)) /\ (at'[u] = "sent" => at[u] = "sent")
  BY <1>1, <1>2 DEF Bears
<1>5. BornePairIsLost'
  BY <1>1, <1>4 DEF CInv, BornePairIsLost, vars
<1>6. Rotations'
  <2> SUFFICES ASSUME NEW q \in Provider, q \notin lost \cup undone PROVE Rotation(q)'
    BY <1>1 DEF Rotations
  <2>1. Rotation(q)
    BY DEF CInv, Rotations
  <2> QED
    BY <1>1, <1>4, <2>1 DEF Rotation
<1>7. SentIsHonoured'
  BY <1>1, <1>4 DEF CInv, SentIsHonoured, Sound, Contended, vars
<1>8. RefusedOnlyAfterLoss'
  BY <1>1 DEF CInv, RefusedOnlyAfterLoss, Contended
<1> QED
  BY <1>3, <1>5, <1>6, <1>7, <1>8

\* The write brings the bearer's entry up to date; another entry it changes it
\* puts back.
LEMMA SaveKeeps ==
  ASSUME IInv, CInv, NEW t \in Task, Save(t)
  PROVE  RefreshTypes' /\ BornePairIsLost' /\ Rotations' /\ SentIsHonoured' /\ RefusedOnlyAfterLoss'
<1> DEFINE q == ProviderOf[t]
<1>0. /\ at \in [Task -> Steps] /\ reply \in [Task -> Nat] /\ store \in [Provider -> Nat]
      /\ issued \in [Provider -> Nat] /\ image[t] \in [Provider -> Nat] /\ q \in Provider
      /\ token \in [Task -> Nat] /\ undone \in SUBSET Provider
  BY DEF CInv, RefreshTypes
<1>1. /\ at[t] = "saving" /\ at' = [at EXCEPT ![t] = "settled"]
      /\ store' = [image[t] EXCEPT ![q] = reply[t]]
      /\ token' = [token EXCEPT ![t] = reply[t]]
      /\ undone' = undone \cup {r \in Provider \ {q} : image[t][r] # store[r]}
      /\ UNCHANGED <<vars, issued, valid, reply, image, lost, breached, refused>>
  BY DEF Save, Step, server
<1> HIDE DEF q
<1>2. /\ store' \in [Provider -> Nat] /\ token' \in [Task -> Nat] /\ undone' \in SUBSET Provider
      /\ undone \subseteq undone' /\ store'[q] = reply[t]
      /\ \A r \in Provider : r # q /\ r \notin undone' => store'[r] = store[r]
  BY <1>0, <1>1
<1>3. RefreshTypes'
  BY <1>1, <1>2 DEF CInv, RefreshTypes, Steps
<1>4. /\ \A u \in Task : at'[u] = "sent" => at[u] = "sent"
      /\ \A u \in Task : (Bears(u))' <=> Bears(u) /\ u # t
      /\ Bears(t)
  BY <1>0, <1>1 DEF Bears
<1>5. BornePairIsLost'
  BY <1>1, <1>4 DEF CInv, BornePairIsLost, vars
<1>6. Rotations'
  <2> SUFFICES ASSUME NEW r \in Provider, r \notin lost' \cup undone' PROVE Rotation(r)'
    BY DEF Rotations
  <2>1. Rotation(r)
    BY <1>1, <1>2 DEF CInv, Rotations
  <2>2. CASE r # q
    <3>1. \A u \in Task : ProviderOf[u] = r => u # t
      BY <2>2 DEF q
    <3>2. store'[r] = store[r]
      BY <1>2, <2>2
    <3> QED
      BY <1>1, <1>4, <2>1, <3>1, <3>2 DEF Rotation
  <2>3. CASE r = q
    <3>1. ProviderOf[t] = q /\ reply[t] = issued[q] /\ store[q] < issued[q]
      BY <1>4, <2>1, <2>3 DEF Rotation, q
    <3>2. \A u \in Task : ProviderOf[u] = q => ~(Bears(u))'
      BY <1>4, <2>1, <2>3, <3>1 DEF Rotation
    <3>3. store'[q] = issued'[q]
      BY <1>1, <1>2, <3>1
    <3>4. \A u \in Task : ProviderOf[u] = q /\ at'[u] = "sent" => reply'[u] <= store'[q]
      BY <1>0, <1>1, <1>2, <1>4, <2>1, <2>3, <3>1 DEF Rotation
    <3> QED
      BY <2>3, <3>2, <3>3, <3>4 DEF Rotation
  <2> QED
    BY <2>2, <2>3
<1>7. SentIsHonoured'
  BY <1>1, <1>2, <1>4 DEF CInv, SentIsHonoured, Sound, Contended, vars
<1>8. RefusedOnlyAfterLoss'
  BY <1>1, <1>2 DEF CInv, RefusedOnlyAfterLoss, Contended
<1> QED
  BY <1>3, <1>5, <1>6, <1>7, <1>8

\* A process that ends takes the pairs its tasks bear with it.
LEMMA EndKeeps ==
  ASSUME IInv, CInv, NEW p \in Proc, ProcessEnds(p)
  PROVE  RefreshTypes' /\ BornePairIsLost' /\ Rotations' /\ SentIsHonoured' /\ RefusedOnlyAfterLoss'
<1>1. /\ \A t \in Task : ProcOf[t] = p /\ Bears(t) => ProviderOf[t] \in lost'
      /\ lost \subseteq lost' /\ lost' \in SUBSET Provider
      /\ pc' = [t \in Task |-> IF ProcOf[t] = p THEN "dead" ELSE pc[t]]
      /\ UNCHANGED <<store, issued, valid, token, at, reply, image, undone, breached, refused>>
  BY DEF ProcessEnds, Crash, Exit, Ends, Bears, server, refresh, CInv, RefreshTypes
<1>2. RefreshTypes'
  BY <1>1 DEF CInv, RefreshTypes
<1>3. BornePairIsLost'
  BY <1>1 DEF CInv, BornePairIsLost, Bears
<1>4. Rotations'
  BY <1>1 DEF CInv, Rotations, Rotation, Bears
<1>5. SentIsHonoured'
  BY <1>1 DEF CInv, SentIsHonoured, Sound, Contended
<1>6. RefusedOnlyAfterLoss'
  BY <1>1 DEF CInv, RefusedOnlyAfterLoss, Contended
<1> QED
  BY <1>2, <1>3, <1>4, <1>5, <1>6

-----------------------------------------------------------------------------
(* The step                                                                 *)

\* Only tasks inside the lock refresh, and only guarded ones ask for it.
LEMMA InsideKept ==
  ASSUME IInv, CInv, [CNext]_cvars
  PROVE  Inside'
<1>0. /\ pc \in [Task -> Points] /\ at \in [Task -> Steps] /\ Inside
  BY DEF CInv, IInv, TypeOK, RefreshTypes
<1>1. CASE UNCHANGED <<pc, at>>
  BY <1>0, <1>1 DEF Inside
<1>2. ASSUME NEW t \in Task, AskForLock(t) PROVE Inside'
  <2>1. t \in Guarded /\ at' = at /\ at[t] = "idle" /\ pc' = [pc EXCEPT ![t] = "trying"]
    BY <1>2 DEF AskForLock, Call, Goto, refresh
  <2> QED
    BY <1>0, <2>1 DEF Inside
<1>3. ASSUME NEW t \in Task, LockStep(t) PROVE Inside'
  <2>1. pc[t] \in Waiting
    BY <1>3 DEF LockStep, Attempt, LinkWins, LinkLoses, LinkThrows, Read, Probe, Break,
                Waiting, InAttempt
  <2>2. t \in Guarded /\ at[t] = "idle" /\ at' = at
    BY <1>0, <1>3, <2>1 DEF Inside, Waiting, InAttempt, LockStep, refresh
  <2>3. \A u \in Task : u # t => pc'[u] = pc[u]
    BY <1>0, <1>3 DEF LockStep, Attempt, LinkWins, LinkLoses, LinkThrows, Read, Probe, Break,
                      AttemptFails, Goto
  <2> QED
    BY <1>0, <2>2, <2>3 DEF Inside
<1>4. ASSUME NEW t \in Task, NEW s \in Steps, pc' = pc, at' = [at EXCEPT ![t] = s],
             s = "idle" \/ at[t] # "idle" \/ t \notin Guarded \/ pc[t] \in {"holding", "unlocked"}
      PROVE  Inside'
  BY <1>0, <1>4 DEF Inside
<1>5. ASSUME NEW t \in Task, LetGo(t) PROVE Inside'
  <2>1. t \in Guarded /\ at' = [at EXCEPT ![t] = "idle"] /\ pc' = [pc EXCEPT ![t] = "out"]
    BY <1>5 DEF LetGo, Step, Release, FinishUnlocked, Goto
  <2> QED
    BY <1>0, <2>1 DEF Inside
<1>6. ASSUME NEW p \in Proc, ProcessEnds(p) PROVE Inside'
  <2>1. at' = at /\ pc' = [t \in Task |-> IF ProcOf[t] = p THEN "dead" ELSE pc[t]]
    BY <1>6 DEF ProcessEnds, Crash, Exit, Ends, refresh
  <2> QED
    BY <1>0, <2>1 DEF Inside
<1>7. ASSUME NEW t \in Task,
             ReadUnderLock(t) \/ Unauthorized(t) \/ Authorized(t)
               \/ ServerAnswers(t) \/ NetworkFails(t) \/ Load(t) \/ Save(t)
      PROVE  Inside'
  <2>1. /\ pc' = pc
        /\ at[t] # "idle" \/ t \notin Guarded \/ pc[t] \in {"holding", "unlocked"}
    BY <1>7 DEF ReadUnderLock, Unauthorized, Authorized, ServerAnswers, NetworkFails, Load, Save, vars
  <2>2. \E s \in Steps : at' = [at EXCEPT ![t] = s]
    BY <1>7 DEF ReadUnderLock, Unauthorized, Authorized, ServerAnswers, NetworkFails, Load, Save,
                Adopt, Send, Step, Steps
  <2> QED
    BY <1>4, <2>1, <2>2
<1>8. ASSUME NEW q \in Provider, Expire(q) PROVE Inside'
  BY <1>1, <1>8 DEF Expire, vars, refresh
<1> QED
  BY <1>1, <1>2, <1>3, <1>5, <1>6, <1>7, <1>8 DEF CNext, cvars, vars, refresh

LEMMA IntactKept ==
  ASSUME IInv, CInv, [CNext]_cvars
  PROVE  Intact'
<1>0. Intact /\ pc \in [Task -> Points]
  BY DEF CInv, IInv, TypeOK
<1>1. CASE UNCHANGED <<vars, breached>>
  BY <1>0, <1>1, SameHolders DEF vars
<1>2. ASSUME NEW t \in Task, AskForLock(t) PROVE Intact'
  BY <1>0, <1>2, SameHolders DEF AskForLock, Call, Goto, history
<1>3. ASSUME NEW t \in Task, LockStep(t) PROVE Intact'
  BY <1>0, <1>3, LockStepIntact
<1>4. ASSUME NEW t \in Task, LetGo(t) PROVE Intact'
  BY <1>0, <1>4, LetGoIntact DEF LetGo, history
<1>5. ASSUME NEW p \in Proc, ProcessEnds(p) PROVE Intact'
  BY <1>0, <1>5, EndsIntact DEF ProcessEnds
<1>6. ASSUME NEW t \in Task,
             ReadUnderLock(t) \/ Unauthorized(t) \/ Authorized(t)
               \/ ServerAnswers(t) \/ NetworkFails(t) \/ Load(t) \/ Save(t)
      PROVE  Intact'
  BY <1>1, <1>6 DEF ReadUnderLock, Unauthorized, Authorized, ServerAnswers, NetworkFails, Load, Save,
                    history
<1>7. ASSUME NEW q \in Provider, Expire(q) PROVE Intact'
  BY <1>1, <1>7 DEF Expire, history
<1>8. CASE UNCHANGED cvars
  BY <1>1, <1>8 DEF cvars, history
<1> QED
  BY <1>2, <1>3, <1>4, <1>5, <1>6, <1>7, <1>8 DEF CNext
LEMMA RefreshesKept ==
  ASSUME IInv, CInv, [CNext]_cvars
  PROVE  RefreshTypes' /\ BornePairIsLost' /\ Rotations' /\ SentIsHonoured' /\ RefusedOnlyAfterLoss'
<1> DEFINE Kept == /\ RefreshTypes' /\ BornePairIsLost' /\ Rotations' /\ SentIsHonoured'
                   /\ RefusedOnlyAfterLoss'
<1>0. /\ pc \in [Task -> Points] /\ at \in [Task -> Steps] /\ breached \in BOOLEAN
      /\ token \in [Task -> Nat] /\ store \in [Provider -> Nat] /\ valid \in [Provider -> BOOLEAN]
      /\ \A t \in Task : pc[t] = "dead" <=> ProcOf[t] \notin alive
      /\ Inside
  BY DEF CInv, RefreshTypes, IInv, TypeOK
<1>1. ASSUME NEW t \in Task, AskForLock(t) PROVE Kept
  <2>1. \A u \in Task : pc'[u] = "dead" <=> pc[u] = "dead"
    BY <1>0, <1>1 DEF AskForLock, Call, Goto
  <2> QED
    BY <1>0, <1>1, <2>1, LockOnlyStep DEF AskForLock, server, history
<1>2. ASSUME NEW t \in Task, LockStep(t) PROVE Kept
  <2>1. \A u \in Task : pc'[u] = "dead" <=> pc[u] = "dead"
    BY <1>0, <1>2 DEF LockStep, Attempt, LinkWins, LinkLoses, LinkThrows, Read, Probe, Break,
                      AttemptFails, Goto
  <2>2. breached' \in BOOLEAN /\ (breached => breached')
    BY <1>0, <1>2 DEF LockStep
  <2> QED
    BY <1>2, <2>1, <2>2, LockOnlyStep DEF LockStep, server
<1>3. ASSUME NEW t \in Task, ReadUnderLock(t) PROVE Kept
  <2>1. /\ t \in Guarded /\ pc[t] \in {"holding", "unlocked"} /\ at[t] = "idle" /\ ~Bears(t)
        /\ UNCHANGED <<vars, store, server, image, history>>
    BY <1>0, <1>3 DEF ReadUnderLock, Inside, Bears
  <2>2. CASE Send(t, Stored(t))
    BY <2>1, <2>2, SendKeeps
  <2>3. CASE Adopt(t, "settled")
    <3>1. token' \in [Task -> Nat]
      BY <1>0, <2>3 DEF Adopt, Stored
    <3> QED
      BY <2>1, <2>3, <3>1, QuietRefresh DEF Adopt, Step, vars, history
  <2> QED
    BY <1>3, <2>2, <2>3 DEF ReadUnderLock
<1>4. ASSUME NEW t \in Task, Unauthorized(t) PROVE Kept
  <2>1. /\ t \notin Guarded /\ pc[t] # "dead" /\ ~Bears(t)
        /\ UNCHANGED <<vars, store, server, image, history>>
    BY <1>4 DEF Unauthorized, Runs, Bears
  <2>2. CASE Send(t, Stored(t))
    BY <2>1, <2>2, SendKeeps
  <2>3. CASE Adopt(t, "adopted")
    <3>1. token' \in [Task -> Nat]
      BY <1>0, <2>3 DEF Adopt, Stored
    <3> QED
      BY <2>1, <2>3, <3>1, QuietRefresh DEF Adopt, Step, vars, history
  <2> QED
    BY <1>4, <2>2, <2>3 DEF Unauthorized
<1>5. ASSUME NEW t \in Task, LetGo(t) PROVE Kept
  <2>1. \A u \in Task : pc'[u] = "dead" <=> pc[u] = "dead"
    BY <1>0, <1>5 DEF LetGo, Release, FinishUnlocked, Goto
  <2>2. /\ ~Bears(t) /\ at' = [at EXCEPT ![t] = "idle"] /\ token' \in [Task -> Nat]
        /\ UNCHANGED <<store, server, reply, image, lost, undone, breached, refused>>
    BY <1>0, <1>5 DEF LetGo, Bears, Step, history
  <2> QED
    BY <2>1, <2>2, QuietRefresh
<1>6. ASSUME NEW t \in Task, Authorized(t) PROVE Kept
  <2>1. /\ ~Bears(t) /\ at' = [at EXCEPT ![t] = "idle"] /\ token' \in [Task -> Nat] /\ pc' = pc
        /\ UNCHANGED <<store, server, reply, image, lost, undone, breached, refused>>
    BY <1>0, <1>6 DEF Authorized, Bears, Step, history, vars
  <2> QED
    BY <2>1, QuietRefresh
<1>7. ASSUME NEW t \in Task, ServerAnswers(t) PROVE Kept
  BY <1>7, GrantKeeps, RefuseKeeps
<1>8. ASSUME NEW t \in Task, NetworkFails(t) \/ Load(t) \/ Save(t) PROVE Kept
  BY <1>8, FailKeeps, LoadKeeps, SaveKeeps
<1>9. ASSUME NEW p \in Proc, ProcessEnds(p) PROVE Kept
  BY <1>9, EndKeeps
<1>10. ASSUME NEW q \in Provider, Expire(q) PROVE Kept
  <2>1. valid' \in [Provider -> BOOLEAN]
    BY <1>0, <1>10 DEF Expire
  <2>2. RefreshTypes'
    BY <1>10, <2>1 DEF Expire, CInv, RefreshTypes, refresh, history
  <2>3. BornePairIsLost' /\ Rotations'
    BY <1>10 DEF Expire, CInv, BornePairIsLost, Rotations, Rotation, Bears, refresh, history, vars
  <2>4. SentIsHonoured' /\ RefusedOnlyAfterLoss'
    BY <1>10 DEF Expire, CInv, SentIsHonoured, RefusedOnlyAfterLoss, Sound, Contended, refresh,
                 history, vars
  <2> QED
    BY <2>2, <2>3, <2>4
<1>11. CASE UNCHANGED cvars
  BY <1>0, <1>11, LockOnlyStep DEF cvars, vars, server, history
<1> QED
  BY <1>1, <1>2, <1>3, <1>4, <1>5, <1>6, <1>7, <1>8, <1>9, <1>10, <1>11 DEF CNext

LEMMA CStepInv == IInv /\ CInv /\ [CNext]_cvars => CInv'
<1> QED
  BY InsideKept, IntactKept, RefreshesKept DEF CInv

LEMMA CInductive == CSpec => [](IInv /\ CInv)
<1> QED
  BY CInitInv, CStepInv, LockInvariance, PTL DEF CSpec

-----------------------------------------------------------------------------
(* The theorems                                                             *)

\* Every variable keeps its type.
THEOREM CredentialTypeCorrect == CSpec => []CredentialTypeOK
<1>1. IInv /\ CInv => CredentialTypeOK
  BY DEF IInv, CInv, RefreshTypes, CredentialTypeOK
<1> QED
  BY <1>1, CInductive, PTL

\* Among any number of refreshing tasks the exclusion and the release of the
\* lock are what PidLock promises.
THEOREM RefreshExcludes == CSpec => []ExclusiveWhileAllLive
BY RefreshRefinesLock, MutualExclusion, PTL

\* Nor do crashes among them leave a lock of a live process that none of them
\* holds.
THEOREM RefreshLeaksNoLock == CSpec => []LiveLockHasHolder
BY RefreshRefinesLock, NoLeakedLock, PTL

\* The server refuses the token of an entry only after a pair was lost or put
\* back, or the lock breached, unless a send contends for the entry: as long as
\* the lock excludes, what a live task has sent is what the server honours.
THEOREM RefusalHasAReason == CSpec => []RefusedOnlyAfterLoss
<1>1. CInv => RefusedOnlyAfterLoss
  BY DEF CInv
<1> QED
  BY <1>1, CInductive, PTL

\* The store has the pair the server honours, or a task bears it and is about
\* to write it, with or without the lock, until one is lost or put back.
THEOREM StoreKeepsUp == CSpec => []StoreIsCurrent
<1>1. CInv => StoreIsCurrent
  BY DEF CInv, Rotations, Rotation, Bears, StoreIsCurrent
<1> QED
  BY <1>1, CInductive, PTL
=============================================================================
