------------------------------- MODULE PidLock -------------------------------
(***************************************************************************)
(* The advisory lock of src/src/infra/lockfile.ts, one system call at a    *)
(* time.  The lock is a file holding its owner's pid, published by link()  *)
(* so that it never exists without its content.  An acquirer that finds it *)
(* taken reads the pid, probes it with kill(pid, 0) and unlinks the file   *)
(* of an ended process; it retries until a deadline and then goes on       *)
(* without the lock.                                                       *)
(*                                                                         *)
(* An attempt (tryAcquire) is synchronous: acquirers of one process do not *)
(* interleave inside it, acquirers of different processes do, between any  *)
(* two system calls.  A pid is never reused.                               *)
(***************************************************************************)
EXTENDS Naturals

CONSTANTS
    Proc,      \* processes on the host; a process that ended stays ended
    None,      \* no lock file
    Task,      \* asynchronous callers of withLock()
    ProcOf,    \* ProcOf[t]: the process t runs in
    MaxTries,  \* bound: attempts that fit before a deadline
    MaxCalls   \* bound: withLock() calls of one task

ASSUME NoneAssumption   == None \notin Proc
ASSUME ProcOfAssumption == ProcOf \in [Task -> Proc]
ASSUME TriesAssumption  == MaxTries \in Nat \ {0}
ASSUME CallsAssumption  == MaxCalls \in Nat

VARIABLES
    alive,   \* processes kill(pid, 0) finds
    lock,    \* the pid in the lock file
    held,    \* processes whose HELD_LOCKS has the path
    pc,      \* pc[t]: where t stands
    seen,    \* seen[t]: holderPid, as read by the current attempt
    tries,   \* tries[t]: attempts of the current call
    calls    \* calls[t]: calls made

vars == <<alive, lock, held, pc, seen, tries, calls>>

InAttempt == {"reading", "probing", "breaking"}
Waiting   == InAttempt \cup {"trying"}
Points    == Waiting \cup {"out", "holding", "unlocked", "dead"}

Init ==
    /\ alive = Proc
    /\ lock = None
    /\ held = {}
    /\ pc = [t \in Task |-> "out"]
    /\ seen = [t \in Task |-> None]
    /\ tries = [t \in Task |-> 0]
    /\ calls = [t \in Task |-> 0]

\* The process is inside a synchronous attempt: nothing else of it runs.
Busy(p) == \E t \in Task : ProcOf[t] = p /\ pc[t] \in InAttempt

Goto(t, point) == pc' = [pc EXCEPT ![t] = point]

\* withLock() is called.
Call(t) ==
    /\ pc[t] = "out"
    /\ ~Busy(ProcOf[t])
    /\ calls[t] < MaxCalls
    /\ calls' = [calls EXCEPT ![t] = @ + 1]
    /\ tries' = [tries EXCEPT ![t] = 1]
    /\ Goto(t, "trying")
    /\ UNCHANGED <<alive, lock, held, seen>>

\* Mutant: the file is published by rename(), which replaces a taken lock.
LinkWinsByRename(t) ==
    /\ pc[t] = "trying"
    /\ ~Busy(ProcOf[t])
    /\ lock' = ProcOf[t]
    /\ held' = held \cup {ProcOf[t]}
    /\ Goto(t, "holding")
    /\ UNCHANGED <<alive, seen, tries, calls>>

\* Mutant: the path is not added to HELD_LOCKS.
LinkWinsUntracked(t) ==
    /\ pc[t] = "trying"
    /\ ~Busy(ProcOf[t])
    /\ lock = None
    /\ lock' = ProcOf[t]
    /\ held' = held
    /\ Goto(t, "holding")
    /\ UNCHANGED <<alive, seen, tries, calls>>

\* linkSync(tmp, path) succeeds: the lock exists with its pid and is ours.
LinkWins(t) ==
    /\ pc[t] = "trying"
    /\ ~Busy(ProcOf[t])
    /\ lock = None
    /\ lock' = ProcOf[t]
    /\ held' = held \cup {ProcOf[t]}
    /\ Goto(t, "holding")
    /\ UNCHANGED <<alive, seen, tries, calls>>

\* linkSync fails with EEXIST.
LinkLoses(t) ==
    /\ pc[t] = "trying"
    /\ ~Busy(ProcOf[t])
    /\ lock # None
    /\ Goto(t, "reading")
    /\ UNCHANGED <<alive, lock, held, seen, tries, calls>>

\* Writing the tmp file or linking it fails otherwise: withLock() rejects.
LinkThrows(t) ==
    /\ pc[t] = "trying"
    /\ ~Busy(ProcOf[t])
    /\ Goto(t, "out")
    /\ UNCHANGED <<alive, lock, held, seen, tries, calls>>

(***************************************************************************)
(* tryAcquire returned false: sleep and try again, or return null because  *)
(* the deadline passed, which it may have done after any attempt.          *)
(***************************************************************************)
AttemptFails(t) ==
    \/ /\ tries[t] < MaxTries
       /\ tries' = [tries EXCEPT ![t] = @ + 1]
       /\ Goto(t, "trying")
    \/ Goto(t, "unlocked") /\ UNCHANGED tries

\* readFileSync: the holder's pid, or the file is gone by now.
Read(t) ==
    /\ pc[t] = "reading"
    /\ IF lock = None
       THEN AttemptFails(t) /\ UNCHANGED seen
       ELSE /\ seen' = [seen EXCEPT ![t] = lock]
            /\ Goto(t, "probing")
            /\ UNCHANGED tries
    /\ UNCHANGED <<alive, lock, held, calls>>

\* isProcessAlive(holderPid).
Probe(t) ==
    /\ pc[t] = "probing"
    /\ IF seen[t] \in alive
       THEN AttemptFails(t)
       ELSE Goto(t, "breaking") /\ UNCHANGED tries
    /\ UNCHANGED <<alive, lock, held, seen, calls>>

\* unlinkSync(path) of the stale lock: it removes whatever is there by now.
Break(t) ==
    /\ pc[t] = "breaking"
    /\ lock' = None
    /\ AttemptFails(t)
    /\ UNCHANGED <<alive, held, seen, calls>>

\* fn settles and release() runs: it unlinks the path if this process has
\* it in HELD_LOCKS, whoever's lock is there.
Release(t) ==
    /\ pc[t] = "holding"
    /\ ~Busy(ProcOf[t])
    /\ lock' = IF ProcOf[t] \in held THEN None ELSE lock
    /\ held' = held \ {ProcOf[t]}
    /\ Goto(t, "out")
    /\ UNCHANGED <<alive, seen, tries, calls>>

\* The caller's fallback without the lock is done.
FinishUnlocked(t) ==
    /\ pc[t] = "unlocked"
    /\ ~Busy(ProcOf[t])
    /\ Goto(t, "out")
    /\ UNCHANGED <<alive, lock, held, seen, tries, calls>>

\* The process is gone, with everything that ran in it.
Ends(p) ==
    /\ alive' = alive \ {p}
    /\ held' = held \ {p}
    /\ pc' = [t \in Task |-> IF ProcOf[t] = p THEN "dead" ELSE pc[t]]
    /\ UNCHANGED <<seen, tries, calls>>

\* kill -9, a panic: between any two system calls, and the file stays.
Crash(p) ==
    /\ p \in alive
    /\ Ends(p)
    /\ UNCHANGED lock

\* exit, SIGINT, SIGTERM, SIGHUP: releaseAll unlinks what HELD_LOCKS names.
Exit(p) ==
    /\ p \in alive
    /\ ~Busy(p)
    /\ Ends(p)
    /\ lock' = IF p \in held THEN None ELSE lock

Attempt(t) ==
    LinkWins(t) \/ LinkLoses(t) \/ Read(t) \/ Probe(t) \/ Break(t)

Next ==
    \/ \E t \in Task :
          \/ Call(t) \/ LinkThrows(t) \/ Attempt(t)
          \/ Release(t) \/ FinishUnlocked(t)
    \/ \E p \in Proc : Crash(p) \/ Exit(p)

Spec == Init /\ [][Next]_vars

\* Attempts go on; a holder need not ever release, nor a process end.
FairSpec == Spec /\ \A t \in Task : WF_vars(Attempt(t))

-----------------------------------------------------------------------------

\* Every variable has its type.
TypeOK ==
    /\ alive \subseteq Proc
    /\ lock \in Proc \cup {None}
    /\ held \subseteq alive
    /\ pc \in [Task -> Points]
    /\ \A t \in Task : pc[t] = "dead" <=> ProcOf[t] \notin alive
    /\ seen \in [Task -> Proc \cup {None}]
    /\ tries \in [Task -> 0..MaxTries]
    /\ calls \in [Task -> 0..MaxCalls]

\* At most one task holds the lock (lockfile.test.ts, "only one acquirer
\* holds the lock at a time").
Exclusive ==
    \A t, u \in Task : pc[t] = "holding" /\ pc[u] = "holding" => t = u

\* With any number of processes the lock excludes as long as none of them
\* has ended: nobody can come to unlink a lock that is in use.
ExclusiveWhileAllLive == alive = Proc => Exclusive

\* A lock file that names a live process is held by one of its tasks, so
\* nobody polls until the deadline for a lock that no one uses: neither
\* races, nor crashes, nor releases of a lock taken away meanwhile leak one.
LiveLockHasHolder ==
    lock \in alive => \E t \in Task : ProcOf[t] = lock /\ pc[t] = "holding"
=============================================================================
