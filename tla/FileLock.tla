------------------------------- MODULE FileLock -------------------------------
(***************************************************************************)
(* The cooperative lock of plugin-api/src/utils/file-lock.ts, one system   *)
(* call at a time.  The lock is a sibling file created with O_EXCL and     *)
(* filled with its holder's identity afterwards.  An acquirer that finds   *)
(* it taken reads it; a file it cannot parse, or one whose holder is dead  *)
(* or too old, it reads once more and unlinks; else it sleeps, until a     *)
(* deadline.                                                               *)
(*                                                                         *)
(* An attempt, its immediate retries included, is synchronous: tasks of    *)
(* one process do not interleave inside it, tasks of different processes   *)
(* do.  All processes are on one host, a pid is never reused, and a        *)
(* session runs in one process.                                            *)
(***************************************************************************)
EXTENDS Naturals

CONSTANTS
    Proc,       \* processes of the host; a process that ended stays ended
    Task,       \* callers of acquireLock()
    ProcOf,     \* ProcOf[t]: the process t runs in
    None,       \* no lock file, or nothing that parses
    Wedges,     \* a lock may be held past staleAfterMs
    MaxTries,   \* bound: attempts that fit before a deadline
    MaxCalls    \* bound: acquireLock() calls of one task

ASSUME ProcOfAssumption == ProcOf \in [Task -> Proc]
ASSUME TriesAssumption  == MaxTries \in Nat \ {0}
ASSUME CallsAssumption  == MaxCalls \in Nat
ASSUME WedgesAssumption == Wedges \in BOOLEAN

VARIABLES
    alive,    \* processes kill(pid, 0) finds
    file,     \* the lock file: who created it, in which call, what is in it
    held,     \* processes whose heldLocks has the path
    pc,       \* pc[t]: where t stands
    seen,     \* seen[t]: lastExisting, as the current attempt parsed it
    tries,    \* tries[t]: attempts of the current call
    calls,    \* calls[t]: calls made
    cleared,  \* history: an acquirer unlinked the lock of a live holder
    shared    \* history: a task was given a lock another of its process holds

vars == <<alive, file, held, pc, seen, tries, calls, cleared, shared>>

Lock == [by : Task, call : 1..MaxCalls, text : {"empty", "holder", "old"}]
ASSUME NoneAssumption == None \notin Lock \cup Proc

\* Code that runs without giving the event loop back.
InAttempt == {"writing", "reading", "judging", "rereading", "clearing", "again"}
Waiting   == InAttempt \cup {"trying"}
Using     == {"holding", "sharing"}
Points    == Waiting \cup Using \cup {"out", "releasing", "failed", "dead"}

Init ==
    /\ alive = Proc
    /\ file = None
    /\ held = {}
    /\ pc = [t \in Task |-> "out"]
    /\ seen = [t \in Task |-> None]
    /\ tries = [t \in Task |-> 0]
    /\ calls = [t \in Task |-> 0]
    /\ cleared = FALSE /\ shared = FALSE

-----------------------------------------------------------------------------
(* Helpers                                                                  *)

\* The process is inside synchronous code of the lock.
Busy(p) == \E t \in Task : ProcOf[t] = p /\ pc[t] \in InAttempt \cup {"releasing"}

Goto(t, point) == pc' = [pc EXCEPT ![t] = point]
Forget(t) == seen' = [seen EXCEPT ![t] = None]

\* acquireLock returns or throws, and its locals are gone.
Leave(t, point) == Goto(t, point) /\ tries' = [tries EXCEPT ![t] = 0]

\* readLockFile: null when the file is missing or not written yet.
Parsed == IF file # None /\ file.text # "empty" THEN file ELSE None

\* The same holder, call for call (sessionId, pid, acquiredAtMs).
SameHolder(l, m) ==
    IF l = None \/ m = None THEN l = m ELSE l.by = m.by /\ l.call = m.call

Mine(t) == [by |-> t, call |-> calls[t], text |-> "holder"]

\* isStaleLock.
StaleLock(l) == ProcOf[l.by] \notin alive \/ l.text = "old"

\* The file is that of a call which goes on believing it holds the lock, or
\* is about to unlink it.
InUse == /\ file # None
         /\ pc[file.by] \in {"writing", "holding", "releasing"}
         /\ calls[file.by] = file.call

-----------------------------------------------------------------------------
(* acquireLock                                                              *)

Call(t) ==
    /\ pc[t] = "out" /\ ~Busy(ProcOf[t])
    /\ calls[t] < MaxCalls
    /\ calls' = [calls EXCEPT ![t] = @ + 1]
    /\ tries' = [tries EXCEPT ![t] = 1]
    /\ Goto(t, "trying")
    /\ UNCHANGED <<alive, file, held, seen, cleared, shared>>

\* An attempt starts after a sleep, or at once when the last one cleared.
Starts(t) == pc[t] = "again" \/ (pc[t] = "trying" /\ ~Busy(ProcOf[t]))

\* Mutant: the lock is opened without O_EXCL.
CreateShared(t) ==
    /\ Starts(t)
    /\ file' = [Mine(t) EXCEPT !.text = "empty"] /\ Goto(t, "writing")
    /\ UNCHANGED <<alive, held, seen, tries, calls, cleared, shared>>

\* openSync(lockPath, "wx"): the file exists, empty, or EEXIST.
Create(t) ==
    /\ Starts(t)
    /\ IF file = None
       THEN file' = [Mine(t) EXCEPT !.text = "empty"] /\ Goto(t, "writing")
       ELSE Goto(t, "reading") /\ UNCHANGED file
    /\ UNCHANGED <<alive, held, seen, tries, calls, cleared, shared>>

\* writeFileSync(fd): it fills the file t created, even if unlinked by now.
Write(t) ==
    /\ pc[t] = "writing"
    /\ file' = IF SameHolder(file, Mine(t)) THEN Mine(t) ELSE file
    /\ held' = held \cup {ProcOf[t]}
    /\ Leave(t, "holding")
    /\ UNCHANGED <<alive, seen, calls, cleared, shared>>

\* mkdir, open or write fails otherwise, or the signal is aborted: it throws,
\* and a file that was created stays, empty.
Throws(t) ==
    /\ Starts(t) \/ pc[t] = "writing"
    /\ Leave(t, "failed")
    /\ UNCHANGED <<alive, file, held, seen, calls, cleared, shared>>

Read(t) ==
    /\ pc[t] = "reading"
    /\ seen' = [seen EXCEPT ![t] = Parsed]
    /\ Goto(t, IF Parsed = None THEN "rereading" ELSE "judging")
    /\ UNCHANGED <<alive, file, held, tries, calls, cleared, shared>>

\* Our process and session: a handle that does nothing.  A live peer: sleep
\* and try again, or the deadline has passed.
ShareOrContend(t) ==
    IF ProcOf[seen[t].by] = ProcOf[t]
    THEN Leave(t, "sharing") /\ shared' = TRUE
    ELSE /\ \/ /\ tries[t] < MaxTries
               /\ tries' = [tries EXCEPT ![t] = @ + 1]
               /\ Goto(t, "trying")
            \/ Leave(t, "failed")
         /\ UNCHANGED shared

\* Whose lock it is: ours, a stale one, or a peer's.
Judge(t) ==
    /\ pc[t] = "judging"
    /\ IF ProcOf[seen[t].by] # ProcOf[t] /\ StaleLock(seen[t])
       THEN Goto(t, "rereading") /\ UNCHANGED <<seen, tries, shared>>
       ELSE Forget(t) /\ ShareOrContend(t)
    /\ UNCHANGED <<alive, file, held, calls, cleared>>

\* Mutant: the guard wants a holder, which a corrupt file does not have.
RereadHolder(t) ==
    /\ pc[t] = "rereading"
    /\ Goto(t, IF Parsed # None /\ SameHolder(Parsed, seen[t]) THEN "clearing" ELSE "again")
    /\ Forget(t)
    /\ UNCHANGED <<alive, file, held, tries, calls, cleared, shared>>

\* The guard before an unlink: the file must parse to what it did before.
Reread(t) ==
    /\ pc[t] = "rereading"
    /\ Goto(t, IF SameHolder(Parsed, seen[t]) THEN "clearing" ELSE "again")
    /\ Forget(t)
    /\ UNCHANGED <<alive, file, held, tries, calls, cleared, shared>>

\* unlinkSync removes whatever is there by now; the attempt starts over, with
\* no sleep and no look at the deadline.
Clear(t) ==
    /\ pc[t] = "clearing"
    /\ file' = None
    /\ cleared' = (cleared \/ InUse)
    /\ Goto(t, "again")
    /\ UNCHANGED <<alive, held, seen, tries, calls, shared>>

\* unlinkSync throws, which is swallowed: the attempt starts over all the same.
ClearFails(t) ==
    /\ pc[t] = "clearing"
    /\ Goto(t, "again")
    /\ UNCHANGED <<alive, file, held, seen, tries, calls, cleared, shared>>

-----------------------------------------------------------------------------
(* release, the end of a process, time                                      *)

\* Mutant: a handle dropped on an error is not released.
LetGoWithoutRelease(t) ==
    /\ pc[t] \in Using /\ ~Busy(ProcOf[t])
    /\ Goto(t, "out") /\ held' = held \ {ProcOf[t]}
    /\ UNCHANGED <<alive, file, seen, tries, calls, cleared, shared>>

\* release() reads the file: ours, or nothing that parses, is unlinked next;
\* a handle on a shared lock does nothing.
LetGo(t) ==
    /\ pc[t] \in Using /\ ~Busy(ProcOf[t])
    /\ IF pc[t] = "holding" /\ (Parsed = None \/ SameHolder(Parsed, Mine(t)))
       THEN Goto(t, "releasing") /\ UNCHANGED held
       ELSE /\ Goto(t, "out")
            /\ held' = IF pc[t] = "holding" THEN held \ {ProcOf[t]} ELSE held
    /\ UNCHANGED <<alive, file, seen, tries, calls, cleared, shared>>

Unlink(t) ==
    /\ pc[t] = "releasing"
    /\ file' = None
    /\ held' = held \ {ProcOf[t]}
    /\ Goto(t, "out")
    /\ UNCHANGED <<alive, seen, tries, calls, cleared, shared>>

\* The caller has handled the error.
Recover(t) ==
    /\ pc[t] = "failed" /\ ~Busy(ProcOf[t])
    /\ Goto(t, "out")
    /\ UNCHANGED <<alive, file, held, seen, tries, calls, cleared, shared>>

\* A lock held for longer than staleAfterMs.
GrowOld ==
    /\ Wedges /\ file # None /\ file.text = "holder"
    /\ file' = [file EXCEPT !.text = "old"]
    /\ UNCHANGED <<alive, held, pc, seen, tries, calls, cleared, shared>>

\* A process ends: its tasks are gone, and what they knew.
End(p) ==
    /\ p \in alive /\ alive' = alive \ {p} /\ held' = held \ {p}
    /\ pc' = [t \in Task |-> IF ProcOf[t] = p THEN "dead" ELSE pc[t]]
    /\ seen' = [t \in Task |-> IF ProcOf[t] = p THEN None ELSE seen[t]]
    /\ tries' = [t \in Task |-> IF ProcOf[t] = p THEN 0 ELSE tries[t]]
    /\ UNCHANGED <<calls, cleared, shared>>

\* It is killed at any point, or exits between two turns of its event loop
\* and unlinks what heldLocks names.
Crash(p) == End(p) /\ UNCHANGED file

Exit(p) == ~Busy(p) /\ End(p) /\ file' = IF p \in held THEN None ELSE file

-----------------------------------------------------------------------------
Attempt(t) ==
    \/ Create(t) \/ Write(t) \/ Read(t) \/ Judge(t) \/ Reread(t) \/ Clear(t) \/ ClearFails(t)

Next ==
    \/ \E t \in Task : Call(t) \/ Attempt(t) \/ Throws(t) \/ LetGo(t) \/ Unlink(t) \/ Recover(t)
    \/ \E p \in Proc : Crash(p) \/ Exit(p)
    \/ GrowOld

Spec == Init /\ [][Next]_vars
FairSpec == Spec /\ \A t \in Task : WF_vars(Attempt(t)) /\ WF_vars(Unlink(t))

-----------------------------------------------------------------------------
(* Properties                                                               *)

\* Every variable keeps its type.
LockTypeOK ==
    /\ alive \subseteq Proc /\ held \subseteq alive
    /\ file \in Lock \cup {None}
    /\ pc \in [Task -> Points]
    /\ \A t \in Task : pc[t] = "dead" <=> ProcOf[t] \notin alive
    /\ seen \in [Task -> Lock \cup {None}]
    /\ \A t \in Task : pc[t] = "judging" => seen[t] # None
    /\ tries \in [Task -> 0..MaxTries]
    /\ calls \in [Task -> 0..MaxCalls]
    /\ cleared \in BOOLEAN /\ shared \in BOOLEAN

\* No two processes hold the lock, unless an acquirer has unlinked a lock in
\* use: creation, release and the exit hook never let a second one in.
ExclusiveUnlessCleared ==
    \A t, u \in Task :
        pc[t] = "holding" /\ pc[u] = "holding" => t = u \/ cleared

\* A lock that names a live process is held by the call that wrote it: no
\* race, failed write or release of a lock cleared meanwhile leaks one that
\* others would wait for.
LiveLockHasHolder ==
    file # None /\ file.text # "empty" /\ ProcOf[file.by] \in alive =>
        pc[file.by] \in {"holding", "releasing"} /\ calls[file.by] = file.call
=============================================================================
