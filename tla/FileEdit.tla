------------------------------- MODULE FileEdit -------------------------------
(***************************************************************************)
(* The Read, Edit and Write tools of agents that share a worktree          *)
(* (src/src/tools/tools.ts): a call that changes a file holds its lock, is *)
(* refused when the file is not as its session's tracker last saw it       *)
(* (session/file-tracking-store.ts), and tells the tracker what it left.   *)
(*                                                                         *)
(* One file; its content is a version number, 0 while it is missing.  Stat *)
(* data that are equal are taken to mean equal content, and a write to     *)
(* replace the content at once.  A Task makes tool calls; programs that    *)
(* take no lock are left out.                                              *)
(***************************************************************************)
EXTENDS FileLock

CONSTANTS
    Initially,   \* versions the file may have at first
    ToolOf       \* ToolOf[t]: the tool t changes the file with

ASSUME InitiallyAssumption == Initially \subseteq Nat
ASSUME ToolOfAssumption    == ToolOf \in [Task -> {"Edit", "Write"}]

VARIABLES
    disk,     \* the file's version
    last,     \* the highest version written so far
    tracked,  \* tracked[p]: what p's tracker recorded, or None
    at,       \* at[t]: where the call stands
    base,     \* base[t]: the version the call read or checked
    lost      \* history: a call has replaced a version it had not checked

tool  == <<at, base>>
evars == <<vars, disk, last, tracked, tool, lost>>

Steps == {"idle", "reading", "called", "checked", "loaded", "written", "settled"}

EInit ==
    /\ Init
    /\ disk \in Initially /\ last = disk
    /\ tracked = [p \in Proc |-> None]
    /\ at = [t \in Task |-> "idle"] /\ base = [t \in Task |-> 0]
    /\ lost = FALSE

Step(t, s) == at' = [at EXCEPT ![t] = s]

\* The call returns to the agent loop, and its locals are gone.
Done(t) == Step(t, "idle") /\ base' = [base EXCEPT ![t] = 0]

\* t runs: its process lives and is not inside the lock's code.
Runs(t) == pc[t] # "dead" /\ ~Busy(ProcOf[t])

-----------------------------------------------------------------------------
(* Read takes no lock                                                       *)

\* execRead: the content, or an error when the file is missing.  A read that
\* no call of t can follow is left out.
ReadContent(t) ==
    /\ at[t] = "idle" /\ pc[t] = "out" /\ Runs(t) /\ calls[t] < MaxCalls
    /\ base' = [base EXCEPT ![t] = disk]
    /\ Step(t, "reading")
    /\ UNCHANGED <<vars, disk, last, tracked, lost>>

\* Back in executeTool: the tracker records the file as it is by now.
TrackRead(t) ==
    /\ at[t] = "reading" /\ Runs(t)
    /\ tracked' = IF base[t] # 0 \/ disk = 0
                  THEN [tracked EXCEPT ![ProcOf[t]] = disk] ELSE tracked
    /\ Done(t)
    /\ UNCHANGED <<vars, disk, last, lost>>

-----------------------------------------------------------------------------
(* Edit and Write under the lock                                            *)

StartCall(t) ==
    /\ at[t] = "idle" /\ Call(t)
    /\ Step(t, "called")
    /\ UNCHANGED <<disk, last, tracked, base, lost>>

LockStep(t) ==
    /\ Attempt(t) \/ Throws(t)
    /\ UNCHANGED <<disk, last, tracked, tool, lost>>

\* acquireLock threw: the tool answers with an error.
LockFailed(t) ==
    /\ Recover(t)
    /\ Done(t)
    /\ UNCHANGED <<disk, last, tracked, lost>>

\* checkTrackedFilePrecondition: a file to create, or one as last recorded.
MayChange(t) ==
    \/ ToolOf[t] = "Write" /\ disk = 0
    \/ disk # 0 /\ tracked[ProcOf[t]] = disk

\* Mutant: the precondition is looked at before the lock is there.
CheckBeforeLock(t) ==
    /\ pc[t] \in Using \cup {"trying"} /\ at[t] = "called" /\ Runs(t)
    /\ IF MayChange(t)
       THEN /\ base' = [base EXCEPT ![t] = disk]
            /\ Step(t, IF ToolOf[t] = "Edit" THEN "checked" ELSE "loaded")
       ELSE Step(t, "settled") /\ UNCHANGED base
    /\ UNCHANGED <<vars, disk, last, tracked, lost>>

Check(t) ==
    /\ pc[t] \in Using /\ at[t] = "called" /\ Runs(t)
    /\ IF MayChange(t)
       THEN /\ base' = [base EXCEPT ![t] = disk]
            /\ Step(t, IF ToolOf[t] = "Edit" THEN "checked" ELSE "loaded")
       ELSE Step(t, "settled") /\ UNCHANGED base
    /\ UNCHANGED <<vars, disk, last, tracked, lost>>

\* execEdit reads the text anew; it may be gone, or lack old_string.
Load(t) ==
    /\ pc[t] \in Using /\ at[t] = "checked" /\ Runs(t)
    /\ \/ disk # 0 /\ base' = [base EXCEPT ![t] = disk] /\ Step(t, "loaded")
       \/ Step(t, "settled") /\ base' = [base EXCEPT ![t] = 0]
    /\ UNCHANGED <<vars, disk, last, tracked, lost>>

\* Bun.write replaces the content, or the tool fails or is aborted before.
Put(t) ==
    /\ pc[t] \in Using /\ at[t] = "loaded" /\ Runs(t)
    /\ \/ /\ last' = last + 1 /\ disk' = last'
          /\ lost' = (lost \/ disk # base[t])
          /\ Step(t, "written")
       \/ Step(t, "settled") /\ UNCHANGED <<disk, last, lost>>
    /\ base' = [base EXCEPT ![t] = 0]
    /\ UNCHANGED <<vars, tracked>>

\* recordTrackedFileObservation: the file as it is by now.
TrackWrite(t) ==
    /\ pc[t] \in Using /\ at[t] = "written" /\ Runs(t)
    /\ tracked' = [tracked EXCEPT ![ProcOf[t]] = disk]
    /\ Step(t, "settled")
    /\ UNCHANGED <<vars, disk, last, base, lost>>

\* The handle goes out of scope.
Dispose(t) ==
    /\ at[t] = "settled" /\ LetGo(t)
    /\ Done(t)
    /\ UNCHANGED <<disk, last, tracked, lost>>

Released(t) ==
    /\ Unlink(t)
    /\ UNCHANGED <<disk, last, tracked, tool, lost>>

-----------------------------------------------------------------------------
\* A process ends, and its memory with it.
ProcessEnds(p) ==
    /\ Crash(p) \/ Exit(p)
    /\ tracked' = [tracked EXCEPT ![p] = None]
    /\ at' = [t \in Task |-> IF ProcOf[t] = p THEN "idle" ELSE at[t]]
    /\ base' = [t \in Task |-> IF ProcOf[t] = p THEN 0 ELSE base[t]]
    /\ UNCHANGED <<disk, last, lost>>

Progress(t) ==
    \/ TrackRead(t) \/ LockStep(t) \/ LockFailed(t) \/ Check(t) \/ Load(t) \/ Put(t)
    \/ TrackWrite(t) \/ Dispose(t) \/ Released(t)

ENext ==
    \/ \E t \in Task : ReadContent(t) \/ StartCall(t) \/ Progress(t)
    \/ \E p \in Proc : ProcessEnds(p)
    \/ GrowOld /\ UNCHANGED <<disk, last, tracked, tool, lost>>

\* Callbacks run; a process need not end.
ESpec == EInit /\ [][ENext]_evars /\ \A t \in Task : WF_evars(Progress(t))

-----------------------------------------------------------------------------
(* Properties                                                               *)

\* Every variable keeps its type.
EditTypeOK ==
    /\ LockTypeOK
    /\ {disk, last} \subseteq Nat /\ disk <= last
    /\ tracked \in [Proc -> Nat \cup {None}]
    /\ at \in [Task -> Steps] /\ base \in [Task -> Nat]
    /\ lost \in BOOLEAN

\* No call overwrites a change it did not see when it checked the file,
\* unless a lock in use was unlinked or one was shared (file-lock.ts "last
\* writer wins, the first edit is silently lost").
NoLostEdit == lost => cleared \/ shared

\* A call that asked for the lock is answered, or its process is gone: no
\* waiter sleeps, clears and looks again for ever, unless unlinkSync fails for
\* ever, when the branches that clear a file pass the deadline by.
CallSettles ==
    \/ \E t \in Task : []<><<ClearFails(t)>>_evars
    \/ \A t \in Task : at[t] = "called" ~> at[t] = "idle" \/ pc[t] = "dead"
=============================================================================
