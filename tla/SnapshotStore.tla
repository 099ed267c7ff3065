---------------------------- MODULE SnapshotStore ----------------------------
(***************************************************************************)
(* The coalescing snapshot writer behind <sid>.queue and <sid>.draft       *)
(* (src/src/session/queue-store.ts; draft-store.ts is the same machine     *)
(* over a string).  The REPL calls save() on every mutation; one flush     *)
(* loop per process writes the newest snapshot to a per-process tmp file   *)
(* and renames it over the shared path, an empty snapshot unlinks it.      *)
(*                                                                         *)
(* A snapshot is its save number and whether it was empty: the text        *)
(* itself is never looked at.  save() up to its first await is one step,   *)
(* the effect of each file-system call is another, and the resumption of   *)
(* the awaiting flush() a third, so a save can land between any two.       *)
(***************************************************************************)
EXTENDS Naturals

CONSTANTS
    Proc,       \* processes attached to the same session id
    MaxSaves    \* bound: save() calls in a behaviour, all processes together

ASSUME MaxSavesAssumption == MaxSaves \in Nat

VARIABLES
    up,        \* up[p]: the process is running
    mem,       \* mem[p]: the queue in memory, as last saved or loaded
    pending,   \* pending[p]: latestPending, NoSnap for null
    phase,     \* phase[p]: where flush() awaits; "idle" is inFlight = false
    writing,   \* writing[p]: the snapshot handed to writeOnce
    tmp,       \* tmp[p]: content of the per-pid tmp file
    file,      \* content of the session's queue file
    saves,     \* history: save() calls so far
    issued,    \* history: issued[p], snapshots p saved since it started
    landed,    \* history: landed[p], newest save of p that reached the file
    rejected   \* history: rejected[p], p's newest finished write failed

vars == <<up, mem, pending, phase, writing, tmp, file, saves, issued, landed, rejected>>

Snapshot == [ver : 0..MaxSaves, empty : BOOLEAN]
Contents == [snap : Snapshot, whole : BOOLEAN]
Phases   == {"idle", "tmp", "rename", "rm", "returned"}

\* Save numbers start at 1, so no save() produces either of these.
NoSnap   == [ver |-> 0, empty |-> FALSE]   \* null: nothing pending
NoFile   == [ver |-> 0, empty |-> TRUE]    \* the path does not exist
Whole(s) == [snap |-> s, whole |-> TRUE]
Torn(s)  == [snap |-> s, whole |-> FALSE]

Init ==
    /\ up = [p \in Proc |-> TRUE]
    /\ mem = [p \in Proc |-> NoFile]
    /\ pending = [p \in Proc |-> NoSnap]
    /\ phase = [p \in Proc |-> "idle"]
    /\ writing = [p \in Proc |-> NoSnap]
    /\ tmp = [p \in Proc |-> Whole(NoFile)]
    /\ file = Whole(NoFile)
    /\ saves = 0
    /\ issued = [p \in Proc |-> {}]
    /\ landed = [p \in Proc |-> 0]
    /\ rejected = [p \in Proc |-> FALSE]

\* Mutant: the rename does not await the tmp write.
StartWriteNoAwait(p, s) ==
    /\ writing' = [writing EXCEPT ![p] = s]
    /\ phase' = [phase EXCEPT ![p] = IF s.empty THEN "rm" ELSE "rename"]
    /\ tmp' = IF s.empty THEN tmp ELSE [tmp EXCEPT ![p] = Torn(s)]

(***************************************************************************)
(* One turn of the flush loop up to its await: take the pending snapshot   *)
(* and start writeOnce with it.                                            *)
(***************************************************************************)
StartWrite(p, s) ==
    /\ writing' = [writing EXCEPT ![p] = s]
    /\ IF s.empty
       THEN phase' = [phase EXCEPT ![p] = "rm"] /\ tmp' = tmp
       ELSE /\ phase' = [phase EXCEPT ![p] = "tmp"]
            /\ tmp' = [tmp EXCEPT ![p] = Torn(s)]

\* save(queue) / clear(): remember the snapshot, start flush() unless one runs.
Save(p, isEmpty) ==
    LET s == [ver |-> saves + 1, empty |-> isEmpty] IN
    /\ up[p]
    /\ saves < MaxSaves
    /\ saves' = saves + 1
    /\ mem' = [mem EXCEPT ![p] = s]
    /\ issued' = [issued EXCEPT ![p] = @ \cup {s}]
    /\ IF phase[p] = "idle"
       THEN StartWrite(p, s) /\ UNCHANGED pending
       ELSE pending' = [pending EXCEPT ![p] = s] /\ UNCHANGED <<writing, phase, tmp>>
    /\ UNCHANGED <<up, file, landed, rejected>>

\* Bun.write(tmpPath) resolves; flush() goes straight on to rename().
TmpWritten(p) ==
    /\ phase[p] = "tmp"
    /\ tmp' = [tmp EXCEPT ![p] = Whole(writing[p])]
    /\ phase' = [phase EXCEPT ![p] = "rename"]
    /\ UNCHANGED <<up, mem, pending, writing, file, saves, issued, landed, rejected>>

\* Mutant: the snapshot counter is bumped once too often.
LandOffByOne(p, contents) ==
    /\ file' = contents
    /\ landed' = [landed EXCEPT ![p] = writing[p].ver + 1]
    /\ rejected' = [rejected EXCEPT ![p] = FALSE]
    /\ phase' = [phase EXCEPT ![p] = "returned"]

\* The file-system call that publishes a snapshot takes effect.
Land(p, contents) ==
    /\ file' = contents
    /\ landed' = [landed EXCEPT ![p] = writing[p].ver]
    /\ rejected' = [rejected EXCEPT ![p] = FALSE]
    /\ phase' = [phase EXCEPT ![p] = "returned"]

\* rename(tmpPath, path): atomic replacement by whatever the tmp file holds.
Renamed(p) ==
    /\ phase[p] = "rename"
    /\ Land(p, tmp[p])
    /\ tmp' = [tmp EXCEPT ![p] = Whole(NoFile)]
    /\ UNCHANGED <<up, mem, pending, writing, saves, issued>>

\* rm(path) of an empty snapshot; ENOENT counts as success.
Removed(p) ==
    /\ phase[p] = "rm"
    /\ Land(p, Whole(writing[p]))
    /\ UNCHANGED <<up, mem, pending, writing, tmp, saves, issued>>

\* Any of the three calls rejects: logged and swallowed, the snapshot is dropped.
WriteFails(p) ==
    /\ phase[p] \in {"tmp", "rename", "rm"}
    /\ rejected' = [rejected EXCEPT ![p] = TRUE]
    /\ phase' = [phase EXCEPT ![p] = "returned"]
    /\ UNCHANGED <<up, mem, pending, writing, tmp, file, saves, issued, landed>>

\* Mutant: flush() writes once and forgets what was saved meanwhile.
ResumeOnce(p) ==
    /\ phase[p] = "returned"
    /\ phase' = [phase EXCEPT ![p] = "idle"]
    /\ writing' = [writing EXCEPT ![p] = NoSnap]
    /\ pending' = [pending EXCEPT ![p] = NoSnap]
    /\ UNCHANGED <<up, mem, tmp, file, saves, issued, landed, rejected>>

\* Mutant: the next turn of the loop writes the snapshot it already holds.
ResumeStale(p) ==
    /\ phase[p] = "returned"
    /\ IF pending[p] # NoSnap
       THEN /\ StartWrite(p, writing[p])
            /\ pending' = [pending EXCEPT ![p] = NoSnap]
       ELSE /\ phase' = [phase EXCEPT ![p] = "idle"]
            /\ writing' = [writing EXCEPT ![p] = NoSnap]
            /\ UNCHANGED <<pending, tmp>>
    /\ UNCHANGED <<up, mem, file, saves, issued, landed, rejected>>

\* flush() resumes: go round the loop while something is pending, else stop.
Resume(p) ==
    /\ phase[p] = "returned"
    /\ IF pending[p] # NoSnap
       THEN /\ StartWrite(p, pending[p])
            /\ pending' = [pending EXCEPT ![p] = NoSnap]
       ELSE /\ phase' = [phase EXCEPT ![p] = "idle"]
            /\ writing' = [writing EXCEPT ![p] = NoSnap]
            /\ UNCHANGED <<pending, tmp>>
    /\ UNCHANGED <<up, mem, file, saves, issued, landed, rejected>>

\* The process dies: memory goes, the tmp file and the queue file stay.
Crash(p) ==
    /\ up[p]
    /\ up' = [up EXCEPT ![p] = FALSE]
    /\ pending' = [pending EXCEPT ![p] = NoSnap]
    /\ phase' = [phase EXCEPT ![p] = "idle"]
    /\ writing' = [writing EXCEPT ![p] = NoSnap]
    /\ mem' = [mem EXCEPT ![p] = NoFile]
    /\ issued' = [issued EXCEPT ![p] = {}]
    /\ UNCHANGED <<tmp, file, saves, landed, rejected>>

\* loadQueue(sid) at the next start: a torn or absent file is an empty queue.
Restart(p) ==
    /\ ~up[p]
    /\ up' = [up EXCEPT ![p] = TRUE]
    /\ mem' = [mem EXCEPT ![p] = IF file.whole THEN file.snap ELSE NoFile]
    /\ rejected' = [rejected EXCEPT ![p] = FALSE]
    /\ UNCHANGED <<pending, phase, writing, tmp, file, saves, issued, landed>>

Next ==
    \E p \in Proc :
        \/ \E isEmpty \in BOOLEAN : Save(p, isEmpty)
        \/ TmpWritten(p)
        \/ Renamed(p)
        \/ Removed(p)
        \/ WriteFails(p)
        \/ Resume(p)
        \/ Crash(p)
        \/ Restart(p)

Spec == Init /\ [][Next]_vars

\* Disk calls return and the event loop resumes what awaited them.
Fairness ==
    \A p \in Proc : WF_vars(TmpWritten(p) \/ Renamed(p) \/ Removed(p) \/ Resume(p))

FairSpec == Spec /\ Fairness

-----------------------------------------------------------------------------
TypeOK ==
    /\ up \in [Proc -> BOOLEAN]
    /\ mem \in [Proc -> Snapshot]
    /\ pending \in [Proc -> Snapshot]
    /\ phase \in [Proc -> Phases]
    /\ writing \in [Proc -> Snapshot]
    /\ tmp \in [Proc -> Contents]
    /\ file \in Contents
    /\ saves \in 0..MaxSaves
    /\ issued \in [Proc -> SUBSET Snapshot]
    /\ landed \in [Proc -> 0..MaxSaves]
    /\ rejected \in [Proc -> BOOLEAN]

\* Whatever crashes or fails, and however two processes interleave, a reader
\* of the path finds no file or a complete snapshot: the promise writeOnce
\* makes ("never a half-written file").
FileIsWhole == file.whole

\* No save is lost in the coalescing: when a process's writer is at rest and
\* its last write did not fail, nothing it saved is newer than what landed.
SettledIsLatest ==
    \A p \in Proc :
        (phase[p] = "idle" /\ ~rejected[p]) => \A s \in issued[p] : s.ver <= landed[p]

\* A save reaches the path (itself or a newer one) unless the write of a
\* snapshot is rejected or the process dies.
SaveLands ==
    \A p \in Proc : \A v \in 1..MaxSaves :
        (\E s \in issued[p] : s.ver = v) ~> (landed[p] >= v \/ rejected[p] \/ ~up[p])

\* What the store promises: see SnapshotRegister.
Register == INSTANCE SnapshotRegister WITH contents <- file.snap

\* Every step of the writer is a step of the register, or none.
ImplementsRegister == Register!Spec
=============================================================================
