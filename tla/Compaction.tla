------------------------------ MODULE Compaction ------------------------------
(***************************************************************************)
(* Compaction of the history a session keeps (src/src/agent/run-compact.ts *)
(* and context-compact.ts): /compact typed at any time, and requests that  *)
(* plugins queue for the loop (src/src/sdk/agent-core.ts).                 *)
(*                                                                         *)
(* A compaction awaits the model's summary while the session goes on.  The *)
(* tail mode, which needs none, is one whose summary takes no time; the    *)
(* remote mode falls back to the local one, as no provider in the          *)
(* repository implements it.                                               *)
(***************************************************************************)
EXTENDS Session

CONSTANTS
    Keeps,            \* keepTail: how many messages may be kept
    CompactMidTools,  \* /compact may be typed while tools run
    CompactMidRepair, \* its summary may arrive while a run that opens with
                      \* synthetic results awaits the media resolver
    MaxCompacts       \* bound: compactions the user, and the plugins, ask for

ASSUME KeepsAssumption == Keeps \subseteq Nat
ASSUME CompactAssumption ==
    {CompactMidTools, CompactMidRepair} \subseteq BOOLEAN /\ MaxCompacts \in Nat

VARIABLES
    job,       \* compactLocks: the compaction under way and its snapshot
    asked,     \* the pending slot of plugins/host/providers/context-compact.ts
    compacts   \* history: compactions asked for, by whom
compactVars == <<sessionVars, job, asked, compacts>>

NoJob     == [by |-> "nobody", keep |-> 0, snapshot |-> <<>>]
NoRequest == [kind |-> "none", keep |-> 0]
Jobs      == [by : {"user", "loop"}, keep : Keeps, snapshot : Seq(Message)]
Requests  == [kind : {"local", "fork"}, keep : Keeps]

CompactRecord(ms) ==
    [role |-> "compact", uses |-> {}, results |-> {}, texts |-> <<>>, replaced |-> ms]
CompactRecords == [role : {"compact"}, uses : {{}}, results : {{}}, texts : {<<>>},
                   replaced : Seq(Message)]

CompactInit == SessionInit /\ job = NoJob /\ asked = NoRequest
               /\ compacts = [user |-> 0, plugins |-> 0]

-----------------------------------------------------------------------------
(* The replacement                                                          *)

CallsIn(ms)   == UNION {ms[i].uses : i \in DOMAIN ms}
ResultsIn(ms) == UNION {IdsOf(ms[i].results) : i \in DOMAIN ms}
LastOf(ms, n) == SubSeq(ms, Max({1, Len(ms) - n + 1}), Len(ms))

\* The message has its counterpart: its calls results, its results calls.
Paired(m, ms) == m.uses \subseteq ResultsIn(ms) /\ IdsOf(m.results) \subseteq CallsIn(ms)

\* Trailing answers whose calls have no results go.
WithoutOpenEnd(ms) ==
    SubSeq(ms, 1, Max({0} \cup {n \in DOMAIN ms : ms[n].uses \subseteq ResultsIn(ms)}))

\* Leading messages whose counterpart was cut off go.
WholeFromStart(ms) ==
    LET starts == {n \in DOMAIN ms : Paired(ms[n], SubSeq(ms, n, Len(ms)))} IN
    IF starts = {} THEN <<>> ELSE SubSeq(ms, Min(starts), Len(ms))

SliceTail(ms, keep) == WholeFromStart(WithoutOpenEnd(LastOf(ms, keep)))

\* Checkpoints are numbered by the compact records before them.
Checkpoint(n) == [kind |-> "checkpoint", val |-> n]
Checkpoints == Cardinality({i \in DOMAIN log : log[i].role = "compact"})

Compacted(ms, keep) == <<UserMsg({}, <<Checkpoint(Checkpoints + 1)>>)>> \o SliceTail(ms, keep)

\* Mutant: only the history is replaced.
CommitUnlogged(ms) == messages' = ms /\ UNCHANGED log

\* finish: the durable record, then the history.
Commit(ms) == log' = Append(log, CompactRecord(ms)) /\ messages' = ms

-----------------------------------------------------------------------------
(* Compactions                                                              *)

\* requestCompact: a later request takes the place of an earlier one.
PluginAsks(request) ==
    /\ pc # "down" /\ compacts.plugins < MaxCompacts
    /\ compacts' = [compacts EXCEPT !.plugins = @ + 1]
    /\ asked' = request
    /\ UNCHANGED <<sessionVars, job>>

\* /compact, refused while another compaction runs.  An empty history stays.
UserCompacts(keep) ==
    /\ pc # "down" /\ compacts.user < MaxCompacts
    /\ pc \in {"tools", "gate"} => CompactMidTools
    /\ job = NoJob /\ messages # <<>>
    /\ compacts' = [compacts EXCEPT !.user = @ + 1]
    /\ job' = [by |-> "user", keep |-> keep, snapshot |-> messages]
    /\ UNCHANGED <<sessionVars, asked>>

\* Mutant: the history is not compared with the snapshot.
UserCompactEndsBlind ==
    /\ job.by = "user"
    /\ job' = NoJob
    /\ Commit(Compacted(job.snapshot, job.keep))
    /\ UNCHANGED <<pc, loop, outcome, aborted, marker, mode, minted, runs, crashes, asked,
                   compacts>>

\* The summary is there, or its stub: a history that changed since is left alone.
UserCompactEnds ==
    /\ job.by = "user"
    /\ pc = "resolving" /\ content.results # {} => CompactMidRepair
    /\ job' = NoJob
    /\ IF messages = job.snapshot
       THEN Commit(Compacted(messages, job.keep))
       ELSE UNCHANGED <<messages, log>>
    /\ UNCHANGED <<pc, loop, outcome, aborted, marker, mode, minted, runs, crashes, asked,
                   compacts>>

MustDrain == pc = "top" /\ rounds < MaxRounds /\ aborted = "none" /\ asked # NoRequest
LoopWaits == job.by = "loop"

\* Mutant: the loop does not await the compaction it starts.
LoopCompactsUnawaited ==
    /\ MustDrain /\ ~LoopWaits
    /\ asked' = NoRequest
    /\ IF asked.kind = "fork" \/ job # NoJob
       THEN Finish("error") /\ UNCHANGED job
       ELSE /\ job' = [by |-> "loop", keep |-> asked.keep, snapshot |-> messages]
            /\ pc' = "model" /\ UNCHANGED outcome
    /\ UNCHANGED <<messages, log, loop, aborted, marker, mode, minted, runs, crashes, compacts>>

\* The head of the loop takes the request.  A fork, and a compaction while the
\* user's own runs, throw, and the run with them.
LoopCompacts ==
    /\ MustDrain /\ ~LoopWaits
    /\ asked' = NoRequest
    /\ IF asked.kind = "fork" \/ job # NoJob
       THEN Finish("error") /\ UNCHANGED job
       ELSE /\ job' = [by |-> "loop", keep |-> asked.keep, snapshot |-> messages]
            /\ UNCHANGED <<pc, outcome>>
    /\ UNCHANGED <<messages, log, loop, aborted, marker, mode, minted, runs, crashes, compacts>>

\* Then the round goes on, unless the preflight stops it; an abort raised
\* meanwhile is noticed by the request that follows.
LoopCompactEnds ==
    /\ LoopWaits
    /\ job' = NoJob
    /\ Commit(Compacted(messages, job.keep))
    /\ rounds' = rounds + 1
    /\ \/ pc' = "model" /\ UNCHANGED outcome
       \/ Finish("abort")
    /\ UNCHANGED <<content, todo, results, salvage, cutStreak, fullStreak, aborted, marker, mode,
                   minted, runs, crashes, asked, compacts>>

\* The process dies, and its slot and lock with it.
CompactCrash == Crash /\ job' = NoJob /\ asked' = NoRequest /\ UNCHANGED compacts

CompactNext ==
    \/ /\ Next /\ (MustDrain \/ LoopWaits => pc' = pc)
       /\ UNCHANGED <<crashes, job, asked, compacts>>
    \/ CompactCrash
    \/ Restart /\ UNCHANGED <<job, asked, compacts>>
    \/ \E request \in Requests : PluginAsks(request)
    \/ \E keep \in Keeps : UserCompacts(keep)
    \/ UserCompactEnds \/ LoopCompacts \/ LoopCompactEnds

CompactSpec == CompactInit /\ [][CompactNext]_compactVars

-----------------------------------------------------------------------------
(* Properties                                                               *)

\* Every variable keeps its type; the loop's own compaction holds it at its head,
\* on a history nobody else touches.
CompactTypeOK ==
    /\ messages \in Seq(Message) /\ log \in Seq(Record \cup CompactRecords)
    /\ job \in Jobs \cup {NoJob} /\ asked \in Requests \cup {NoRequest}
    /\ LoopWaits => pc = "top" /\ messages = job.snapshot

\* After a crash the newest checkpoint is in the restored history, or in the
\* draft that goes back to the editor (session-restore.ts, repairMessages:
\* "Dropping the checkpoint would erase the whole point of compact").
CheckpointIsRestored ==
    LET ms == Restored(log)
        told(texts) == Checkpoint(Checkpoints) \in ToSet(texts)
    IN Checkpoints > 0 => told(Draft(log)) \/ \E m \in ToSet(ms) : told(m.texts)
=============================================================================
