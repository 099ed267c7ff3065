------------------------------- MODULE Session -------------------------------
(***************************************************************************)
(* A session across processes: the agent loop, a process that dies at any  *)
(* point, and the next one that resumes the session from its log           *)
(* (src/src/session/session-restore.ts, src/src/index.ts).                 *)
(***************************************************************************)
EXTENDS AgentCore, Restore

CONSTANT MaxCrashes   \* bound: process deaths in a behaviour
ASSUME MaxCrashesAssumption == MaxCrashes \in Nat

VARIABLE crashes      \* history: process deaths so far
sessionVars == <<vars, crashes>>

SessionInit == Init /\ crashes = 0

\* The process dies: only the log is left.
Crash ==
    /\ pc # "down" /\ crashes < MaxCrashes
    /\ crashes' = crashes + 1
    /\ pc' = "down" /\ messages' = <<>>
    /\ ResetLoop
    /\ outcome' = "ok" /\ aborted' = "none" /\ marker' = "none"
    /\ active' = 0 /\ advertised' = 0
    /\ UNCHANGED <<log, minted, runs, toggles>>

\* agent --resume: the history is rebuilt, and the mode it last announces
\* primes the mode manager; the active mode is the default again.
Restart ==
    /\ pc = "down"
    /\ pc' = "idle"
    /\ messages' = Restored(log)
    /\ advertised' = LastAnnounced(Restored(log))
    /\ UNCHANGED <<log, loop, outcome, aborted, marker, active, toggles, minted, runs, crashes>>

SessionNext == \/ Next /\ UNCHANGED crashes
               \/ Crash \/ Restart

SessionSpec == SessionInit /\ [][SessionNext]_sessionVars

-----------------------------------------------------------------------------
(* Properties                                                               *)

\* No two messages make the same call.
DistinctCalls(ms) ==
    \A i, k \in 1..Len(ms) : i # k => ms[i].uses \cap ms[k].uses = {}

\* No call has a number that is still to be handed out.
HandedOut(ms) == \A i \in 1..Len(ms) : \A id \in ms[i].uses : id <= minted

\* At every instant the log restores to a history a run can be started on:
\* no answer with an open call, no stray result, no call twice, roles
\* alternating (session-restore.ts, repairMessages: "so the Messages API
\* accepts it"); and the mode it last announced, if any, is one of the modes.
RestoredIsResumable ==
    LET ms == Restored(log) IN
    /\ ms \in Seq(Message) /\ LastAnnounced(ms) \in 0..NumModes
    /\ CallsAnswered(ms, Len(ms)) /\ ResultsAnswer(ms) /\ Alternates(ms)
    /\ DistinctCalls(ms) /\ HandedOut(ms)

Answers(ms) == {ms[i] : i \in {k \in 1..Len(ms) : ms[k].role = "assistant"}}
LoggedIds == UNION {IdsOf(log[i].results) : i \in 1..Len(log)}

\* An answer the process holds whose every call has a result in the log is
\* restored after a crash at this instant.
WorkSurvivesCrash ==
    LET kept == Answers(Restored(log)) IN
    \A a \in Answers(messages) : a.uses \subseteq LoggedIds => a \in kept

\* Nothing the running process let go of comes back from the log.
NoGhostWork == pc # "down" => Answers(Restored(log)) \subseteq Answers(messages)

\* While a prompt is being worked on, a crash leaves it in the restored
\* history or in the draft handed back to the editor.
PromptSurvivesCrash ==
    LET told(ms) == \E i \in DOMAIN ms : Prompt(runs) \in ToSet(ms[i].texts) IN
    Running /\ told(messages) => told(Restored(log)) \/ Prompt(runs) \in ToSet(Draft(log))
=============================================================================
