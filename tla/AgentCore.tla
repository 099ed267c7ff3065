------------------------------ MODULE AgentCore ------------------------------
(***************************************************************************)
(* One process's agent loop: AgentCore.run (src/src/sdk/agent-core.ts),    *)
(* the tool executor and session-log adapters the host gives it, and what  *)
(* the REPL does with the history when a run ends.  Model answers, tool    *)
(* outcomes, aborts and mode toggles come from the environment.            *)
(*                                                                         *)
(* Each step runs from one await of run() to the next.                     *)
(***************************************************************************)
EXTENDS History, FiniteSets

CONSTANTS
    Initial,       \* histories a process may start with (initialMessages)
    MaxRounds,     \* maxToolRounds, when the host sets a finite one
    CutCap,        \* MAX_INTERRUPTED_TURN_CONTINUATIONS
    FullCap,       \* MAX_TOKENS_CONTINUATION_CAP
    MaxTools,      \* bound: tool calls in one answer
    NumModes,      \* modes the plugins define; mode 0 is "no mode"
    HooksDeny,     \* a tool.didBatch hook that may stop the loop is installed
    EmptyAnswers,  \* the model may end a turn without any content block
    ToolsMayThrow, \* the tool pipeline may throw instead of returning a result
    MaxRuns,       \* bound: runs in a behaviour
    MaxToggles     \* bound: mode toggles in a behaviour

ASSUME BoundsAssumption ==
    {MaxRounds, CutCap, FullCap, MaxTools, NumModes, MaxRuns, MaxToggles} \subseteq Nat
ASSUME SwitchesAssumption == {HooksDeny, EmptyAnswers, ToolsMayThrow} \subseteq BOOLEAN
ASSUME InitialAssumption == \A ms \in Initial : ms \in Seq(Message) /\ Resumable(ms)

VARIABLES
    messages,    \* AgentCore.messages
    log,         \* the session's JSONL records, oldest first
    pc,          \* where run() stands
    content,     \* initialUserContent, while the media resolver is awaited
    todo,        \* tool calls of this round not executed yet
    results,     \* toolResults of this round
    salvage,     \* streamInterruptedSalvage
    rounds,      \* rounds
    cutStreak,   \* streamInterruptedStreak
    fullStreak,  \* maxTokensStreak
    outcome,     \* how run() ended: returned, threw AbortError, threw
    aborted,     \* the turn's abort signal, and who raised it
    marker,      \* pendingTurnMarker
    active,      \* ModeManager: the active mode
    advertised,  \* ModeManager.lastAdvertisedModeId
    minted,      \* history: numbers handed out to answers and tool calls
    runs,        \* history: runs so far
    toggles      \* history: toggles so far

loop == <<content, todo, results, salvage, rounds, cutStreak, fullStreak>>
mode == <<active, advertised, toggles>>
vars == <<messages, log, pc, loop, outcome, aborted, marker, mode, minted, runs>>

Places == {"idle", "resolving", "top", "model", "tools", "gate", "wrapup", "unwinding", "down"}

\* A line of the session log: a message, or the result of one call.
Record == Message \cup [role : {"result"}, uses : {{}}, results : SUBSET Result, texts : {<<>>}]

Prompt(p)   == [kind |-> "prompt", val |-> p]
ModeNote(m) == [kind |-> "mode", val |-> m]
Note        == [kind |-> "note", val |-> 0]     \* markers and other attachments
CutNote     == [kind |-> "note", val |-> 1]     \* streamInterruptedContinueAttachmentText
FullNote    == [kind |-> "note", val |-> 2]     \* outputTruncatedAttachmentText
Say(n)      == [kind |-> "say", val |-> n]

NoContent == UserMsg({}, <<>>)

ResultRecord(r) == [role |-> "result", uses |-> {}, results |-> {r}, texts |-> <<>>]

Init ==
    /\ messages \in Initial
    /\ log = <<>>
    /\ pc = "idle"
    /\ content = NoContent /\ todo = {} /\ results = {} /\ salvage = FALSE
    /\ rounds = 0 /\ cutStreak = 0 /\ fullStreak = 0
    /\ outcome = "ok" /\ aborted = "none" /\ marker = "none"
    /\ active = 0 /\ advertised = 0 /\ toggles = 0
    /\ minted = 0 /\ runs = 0

-----------------------------------------------------------------------------
(* Helpers                                                                  *)

\* consumePendingAttachment: callers also set advertised' = active.
PendingModeTexts == IF active # advertised THEN <<ModeNote(active)>> ELSE <<>>

\* What the next user turn carries for calls the last run left unanswered.
OrphanResults == {[id |-> id, outcome |-> "aborted"] : id \in Orphans(messages)}

\* Mutant: the synthetic results are logged too, as the older loop does.
LogUserAndRepair(ts) ==
    LET repair == [role |-> "result", uses |-> {}, results |-> OrphanResults, texts |-> <<>>] IN
    log \o (IF pc \in {"idle", "resolving"} /\ OrphanResults # {} THEN <<repair>> ELSE <<>>)
        \o (IF ts = <<>> THEN <<>> ELSE <<UserMsg({}, ts)>>)

\* Mutant: a turn that repairs calls does not log its texts.
LogUserUnlessRepairing(ts) ==
    IF ts = <<>> \/ (pc \in {"idle", "resolving"} /\ OrphanResults # {}) THEN log
    ELSE Append(log, UserMsg({}, ts))

\* appendUser, skipped when there is nothing to write.
LogUser(ts) == IF ts = <<>> THEN log ELSE Append(log, UserMsg({}, ts))

\* Both the history and the log take these entries.
Extend(entries) == messages' = messages \o entries /\ log' = log \o entries

\* The locals of run(), at its start and once it is gone.
ResetLoop ==
    /\ content' = NoContent /\ todo' = {} /\ results' = {} /\ salvage' = FALSE
    /\ rounds' = 0 /\ cutStreak' = 0 /\ fullStreak' = 0

Finish(how) == pc' = "unwinding" /\ outcome' = how

\* The assistant message of an answer without tool calls; none when blank.
Spoken(blank) == IF blank THEN <<>> ELSE <<AssistantMsg({}, <<Say(minted + 1)>>)>>

-----------------------------------------------------------------------------
(* The start of a run                                                       *)

(***************************************************************************)
(* run() up to the loop: synthetic results for calls the last run left     *)
(* open, the runtime marker, a pending mode note and the prompt make one   *)
(* user turn.  All but the prompt are collected at once; the media         *)
(* resolver is awaited for the prompt before the turn is appended, and the *)
(* history may change meanwhile.  The synthetic results are not logged:    *)
(* repairOrphanedToolUse is given no store, and the user record leaves     *)
(* results out.                                                            *)
(***************************************************************************)
Begin ==
    /\ pc = "idle" /\ runs < MaxRuns /\ runs' = runs + 1
    /\ marker' = "none" /\ advertised' = active
    /\ UNCHANGED <<outcome, aborted, active, toggles, minted>>

\* What stands before the prompt.
Opening(mark) == (IF mark = "none" THEN <<>> ELSE <<Note>>) \o PendingModeTexts

\* The turn is appended and recorded, and the loop's locals are set.
OpenTurn(rs, texts) ==
    /\ messages' = AppendUserTurn(messages, rs, texts)
    /\ log' = LogUser(texts)
    /\ ResetLoop /\ pc' = "top"

\* A typed prompt; prompts are numbered by their run.
StartRun ==
    /\ Begin
    /\ content' = UserMsg(OrphanResults, Opening(marker) \o <<Prompt(runs + 1)>>)
    /\ pc' = "resolving"
    /\ UNCHANGED <<messages, log, todo, results, salvage, rounds, cutStreak, fullStreak>>

\* The media resolver answers.
PromptResolved ==
    /\ pc = "resolving"
    /\ OpenTurn(content.results, content.texts)
    /\ UNCHANGED <<outcome, aborted, marker, mode, minted, runs>>

\* It throws instead: nothing has been appended.
ResolverThrows ==
    /\ pc = "resolving"
    /\ Finish("error")
    /\ UNCHANGED <<messages, log, loop, aborted, marker, mode, minted, runs>>

\* /continue at an idle prompt: noteSessionResumed(), then a run without text,
\* which awaits nothing.
ContinueRun == Begin /\ OpenTurn(OrphanResults, Opening("resumed"))

-----------------------------------------------------------------------------
(* The loop                                                                 *)

\* A round begins: the history is handed to sendFn.
NextRound ==
    /\ pc = "top" /\ rounds < MaxRounds /\ aborted = "none"
    /\ pc' = "model" /\ rounds' = rounds + 1
    /\ UNCHANGED <<messages, log, content, todo, results, salvage, cutStreak, fullStreak,
                   outcome, aborted, marker, mode, minted, runs>>

\* The signal is raised, or the user cancels the preflight question.
StopAtTop ==
    /\ pc = "top" /\ rounds < MaxRounds
    /\ Finish("abort")
    /\ UNCHANGED <<messages, log, loop, aborted, marker, mode, minted, runs>>

\* The loop condition fails: one more request, with the cap marker and no tools.
CapReached ==
    /\ pc = "top" /\ rounds >= MaxRounds
    /\ messages' = AppendUserTurn(messages, {}, <<Note>>)
    /\ pc' = "wrapup"
    /\ UNCHANGED <<log, loop, outcome, aborted, marker, mode, minted, runs>>

\* sendFn throws: a transport error, or the signal tore the stream down.
SendThrows ==
    /\ pc \in {"model", "wrapup"}
    /\ Finish("error")
    /\ UNCHANGED <<messages, log, loop, aborted, marker, mode, minted, runs>>

\* Mutant: the partial answer is dropped, its continuation note is not.
AskToContinueAlone(said, note) ==
    Extend(<<UserMsg({}, <<note>>)>>) /\ pc' = "top" /\ UNCHANGED outcome

(***************************************************************************)
(* An answer the transport or the output budget cut short is kept, stood   *)
(* in for by a placeholder when it holds nothing, and the model is asked   *)
(* to go on in a new user turn.                                            *)
(***************************************************************************)
AskToContinue(said, note) ==
    /\ Extend((IF said = <<>> THEN <<AssistantMsg({}, <<Note>>)>> ELSE said)
                 \o <<UserMsg({}, <<note>>)>>)
    /\ pc' = "top"
    /\ UNCHANGED outcome

\* A stream that closed without its terminal event, no complete tool call.
AnswerCut(blank) ==
    /\ pc = "model"
    /\ minted' = minted + 1
    /\ cutStreak' = cutStreak + 1
    /\ IF cutStreak < CutCap
       THEN AskToContinue(Spoken(blank), CutNote)
       ELSE Extend(Spoken(blank)) /\ Finish("ok")
    /\ UNCHANGED <<content, todo, results, salvage, rounds, fullStreak, aborted, marker, mode,
                   runs>>

\* stop_reason max_tokens, no tool call.
AnswerFull(blank) ==
    /\ pc = "model"
    /\ minted' = minted + 1
    /\ cutStreak' = 0 /\ fullStreak' = fullStreak + 1
    /\ IF fullStreak < FullCap
       THEN AskToContinue(Spoken(blank), FullNote)
       ELSE Extend(Spoken(blank)) /\ Finish("ok")
    /\ UNCHANGED <<content, todo, results, salvage, rounds, aborted, marker, mode, runs>>

(***************************************************************************)
(* A finished answer without tool calls.  A pending mode note is consumed  *)
(* either way; it opens one more user turn unless the turn was aborted.    *)
(***************************************************************************)
AnswerEnds(blank) ==
    /\ pc = "model"
    /\ blank => EmptyAnswers
    /\ minted' = minted + 1
    /\ cutStreak' = 0 /\ fullStreak' = 0
    /\ advertised' = active
    /\ IF PendingModeTexts # <<>> /\ aborted = "none"
       THEN /\ Extend(Spoken(blank) \o <<UserMsg({}, PendingModeTexts)>>)
            /\ pc' = "top" /\ UNCHANGED outcome
       ELSE Extend(Spoken(blank)) /\ Finish("ok")
    /\ UNCHANGED <<content, todo, results, salvage, rounds, aborted, marker, active, toggles,
                   runs>>

\* Mutant: tool calls saved from a cut answer do not end the streak of cut ones.
AnswerCallsToolsInStreak(n, cut) ==
    LET ids == minted+1 .. minted+n IN
    /\ pc = "model"
    /\ minted' = minted + n
    /\ Extend(<<AssistantMsg(ids, <<>>)>>)
    /\ todo' = ids /\ results' = {} /\ salvage' = cut
    /\ cutStreak' = (IF cut THEN cutStreak ELSE 0) /\ fullStreak' = 0
    /\ pc' = "tools"
    /\ UNCHANGED <<content, rounds, outcome, aborted, marker, mode, runs>>

\* An answer with n complete tool calls, whatever ended the stream.
AnswerCallsTools(n, cut) ==
    LET ids == minted+1 .. minted+n IN
    /\ pc = "model"
    /\ minted' = minted + n
    /\ Extend(<<AssistantMsg(ids, <<>>)>>)
    /\ todo' = ids /\ results' = {} /\ salvage' = cut
    /\ cutStreak' = 0 /\ fullStreak' = 0
    /\ pc' = "tools"
    /\ UNCHANGED <<content, rounds, outcome, aborted, marker, mode, runs>>

\* executeToolRound returns, its result already logged; calls run one by one.
ToolReturns(id, how) ==
    /\ pc = "tools" /\ id \in todo /\ \A other \in todo : id <= other
    /\ how = "canceled" => aborted # "none"
    /\ results' = results \cup {[id |-> id, outcome |-> how]}
    /\ log' = Append(log, ResultRecord([id |-> id, outcome |-> how]))
    /\ todo' = todo \ {id}
    /\ pc' = IF todo' = {} THEN "gate" ELSE "tools"
    /\ UNCHANGED <<messages, content, salvage, rounds, cutStreak, fullStreak, outcome, aborted,
                   marker, mode, minted, runs>>

\* executeToolRound has no catch: what a tool throws ends the run.
ToolThrows ==
    /\ pc = "tools" /\ ToolsMayThrow
    /\ Finish("error")
    /\ UNCHANGED <<messages, log, loop, aborted, marker, mode, minted, runs>>

\* A tool.didBatch hook stops the loop: the results are dropped.
BatchHalted ==
    /\ pc = "gate" /\ HooksDeny
    /\ Finish("ok")
    /\ UNCHANGED <<messages, log, loop, aborted, marker, mode, minted, runs>>

(***************************************************************************)
(* The results go back in one user turn, with the salvage note, a pending  *)
(* mode note and the text drained from the host's queue.  Of the texts     *)
(* only the drained one is logged.                                         *)
(***************************************************************************)
BatchPasses(drained) ==
    /\ pc = "gate"
    /\ messages' = Append(messages,
           UserMsg(results, (IF salvage THEN <<Note>> ELSE <<>>) \o PendingModeTexts \o drained))
    /\ log' = LogUser(drained)
    /\ advertised' = active
    /\ pc' = "top"
    /\ todo' = {} /\ results' = {} /\ salvage' = FALSE
    /\ UNCHANGED <<content, rounds, cutStreak, fullStreak, outcome, aborted, marker, active,
                   toggles, minted, runs>>

\* The request that follows the cap is answered in text, or with nothing.
WrapAnswered(blank) ==
    /\ pc = "wrapup"
    /\ minted' = minted + 1
    /\ Extend(Spoken(blank)) /\ Finish("ok")
    /\ UNCHANGED <<loop, aborted, marker, mode, runs>>

-----------------------------------------------------------------------------
(* The host around the loop                                                 *)

Running == pc \in {"resolving", "top", "model", "tools", "gate", "wrapup"}

\* AbortBus.requestAbort: once per turn; Alt+M aborts to apply a pending mode.
Abort(who) ==
    /\ Running /\ aborted = "none"
    /\ who = "mode" => active # advertised
    /\ aborted' = who
    /\ UNCHANGED <<messages, log, pc, loop, outcome, marker, mode, minted, runs>>

\* Mutant: the cycle does not wrap around.
ToggleModePast ==
    /\ pc # "down" /\ toggles < MaxToggles
    /\ toggles' = toggles + 1
    /\ active' = active + 1
    /\ UNCHANGED <<messages, log, pc, loop, outcome, aborted, marker, advertised, minted, runs>>

\* Shift+Tab: the next mode of the cycle, at any time.
ToggleMode ==
    /\ pc # "down" /\ toggles < MaxToggles
    /\ toggles' = toggles + 1
    /\ active' = (active + 1) % (NumModes + 1)
    /\ UNCHANGED <<messages, log, pc, loop, outcome, aborted, marker, advertised, minted, runs>>

(***************************************************************************)
(* The REPL after run(): an abort, even one the run outlived, leaves the   *)
(* marker for the next turn and rolls back; an error rolls back.           *)
(***************************************************************************)
Settle ==
    LET abort == aborted # "none" \/ outcome = "abort" IN
    /\ pc = "unwinding"
    /\ pc' = "idle" /\ aborted' = "none" /\ outcome' = "ok" /\ ResetLoop
    /\ marker' = IF abort /\ aborted # "mode" THEN "aborted" ELSE marker
    /\ messages' = IF abort \/ outcome = "error" THEN RollbackPendingTurn(messages)
                                                 ELSE messages
    /\ UNCHANGED <<log, mode, minted, runs>>

-----------------------------------------------------------------------------
Answer ==
    \E blank \in BOOLEAN : \/ AnswerCut(blank) \/ AnswerFull(blank) \/ AnswerEnds(blank)
                          \/ WrapAnswered(blank)

\* What the program does by itself once a run has begun.
Advance ==
    \/ PromptResolved \/ ResolverThrows
    \/ NextRound \/ StopAtTop \/ CapReached \/ SendThrows \/ Answer
    \/ \E n \in 1..MaxTools, cut \in BOOLEAN : AnswerCallsTools(n, cut)
    \/ \E id \in todo, how \in {"ran", "canceled"} : ToolReturns(id, how)
    \/ ToolThrows \/ BatchHalted
    \/ Settle

Boundary == \E queued \in BOOLEAN : BatchPasses(IF queued THEN <<Prompt(0)>> ELSE <<>>)

Environment ==
    \/ StartRun \/ ContinueRun \/ ToggleMode
    \/ \E who \in {"user", "mode"} : Abort(who)

Next == Advance \/ Boundary \/ Environment

Spec == Init /\ [][Next]_vars

-----------------------------------------------------------------------------
(* Properties                                                               *)

\* Every variable keeps its type.
TypeOK ==
    /\ messages \in Seq(Message) /\ log \in Seq(Record)
    /\ pc \in Places /\ content \in UserMessage
    /\ todo \in SUBSET Nat /\ results \in SUBSET Result /\ salvage \in BOOLEAN
    /\ {rounds, cutStreak, fullStreak, minted, runs, toggles} \subseteq Nat
    /\ outcome \in {"ok", "abort", "error"}
    /\ aborted \in {"none", "user", "mode"}
    /\ marker \in {"none", "aborted", "resumed"}
    /\ active \in 0..NumModes /\ advertised \in Nat

\* Whenever a request is made, its history ends in a user turn, every tool
\* call in it is answered in full by the next message, every result answers
\* a call just before it, once, and no two answers meet: through aborts,
\* rollbacks, halted batches, thrown tools and cut answers, run after run.
SendIsValid == pc \in {"model", "wrapup"} => Sendable(messages)

\* Whenever a request is made its roles alternate (agent.ts "Keep the
\* assistant->user alternation valid", conversation-history.ts "so roles keep
\* alternating").
RolesAlternate == pc \in {"model", "wrapup"} => Alternates(messages)

\* Between an answer's record and the next one the log holds the results of
\* that answer's calls, each at most once, and no user record comes before
\* them: the order foldRecords relies on to rebuild the tool turn.
LogIsOrdered ==
    \A i \in 1..Len(log) :
        log[i].role = "result" =>
            \E a \in 1..i-1 :
                /\ log[a].role = "assistant"
                /\ IdsOf(log[i].results) \subseteq log[a].uses
                /\ \A k \in a+1..i-1 : /\ log[k].role = "result"
                                        /\ IdsOf(log[k].results) \cap IdsOf(log[i].results) = {}

\* A call whose result the log records as run is never shown to the model as
\* aborted before completion (history-repair.ts, repairOrphanedToolUse).
ResultsAreTrue ==
    \A i \in 1..Len(messages), k \in 1..Len(log) :
        \A r \in messages[i].results, s \in log[k].results :
            r.id = s.id /\ s.outcome = "ran" => r.outcome # "aborted"

AsksOn(m, notes) == \E note \in notes : m = UserMsg({}, <<note>>)

\* The user turns at the end of ms that ask the model to go on with a note,
\* back to the first user turn that is none of the others.
InARow(ms, note, others) ==
    Cardinality({i \in DOMAIN ms :
        /\ AsksOn(ms[i], {note})
        /\ \A k \in i..Len(ms) : ms[k].role = "user" => AsksOn(ms[k], {note} \cup others)})

\* As the history shows it, and not a counter: a cut answer is continued just
\* when fewer than CutCap were in a row before it, and one that filled its
\* budget just when fewer than FullCap were, cut answers among them or not.
\* Whatever came before (tool rounds, mode notes, answers of the other kind,
\* earlier runs), the loop neither gives up early nor asks on too often.
ContinuationsAreCounted ==
    [][\A blank \in BOOLEAN :
        /\ AnswerCut(blank) =>
               (pc' = "top" <=> InARow(messages, CutNote, {}) < CutCap)
        /\ AnswerFull(blank) =>
               (pc' = "top" <=> InARow(messages, FullNote, {CutNote}) < FullCap)]_vars
=============================================================================
