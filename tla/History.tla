------------------------------- MODULE History -------------------------------
(***************************************************************************)
(* The conversation history the agent loop keeps and re-sends, and the     *)
(* operations that repair it (src/src/agent/history-repair.ts and          *)
(* src/src/sdk/conversation-history.ts).                                   *)
(*                                                                         *)
(* A message is its role, the tool calls it makes, the tool results it     *)
(* carries and its text blocks in order.  The order of results among       *)
(* themselves is not kept: nothing depends on it, and every writer puts    *)
(* the results ahead of the texts.                                         *)
(***************************************************************************)
EXTENDS Naturals, Sequences

Outcomes  == {"ran", "canceled", "aborted"}
Result    == [id : Nat, outcome : Outcomes]
TextKinds == {"prompt", "mode", "note", "say", "checkpoint"}
Text      == [kind : TextKinds, val : Nat]

\* Only the user's messages carry results, only the assistant's make calls.
UserMessage ==
    [role : {"user"}, uses : {{}}, results : SUBSET Result, texts : Seq(Text)]
AssistantMessage ==
    [role : {"assistant"}, uses : SUBSET Nat, results : {{}}, texts : Seq(Text)]
Message == UserMessage \cup AssistantMessage

UserMsg(rs, ts)       == [role |-> "user", uses |-> {}, results |-> rs, texts |-> ts]
AssistantMsg(ids, ts) == [role |-> "assistant", uses |-> ids, results |-> {}, texts |-> ts]

IdsOf(rs) == {r.id : r \in rs}

EndsInUser(ms) == ms # <<>> /\ ms[Len(ms)].role = "user"

\* appendUserTurn: coalesce with a trailing user message.
AppendUserTurn(ms, rs, ts) ==
    IF EndsInUser(ms)
    THEN [ms EXCEPT ![Len(ms)] = UserMsg(@.results \cup rs, @.texts \o ts)]
    ELSE Append(ms, UserMsg(rs, ts))

\* repairOrphanedToolUse: the tool calls of a trailing assistant message.
Orphans(ms) ==
    IF ms # <<>> /\ ms[Len(ms)].role = "assistant" THEN ms[Len(ms)].uses ELSE {}

\* rollbackPendingTurn stops at these and keeps them.
LoadBearing(m) == m.role = "assistant" \/ m.results # {}

RollbackPoint(ms) ==
    CHOOSE n \in 0..Len(ms) :
        /\ n > 0 => LoadBearing(ms[n])
        /\ \A i \in 1..Len(ms) : LoadBearing(ms[i]) => i <= n

\* Mutant: tool results are popped with the prompt.
RollbackPendingTurnDeep(ms) ==
    SubSeq(ms, 1, CHOOSE n \in 0..Len(ms) :
                      /\ n > 0 => ms[n].role = "assistant"
                      /\ \A i \in 1..Len(ms) : ms[i].role = "assistant" => i <= n)

\* rollbackPendingTurn: pop the trailing messages that were never answered.
RollbackPendingTurn(ms) == SubSeq(ms, 1, RollbackPoint(ms))

-----------------------------------------------------------------------------
(* What the Messages API accepts, as the code's comments state it.          *)

\* Every tool call before position n is answered, in full, by the next message.
CallsAnswered(ms, n) ==
    \A i \in 1..n :
        ms[i].uses # {} =>
            /\ i < Len(ms)
            /\ ms[i+1].role = "user"
            /\ ms[i].uses \subseteq IdsOf(ms[i+1].results)

\* A result answers a call of the message just before it, once.
ResultsAnswer(ms) ==
    \A i \in 1..Len(ms) :
        /\ ms[i].results # {} => i > 1 /\ IdsOf(ms[i].results) \subseteq ms[i-1].uses
        /\ \A r, s \in ms[i].results : r.id = s.id => r = s

\* No two assistant messages meet, and the first message is the user's.
AnswersFollowUsers(ms) ==
    \A i \in 1..Len(ms) : ms[i].role = "assistant" => i > 1 /\ ms[i-1].role = "user"

Alternates(ms) ==
    AnswersFollowUsers(ms) /\ \A i \in 2..Len(ms) : ms[i].role # ms[i-1].role

\* A history that may be extended by a run: only its last message may be open.
Resumable(ms) ==
    /\ CallsAnswered(ms, Len(ms) - 1)
    /\ ResultsAnswer(ms)
    /\ AnswersFollowUsers(ms)

\* A history that may be sent.
Sendable(ms) ==
    /\ EndsInUser(ms)
    /\ CallsAnswered(ms, Len(ms))
    /\ ResultsAnswer(ms)
    /\ AnswersFollowUsers(ms)
=============================================================================
