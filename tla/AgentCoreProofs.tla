--------------------------- MODULE AgentCoreProofs ---------------------------
(***************************************************************************)
(* The agent loop is type correct, never makes a request with an invalid   *)
(* history and keeps its log in order, for every starting history that may *)
(* be resumed, every cap and every number of tool calls, runs and toggles, *)
(* and it continues an answer as often as its caps say and no more.  Where *)
(* the model never answers with nothing, or no hook or tool breaks off a   *)
(* round, roles alternate and no result is synthetic.                      *)
(***************************************************************************)
EXTENDS AgentCore, FiniteSetTheorems, WellFoundedInduction, TLAPS

-----------------------------------------------------------------------------
(* The history: each operation on it takes a resumable history to a         *)
(* resumable one.                                                          *)

\* The messages the loop builds are messages.
LEMMA MessageTypes ==
    /\ \A rs \in SUBSET Result, ts \in Seq(Text) : UserMsg(rs, ts) \in UserMessage
    /\ \A ids \in SUBSET Nat, ts \in Seq(Text) : AssistantMsg(ids, ts) \in AssistantMessage
  BY DEF UserMsg, AssistantMsg, UserMessage, AssistantMessage

\* A user message makes no calls, an assistant message carries no results.
LEMMA MessageShapes ==
    \A m \in Message :
        /\ m.role = "user" \/ m.role = "assistant"
        /\ m.role = "user" => m \in UserMessage /\ m.uses = {}
        /\ m.role = "assistant" => m \in AssistantMessage /\ m.results = {}
        /\ m.uses \in SUBSET Nat /\ m.results \in SUBSET Result /\ m.texts \in Seq(Text)
  BY DEF Message, UserMessage, AssistantMessage

\* The ids of a set of results are numbers.
LEMMA IdsTypes ==
    \A rs \in SUBSET Result : IdsOf(rs) \in SUBSET Nat
  BY DEF IdsOf, Result

\* rollbackPendingTurn stops at a position of the history: the least position
\* that every load-bearing message is at or below is itself load-bearing.
LEMMA RollbackPointExists ==
  ASSUME NEW ms \in Seq(Message)
  PROVE  /\ RollbackPoint(ms) \in 0..Len(ms)
         /\ RollbackPoint(ms) > 0 => LoadBearing(ms[RollbackPoint(ms)])
         /\ \A i \in 1..Len(ms) : LoadBearing(ms[i]) => i <= RollbackPoint(ms)
  <1> DEFINE Bound(n) == \A i \in 1..Len(ms) : LoadBearing(ms[i]) => i <= n
             T == {n \in Nat : n <= Len(ms) /\ Bound(n)}
  <1>1. Len(ms) \in Nat /\ T \subseteq Nat /\ Len(ms) \in T
    OBVIOUS
  <1> HIDE DEF T
  <1>2. PICK n \in T : \A k \in T : ~ (<<k, n>> \in OpToRel(<, Nat))
    BY <1>1, WFMin, NatLessThanWellFounded, Zenon
  <1>3. n \in Nat /\ n <= Len(ms) /\ Bound(n)
    BY <1>2 DEF T
  <1>4. \A k \in T : ~ (k < n)
    BY <1>1, <1>2, <1>3 DEF OpToRel
  <1>5. n > 0 => LoadBearing(ms[n])
    <2> SUFFICES ASSUME n > 0, ~ LoadBearing(ms[n]) PROVE FALSE
      OBVIOUS
    <2>1. n-1 \in Nat /\ n-1 <= Len(ms)
      BY <1>1, <1>3
    <2>2. ASSUME NEW i \in 1..Len(ms), LoadBearing(ms[i]) PROVE i <= n-1
      <3>1. i <= n /\ i # n
        BY <1>3, <2>2
      <3> QED BY <3>1, <1>3
    <2>3. n-1 \in T
      BY <2>1, <2>2 DEF T
    <2> QED BY <2>3, <1>3, <1>4
  <1>6. n \in 0..Len(ms)
    BY <1>1, <1>3
  <1> QED BY <1>3, <1>5, <1>6 DEF RollbackPoint

\* A prefix of a resumable history is resumable.
LEMMA PrefixResumable ==
  ASSUME NEW ms \in Seq(Message), Resumable(ms), NEW n \in 0..Len(ms)
  PROVE  SubSeq(ms, 1, n) \in Seq(Message) /\ Resumable(SubSeq(ms, 1, n))
  <1> DEFINE pre == SubSeq(ms, 1, n)
  <1>1. pre \in Seq(Message) /\ Len(pre) = n /\ \A i \in 1..n : pre[i] = ms[i]
    OBVIOUS
  <1>2. n \in Nat /\ Len(ms) \in Nat /\ n <= Len(ms)
    OBVIOUS
  <1> HIDE DEF pre
  <1>3. CallsAnswered(pre, Len(pre) - 1)
    <2> SUFFICES ASSUME NEW i \in 1..n - 1, pre[i].uses # {}
                 PROVE  /\ i < Len(pre) /\ pre[i+1].role = "user"
                        /\ pre[i].uses \subseteq IdsOf(pre[i+1].results)
      BY <1>1 DEF CallsAnswered
    <2>1. i \in 1..Len(ms) - 1 /\ pre[i] = ms[i] /\ pre[i+1] = ms[i+1] /\ i < Len(pre)
      BY <1>1, <1>2
    <2> QED BY <2>1 DEF Resumable, CallsAnswered
  <1>4. ResultsAnswer(pre)
    <2> SUFFICES ASSUME NEW i \in 1..n
                 PROVE  /\ pre[i].results # {} =>
                              i > 1 /\ IdsOf(pre[i].results) \subseteq pre[i-1].uses
                        /\ \A r, s \in pre[i].results : r.id = s.id => r = s
      BY <1>1 DEF ResultsAnswer
    <2>1. i \in 1..Len(ms) /\ pre[i] = ms[i] /\ (i > 1 => pre[i-1] = ms[i-1])
      BY <1>1, <1>2
    <2>2. /\ ms[i].results # {} => i > 1 /\ IdsOf(ms[i].results) \subseteq ms[i-1].uses
          /\ \A r, s \in ms[i].results : r.id = s.id => r = s
      BY <2>1 DEF Resumable, ResultsAnswer
    <2> QED BY <2>1, <2>2
  <1>5. AnswersFollowUsers(pre)
    <2> SUFFICES ASSUME NEW i \in 1..n, pre[i].role = "assistant"
                 PROVE  i > 1 /\ pre[i-1].role = "user"
      BY <1>1 DEF AnswersFollowUsers
    <2>1. i \in 1..Len(ms) /\ pre[i] = ms[i] /\ (i > 1 => pre[i-1] = ms[i-1])
      BY <1>1, <1>2
    <2>2. i > 1 /\ ms[i-1].role = "user"
      BY <2>1 DEF Resumable, AnswersFollowUsers
    <2> QED BY <2>1, <2>2
  <1> QED BY <1>1, <1>3, <1>4, <1>5 DEF Resumable, pre

\* rollbackPendingTurn leaves a resumable history resumable.
LEMMA RollbackResumable ==
  ASSUME NEW ms \in Seq(Message), Resumable(ms)
  PROVE  RollbackPendingTurn(ms) \in Seq(Message) /\ Resumable(RollbackPendingTurn(ms))
  BY RollbackPointExists, PrefixResumable DEF RollbackPendingTurn

\* An answer to a user turn keeps the history resumable.
LEMMA AnswerResumable ==
  ASSUME NEW ms \in Seq(Message), Resumable(ms), EndsInUser(ms), NEW m \in AssistantMessage
  PROVE  /\ Append(ms, m) \in Seq(Message) /\ Resumable(Append(ms, m))
         /\ Len(Append(ms, m)) = Len(ms) + 1 /\ Append(ms, m)[Len(ms) + 1] = m
  <1> DEFINE new == Append(ms, m)
  <1>1. /\ new \in Seq(Message) /\ Len(new) = Len(ms) + 1 /\ new[Len(ms) + 1] = m
        /\ \A i \in 1..Len(ms) : new[i] = ms[i]
    BY DEF Message
  <1>2. Len(ms) \in Nat /\ Len(ms) > 0 /\ ms[Len(ms)].role = "user" /\ ms[Len(ms)].uses = {}
    BY MessageShapes DEF EndsInUser
  <1>3. m.role = "assistant" /\ m.results = {}
    BY DEF AssistantMessage
  <1> HIDE DEF new
  <1>4. CallsAnswered(new, Len(new) - 1)
    <2> SUFFICES ASSUME NEW i \in 1..Len(ms), new[i].uses # {}
                 PROVE  /\ i < Len(new) /\ new[i+1].role = "user"
                        /\ new[i].uses \subseteq IdsOf(new[i+1].results)
      BY <1>1, <1>2 DEF CallsAnswered
    <2>1. i \in 1..Len(ms) - 1
      BY <1>1, <1>2
    <2>2. /\ new[i] = ms[i] /\ new[i+1] = ms[i+1] /\ i < Len(new)
      BY <1>1, <1>2, <2>1
    <2> QED BY <2>1, <2>2 DEF Resumable, CallsAnswered
  <1>5. ResultsAnswer(new)
    <2> SUFFICES ASSUME NEW i \in 1..Len(ms) + 1
                 PROVE  /\ new[i].results # {} =>
                              i > 1 /\ IdsOf(new[i].results) \subseteq new[i-1].uses
                        /\ \A r, s \in new[i].results : r.id = s.id => r = s
      BY <1>1 DEF ResultsAnswer
    <2>1. CASE i = Len(ms) + 1
      BY <1>1, <1>3, <2>1
    <2>2. CASE i \in 1..Len(ms)
      <3>1. new[i] = ms[i] /\ (i > 1 => new[i-1] = ms[i-1])
        BY <1>1, <1>2, <2>2
      <3>2. /\ ms[i].results # {} => i > 1 /\ IdsOf(ms[i].results) \subseteq ms[i-1].uses
            /\ \A r, s \in ms[i].results : r.id = s.id => r = s
        BY <2>2 DEF Resumable, ResultsAnswer
      <3> QED BY <3>1, <3>2
    <2> QED BY <1>2, <2>1, <2>2
  <1>6. AnswersFollowUsers(new)
    <2> SUFFICES ASSUME NEW i \in 1..Len(ms) + 1, new[i].role = "assistant"
                 PROVE  i > 1 /\ new[i-1].role = "user"
      BY <1>1 DEF AnswersFollowUsers
    <2>1. CASE i = Len(ms) + 1
      BY <1>1, <1>2, <2>1
    <2>2. CASE i \in 1..Len(ms)
      <3>1. new[i] = ms[i] /\ (i > 1 => new[i-1] = ms[i-1])
        BY <1>1, <1>2, <2>2
      <3>2. i > 1 /\ ms[i-1].role = "user"
        BY <2>2, <3>1 DEF Resumable, AnswersFollowUsers
      <3> QED BY <3>1, <3>2
    <2> QED BY <1>2, <2>1, <2>2
  <1> QED BY <1>1, <1>4, <1>5, <1>6 DEF Resumable, new

\* The last message's calls, and only they, are answered by results rs, once.
AnswersLast(ms, rs) ==
    /\ IF ms # <<>> /\ ms[Len(ms)].role = "assistant"
       THEN IdsOf(rs) = ms[Len(ms)].uses
       ELSE rs = {}
    /\ \A r, s \in rs : r.id = s.id => r = s

\* A user turn that answers the open calls makes the history sendable.
LEMMA UserTurnResumable ==
  ASSUME NEW ms \in Seq(Message), Resumable(ms), NEW m \in UserMessage,
         AnswersLast(ms, m.results)
  PROVE  /\ Append(ms, m) \in Seq(Message)
         /\ Resumable(Append(ms, m)) /\ EndsInUser(Append(ms, m))
  <1> DEFINE new == Append(ms, m)
  <1>1. /\ new \in Seq(Message) /\ Len(new) = Len(ms) + 1 /\ new[Len(ms) + 1] = m
        /\ \A i \in 1..Len(ms) : new[i] = ms[i]
        /\ new # <<>>
    BY DEF Message
  <1>2. Len(ms) \in Nat /\ (Len(ms) > 0 <=> ms # <<>>) /\ \A i \in 1..Len(ms) : ms[i] \in Message
    OBVIOUS
  <1>3. m.role = "user" /\ m.uses = {}
    BY DEF UserMessage
  <1> HIDE DEF new
  <1>4. CallsAnswered(new, Len(new) - 1)
    <2> SUFFICES ASSUME NEW i \in 1..Len(ms), new[i].uses # {}
                 PROVE  /\ i < Len(new) /\ new[i+1].role = "user"
                        /\ new[i].uses \subseteq IdsOf(new[i+1].results)
      BY <1>1, <1>2 DEF CallsAnswered
    <2>1. CASE i = Len(ms)
      BY <1>1, <1>2, <1>3, <2>1, MessageShapes DEF AnswersLast
    <2>2. CASE i \in 1..Len(ms) - 1
      <3>1. /\ new[i] = ms[i] /\ new[i+1] = ms[i+1] /\ i < Len(new)
        BY <1>1, <1>2, <2>2
      <3> QED BY <2>2, <3>1 DEF Resumable, CallsAnswered
    <2> QED BY <1>2, <2>1, <2>2
  <1>5. ResultsAnswer(new)
    <2> SUFFICES ASSUME NEW i \in 1..Len(ms) + 1
                 PROVE  /\ new[i].results # {} =>
                              i > 1 /\ IdsOf(new[i].results) \subseteq new[i-1].uses
                        /\ \A r, s \in new[i].results : r.id = s.id => r = s
      BY <1>1 DEF ResultsAnswer
    <2>1. CASE i = Len(ms) + 1
      BY <1>1, <1>2, <2>1 DEF AnswersLast
    <2>2. CASE i \in 1..Len(ms)
      <3>1. new[i] = ms[i] /\ (i > 1 => new[i-1] = ms[i-1])
        BY <1>1, <1>2, <2>2
      <3>2. /\ ms[i].results # {} => i > 1 /\ IdsOf(ms[i].results) \subseteq ms[i-1].uses
            /\ \A r, s \in ms[i].results : r.id = s.id => r = s
        BY <2>2 DEF Resumable, ResultsAnswer
      <3> QED BY <3>1, <3>2
    <2> QED BY <1>2, <2>1, <2>2
  <1>6. AnswersFollowUsers(new)
    <2> SUFFICES ASSUME NEW i \in 1..Len(ms) + 1, new[i].role = "assistant"
                 PROVE  i > 1 /\ new[i-1].role = "user"
      BY <1>1 DEF AnswersFollowUsers
    <2>1. CASE i = Len(ms) + 1
      BY <1>1, <1>3, <2>1
    <2>2. CASE i \in 1..Len(ms)
      <3>1. new[i] = ms[i] /\ (i > 1 => new[i-1] = ms[i-1])
        BY <1>1, <1>2, <2>2
      <3>2. i > 1 /\ ms[i-1].role = "user"
        BY <2>2, <3>1 DEF Resumable, AnswersFollowUsers
      <3> QED BY <3>1, <3>2
    <2> QED BY <1>2, <2>1, <2>2
  <1>7. EndsInUser(new)
    BY <1>1, <1>2, <1>3 DEF EndsInUser
  <1> QED BY <1>1, <1>4, <1>5, <1>6, <1>7 DEF Resumable, new

\* appendUserTurn with the results of the open calls makes it sendable.
LEMMA AppendUserTurnResumable ==
  ASSUME NEW ms \in Seq(Message), Resumable(ms), NEW rs \in SUBSET Result,
         NEW ts \in Seq(Text), AnswersLast(ms, rs)
  PROVE  /\ AppendUserTurn(ms, rs, ts) \in Seq(Message)
         /\ Resumable(AppendUserTurn(ms, rs, ts)) /\ EndsInUser(AppendUserTurn(ms, rs, ts))
  <1>1. CASE ~ EndsInUser(ms)
    <2>1. AppendUserTurn(ms, rs, ts) = Append(ms, UserMsg(rs, ts))
      BY <1>1 DEF AppendUserTurn
    <2>2. UserMsg(rs, ts) \in UserMessage /\ UserMsg(rs, ts).results = rs
      BY MessageTypes DEF UserMsg
    <2> QED BY <2>1, <2>2, UserTurnResumable
  <1>2. CASE EndsInUser(ms)
    <2> DEFINE last == ms[Len(ms)]
               m == UserMsg(last.results \cup rs, last.texts \o ts)
               new == AppendUserTurn(ms, rs, ts)
    <2>1. Len(ms) \in Nat /\ Len(ms) > 0 /\ last \in Message /\ last.role = "user"
      BY <1>2 DEF EndsInUser
    <2>2. rs = {} /\ last.results \in SUBSET Result /\ last.texts \o ts \in Seq(Text)
          /\ last.uses = {}
      BY <2>1, MessageShapes DEF AnswersLast
    <2>3. m \in UserMessage /\ m.role = "user" /\ m.uses = {} /\ m.results = last.results
      BY <2>2, MessageTypes DEF UserMsg
    <2>4. new = [ms EXCEPT ![Len(ms)] = m]
      BY <1>2 DEF AppendUserTurn
    <2> HIDE DEF m, new
    <2>5. /\ new \in Seq(Message) /\ Len(new) = Len(ms)
          /\ \A i \in 1..Len(ms) : new[i] = IF i = Len(ms) THEN m ELSE ms[i]
      <3>1. m \in Message
        BY <2>3 DEF Message
      <3> QED BY <2>1, <2>4, <3>1
    <2>6. \A i \in 1..Len(ms) : /\ new[i].role = ms[i].role
                               /\ new[i].uses = ms[i].uses
                               /\ new[i].results = ms[i].results
      BY <2>1, <2>2, <2>3, <2>5
    <2>11. CallsAnswered(new, Len(new) - 1)
      <3> SUFFICES ASSUME NEW i \in 1..Len(ms) - 1, new[i].uses # {}
                   PROVE  /\ i < Len(new) /\ new[i+1].role = "user"
                          /\ new[i].uses \subseteq IdsOf(new[i+1].results)
        BY <2>5 DEF CallsAnswered
      <3>1. i \in 1..Len(ms) /\ i+1 \in 1..Len(ms)
        BY <2>1
      <3>2. /\ new[i].uses = ms[i].uses /\ new[i+1].role = ms[i+1].role
            /\ new[i+1].results = ms[i+1].results
        BY <2>6, <3>1
      <3>3. /\ i < Len(ms) /\ ms[i+1].role = "user"
            /\ ms[i].uses \subseteq IdsOf(ms[i+1].results)
        BY <3>2 DEF Resumable, CallsAnswered
      <3> QED BY <2>5, <3>2, <3>3
    <2>7. ResultsAnswer(new)
      <3> SUFFICES ASSUME NEW i \in 1..Len(ms)
                   PROVE  /\ new[i].results # {} =>
                                i > 1 /\ IdsOf(new[i].results) \subseteq new[i-1].uses
                          /\ \A r, s \in new[i].results : r.id = s.id => r = s
        BY <2>5 DEF ResultsAnswer
      <3>1. new[i].results = ms[i].results /\ (i > 1 => new[i-1].uses = ms[i-1].uses)
        BY <2>1, <2>6
      <3>2. /\ ms[i].results # {} => i > 1 /\ IdsOf(ms[i].results) \subseteq ms[i-1].uses
            /\ \A r, s \in ms[i].results : r.id = s.id => r = s
        BY DEF Resumable, ResultsAnswer
      <3> QED BY <3>1, <3>2
    <2>8. AnswersFollowUsers(new)
      <3> SUFFICES ASSUME NEW i \in 1..Len(ms), new[i].role = "assistant"
                   PROVE  i > 1 /\ new[i-1].role = "user"
        BY <2>5 DEF AnswersFollowUsers
      <3>1. new[i].role = ms[i].role /\ (i > 1 => new[i-1].role = ms[i-1].role)
        BY <2>1, <2>6
      <3>2. i > 1 /\ ms[i-1].role = "user"
        BY <3>1 DEF Resumable, AnswersFollowUsers
      <3> QED BY <3>1, <3>2
    <2>9. EndsInUser(new)
      <3>1. new # <<>>
        BY <2>1, <2>5
      <3> QED BY <2>1, <2>5, <2>6, <3>1 DEF EndsInUser
    <2> QED BY <2>5, <2>11, <2>7, <2>8, <2>9 DEF Resumable, new
  <1> QED BY <1>1, <1>2

\* The synthetic results of repairOrphanedToolUse answer the open calls.
LEMMA OrphansAnswerLast ==
  ASSUME NEW ms \in Seq(Message)
  PROVE  LET rs == {[id |-> id, outcome |-> "aborted"] : id \in Orphans(ms)}
         IN rs \in SUBSET Result /\ AnswersLast(ms, rs)
  <1> DEFINE rs == {[id |-> id, outcome |-> "aborted"] : id \in Orphans(ms)}
  <1>1. Orphans(ms) \in SUBSET Nat
    <2>1. ms # <<>> => ms[Len(ms)] \in Message
      OBVIOUS
    <2> QED BY <2>1, MessageShapes DEF Orphans
  <1>2. rs \in SUBSET Result
    BY <1>1 DEF Result, Outcomes
  <1>3. /\ \A id \in Orphans(ms) : [id |-> id, outcome |-> "aborted"] \in rs
        /\ \A r \in rs : r.id \in Orphans(ms) /\ r = [id |-> r.id, outcome |-> "aborted"]
    OBVIOUS
  <1> HIDE DEF rs
  <1>4. \A id \in Orphans(ms) : id \in IdsOf(rs)
    <2> TAKE id \in Orphans(ms)
    <2>1. [id |-> id, outcome |-> "aborted"].id = id
      OBVIOUS
    <2> QED BY <1>3, <2>1 DEF IdsOf
  <1>5. IdsOf(rs) = Orphans(ms)
    BY <1>3, <1>4 DEF IdsOf
  <1>6. \A r, s \in rs : r.id = s.id => r = s
    BY <1>3
  <1> QED BY <1>2, <1>5, <1>6 DEF AnswersLast, Orphans, rs

\* A resumable history that ends in a user turn may be sent.
LEMMA ResumableSendable ==
  ASSUME NEW ms \in Seq(Message), Resumable(ms), EndsInUser(ms)
  PROVE  Sendable(ms)
  <1>1. Len(ms) \in Nat /\ Len(ms) > 0 /\ ms[Len(ms)].uses = {}
    BY MessageShapes DEF EndsInUser
  <1>2. CallsAnswered(ms, Len(ms))
    BY <1>1 DEF Resumable, CallsAnswered
  <1> QED BY <1>2 DEF Resumable, Sendable

-----------------------------------------------------------------------------
(* The loop                                                                *)

\* While tools run, the last message is the answer that called them: each of
\* its calls is still to run or has one result.
RoundInv ==
    /\ messages # <<>> /\ messages[Len(messages)].role = "assistant"
    /\ messages[Len(messages)].uses = IdsOf(results) \cup todo
    /\ IdsOf(results) \cup todo # {}
    /\ IdsOf(results) \cap todo = {}
    /\ \A r, s \in results : r.id = s.id => r = s

\* Every variable but the log has its type.
LoopTypes ==
    /\ messages \in Seq(Message)
    /\ pc \in Places /\ content \in UserMessage
    /\ todo \in SUBSET Nat /\ results \in SUBSET Result /\ salvage \in BOOLEAN
    /\ {rounds, cutStreak, fullStreak, minted, runs, toggles} \subseteq Nat
    /\ outcome \in {"ok", "abort", "error"}
    /\ aborted \in {"none", "user", "mode"}
    /\ marker \in {"none", "aborted", "resumed"}
    /\ active \in 0..NumModes /\ advertised \in Nat

\* No mode note names a mode nobody knows.
Known(ts) == \A k \in DOMAIN ts : ts[k].kind = "mode" => ts[k].val \in 0..NumModes

\* While the prompt is resolved, the turn in hand still answers the calls the
\* history leaves open, and says something.
ContentInv ==
    content.results = OrphanResults /\ content.texts # <<>> /\ Known(content.texts)

IInv ==
    /\ LoopTypes
    /\ Resumable(messages)
    /\ pc = "resolving" => ContentInv
    /\ pc \in {"top", "model", "wrapup"} => EndsInUser(messages)
    /\ pc \in {"tools", "gate"} => RoundInv
    /\ pc = "gate" => todo = {}

-----------------------------------------------------------------------------
\* A user message that is not empty.
Says(m) == m.role = "user" => m.results # {} \/ m.texts # <<>>

\* Nothing empty, and no mode nobody knows.
Fit(ms) == \A i \in 1..Len(ms) : Says(ms[i]) /\ Known(ms[i].texts)

\* Texts put one after the other are known if all of them are.
LEMMA KnownJoin ==
  ASSUME NEW a \in Seq(Text), NEW b \in Seq(Text), Known(a), Known(b)
  PROVE  /\ a \o b \in Seq(Text) /\ Known(a \o b)
         /\ a # <<>> \/ b # <<>> => a \o b # <<>>
  <1> HIDE DEF Text
  <1>1. \A k \in DOMAIN (a \o b) : \/ \E i \in DOMAIN a : (a \o b)[k] = a[i]
                                   \/ \E i \in DOMAIN b : (a \o b)[k] = b[i]
    <2> TAKE k \in DOMAIN (a \o b)
    <2>1. k \in 1..Len(a) + Len(b)
      OBVIOUS
    <2>2. CASE k \in 1..Len(a)
      BY <2>2
    <2>3. CASE k \notin 1..Len(a)
      <3>1. k - Len(a) \in 1..Len(b) /\ (a \o b)[k] = b[k - Len(a)]
        BY <2>1, <2>3
      <3>2. k - Len(a) \in DOMAIN b
        BY <3>1
      <3> QED BY <3>1, <3>2
    <2> QED BY <2>2, <2>3
  <1>2. a \o b \in Seq(Text) /\ (a # <<>> \/ b # <<>> => a \o b # <<>>)
    OBVIOUS
  <1>3. Known(a \o b)
    BY <1>1 DEF Known
  <1> QED BY <1>2, <1>3

\* The texts the loop and its host write are texts.
LEMMA TextTypes ==
    /\ <<>> \in Seq(Text) /\ <<Note>> \in Seq(Text)
    /\ <<CutNote>> \in Seq(Text) /\ <<FullNote>> \in Seq(Text)
    /\ \A n \in Nat : <<Prompt(n)>> \in Seq(Text) /\ <<Say(n)>> \in Seq(Text)
    /\ LoopTypes => PendingModeTexts \in Seq(Text)
  <1>1. /\ Note \in Text /\ CutNote \in Text /\ FullNote \in Text
        /\ \A n \in Nat : Prompt(n) \in Text /\ Say(n) \in Text /\ ModeNote(n) \in Text
    BY DEF Note, CutNote, FullNote, Prompt, Say, ModeNote, Text, TextKinds
  <1>2. LoopTypes => active \in Nat
    BY BoundsAssumption DEF LoopTypes
  <1> QED BY <1>1, <1>2 DEF PendingModeTexts

\* The modes they name are modes.
LEMMA TextsKnown ==
    /\ Known(<<>>) /\ Known(<<Note>>) /\ Known(<<CutNote>>) /\ Known(<<FullNote>>)
    /\ \A n \in Nat : Known(<<Prompt(n)>>) /\ Known(<<Say(n)>>)
    /\ LoopTypes => Known(PendingModeTexts)
  BY DEF Known, Note, CutNote, FullNote, Prompt, Say, ModeNote, PendingModeTexts, LoopTypes

\* The answer without calls is at most one assistant message.
LEMMA SpokenTypes ==
  ASSUME LoopTypes, NEW blank \in BOOLEAN
  PROVE  \/ Spoken(blank) = <<>>
         \/ \E m \in AssistantMessage :
                m.uses = {} /\ Known(m.texts) /\ Spoken(blank) = <<m>>
  <1>1. minted + 1 \in Nat
    BY DEF LoopTypes
  <1> DEFINE m == AssistantMsg({}, <<Say(minted + 1)>>)
  <1>2. m \in AssistantMessage /\ m.uses = {} /\ m.texts = <<Say(minted + 1)>>
    BY <1>1, MessageTypes, TextTypes DEF AssistantMsg
  <1>3. Known(m.texts)
    BY <1>1, <1>2, TextsKnown
  <1> QED BY <1>2, <1>3 DEF Spoken

\* A turn without anything in it is a user message.
LEMMA NoContentType == NoContent \in UserMessage
  BY MessageTypes, TextTypes DEF NoContent

\* The locals of run() start with their types.
LEMMA ResetTypes ==
  ASSUME ResetLoop
  PROVE  /\ content' \in UserMessage
         /\ todo' \in SUBSET Nat /\ results' \in SUBSET Result /\ salvage' \in BOOLEAN
         /\ rounds' \in Nat /\ cutStreak' \in Nat /\ fullStreak' \in Nat
  <1>1. salvage' \in BOOLEAN
    BY Zenon DEF ResetLoop
  <1>2. content' \in UserMessage
    BY NoContentType DEF ResetLoop
  <1> QED BY <1>1, <1>2 DEF ResetLoop

\* The bounds, the counters and the modes are numbers.
LEMMA Numbers ==
    /\ MaxTools \in Nat /\ NumModes \in Nat
    /\ LoopTypes => /\ rounds \in Nat /\ cutStreak \in Nat /\ fullStreak \in Nat
                 /\ minted \in Nat /\ runs \in Nat /\ toggles \in Nat
                 /\ active \in Nat /\ advertised \in Nat
  <1>1. MaxTools \in Nat /\ NumModes \in Nat
    BY BoundsAssumption
  <1> QED BY <1>1 DEF LoopTypes

\* A remainder is less than its divisor.
LEMMA ModBounds == \A a, n \in Nat : a % (n + 1) \in 0..n
  OBVIOUS

\* The initial state satisfies the inductive invariant.
LEMMA InitInv == Init => IInv
  <1> SUFFICES ASSUME Init PROVE IInv
    OBVIOUS
  <1>1. messages \in Seq(Message) /\ Resumable(messages)
    BY InitialAssumption DEF Init
  <1>3. 0 \in 0..NumModes
    BY BoundsAssumption
  <1>4. salvage \in BOOLEAN
    BY Zenon DEF Init
  <1>5. LoopTypes
    BY <1>1, <1>3, <1>4, NoContentType DEF Init, LoopTypes, Places
  <1> QED BY <1>1, <1>5 DEF Init, IInv

-----------------------------------------------------------------------------
\* What stands before the prompt, and the turn with the prompt behind it.
LEMMA OpeningTypes ==
  ASSUME LoopTypes, NEW mark \in {"none", "aborted", "resumed"},
         NEW prompt \in Seq(Text), Known(prompt), mark # "none" \/ prompt # <<>>
  PROVE  /\ Opening(mark) \o prompt \in Seq(Text) /\ Known(Opening(mark) \o prompt)
         /\ Opening(mark) \o prompt # <<>>
  <1> DEFINE head == IF mark = "none" THEN <<>> ELSE <<Note>>
  <1>1. head \in Seq(Text) /\ Known(head) /\ (mark # "none" => head # <<>>)
    BY TextTypes, TextsKnown
  <1>2. PendingModeTexts \in Seq(Text) /\ Known(PendingModeTexts)
    BY TextTypes, TextsKnown
  <1>3. Opening(mark) = head \o PendingModeTexts
    BY DEF Opening
  <1> HIDE DEF head
  <1>4. /\ Opening(mark) \in Seq(Text) /\ Known(Opening(mark))
        /\ mark # "none" => Opening(mark) # <<>>
    BY <1>1, <1>2, <1>3, KnownJoin
  <1> QED BY <1>4, KnownJoin

\* /continue: the marker always stands.
LEMMA ResumedTypes ==
  ASSUME LoopTypes
  PROVE  /\ Opening("resumed") \in Seq(Text) /\ Known(Opening("resumed"))
         /\ Opening("resumed") # <<>>
  <1>1. <<>> \in Seq(Text) /\ Known(<<>>)
    BY TextTypes, TextsKnown
  <1>2. /\ Opening("resumed") \o <<>> \in Seq(Text) /\ Known(Opening("resumed") \o <<>>)
        /\ Opening("resumed") \o <<>> # <<>>
    BY <1>1, OpeningTypes
  <1>3. PendingModeTexts \in Seq(Text) /\ <<Note>> \in Seq(Text)
    BY TextTypes
  <1>4. Opening("resumed") = <<Note>> \o PendingModeTexts
    BY DEF Opening
  <1>5. Opening("resumed") \in Seq(Text)
    BY <1>3, <1>4
  <1>6. Opening("resumed") \o <<>> = Opening("resumed")
    BY <1>5
  <1> QED BY <1>2, <1>6

\* A typed prompt: the turn in hand.
LEMMA StartContent ==
  ASSUME LoopTypes, Resumable(messages), StartRun
  PROVE  /\ content' \in UserMessage /\ ContentInv'
         /\ content'.texts = Opening(marker) \o <<Prompt(runs + 1)>>
  <1> DEFINE ts == Opening(marker) \o <<Prompt(runs + 1)>>
  <1>1. runs + 1 \in Nat /\ marker \in {"none", "aborted", "resumed"}
    BY DEF LoopTypes
  <1>2. <<Prompt(runs + 1)>> \in Seq(Text) /\ Known(<<Prompt(runs + 1)>>)
    BY <1>1, TextTypes, TextsKnown
  <1>3. ts \in Seq(Text) /\ Known(ts) /\ ts # <<>>
    BY <1>1, <1>2, OpeningTypes
  <1>4. OrphanResults \in SUBSET Result
    BY OrphansAnswerLast DEF OrphanResults, LoopTypes
  <1>5. content' = UserMsg(OrphanResults, ts) /\ messages' = messages
    BY DEF StartRun
  <1> HIDE DEF ts
  <1>6. content' \in UserMessage /\ content'.results = OrphanResults /\ content'.texts = ts
    BY <1>3, <1>4, <1>5, MessageTypes DEF UserMsg
  <1>7. OrphanResults' = OrphanResults
    BY <1>5 DEF OrphanResults
  <1> QED BY <1>3, <1>6, <1>7 DEF ContentInv, ts

\* The turn that opens a run makes the history sendable.
LEMMA OpenTurnInv ==
  ASSUME IInv, NEW ts \in Seq(Text), OpenTurn(OrphanResults, ts),
         UNCHANGED <<outcome, aborted, active, toggles, minted>>,
         marker' \in {"none", "aborted", "resumed"}, advertised' \in Nat, runs' \in Nat
  PROVE  IInv'
  <1>1. LoopTypes /\ messages \in Seq(Message) /\ Resumable(messages)
    BY DEF IInv, LoopTypes
  <1>3. messages' = AppendUserTurn(messages, OrphanResults, ts) /\ pc' = "top" /\ ResetLoop
    BY DEF OpenTurn
  <1>4. OrphanResults \in SUBSET Result /\ AnswersLast(messages, OrphanResults)
    BY <1>1, OrphansAnswerLast DEF OrphanResults
  <1>5. messages' \in Seq(Message) /\ Resumable(messages') /\ EndsInUser(messages')
    BY <1>1, <1>3, <1>4, AppendUserTurnResumable
  <1>8. LoopTypes'
    BY <1>1, <1>3, <1>5, ResetTypes DEF LoopTypes, Places
  <1> QED BY <1>3, <1>5, <1>8 DEF IInv

LEMMA BeginInv ==
  ASSUME IInv, StartRun \/ ContinueRun \/ PromptResolved
  PROVE  IInv'
  <1>1. LoopTypes /\ Resumable(messages)
    BY DEF IInv
  <1>2. active \in Nat /\ runs \in Nat /\ runs + 1 \in Nat /\ advertised \in Nat
    BY <1>1, Numbers
  <1>3. CASE StartRun
    <2>1. content' \in UserMessage /\ ContentInv'
      BY <1>1, <1>3, StartContent
    <2>2. LoopTypes'
      BY <1>1, <1>2, <1>3, <2>1 DEF LoopTypes, StartRun, Begin, Places
    <2> QED BY <1>1, <1>3, <2>1, <2>2 DEF IInv, StartRun
  <1>4. CASE ContinueRun
    <2>1. Opening("resumed") \in Seq(Text)
      BY <1>1, ResumedTypes
    <2> QED BY <1>1, <1>2, <1>4, <2>1, OpenTurnInv DEF ContinueRun, Begin
  <1>5. CASE PromptResolved
    <2>1. content.texts \in Seq(Text) /\ content.results = OrphanResults
      BY <1>1, <1>5 DEF IInv, ContentInv, PromptResolved, LoopTypes, UserMessage
    <2>2. marker \in {"none", "aborted", "resumed"}
      BY <1>1 DEF LoopTypes
    <2> QED BY <1>2, <1>5, <2>1, <2>2, OpenTurnInv DEF PromptResolved, mode
  <1> QED BY <1>3, <1>4, <1>5

\* A step that leaves the history and the round alone preserves the invariant.
LEMMA KeepsHistory ==
  ASSUME IInv, LoopTypes', UNCHANGED messages,
         \/ pc' \in {"idle", "unwinding", "down"}
         \/ pc' \in {"top", "model", "wrapup"} /\ pc \in {"top", "model", "wrapup"}
         \/ pc' = pc /\ UNCHANGED <<content, todo, results>>
  PROVE  IInv'
  BY DEF IInv, RoundInv, ContentInv, OrphanResults

\* The steps that only move along, or end the run.
LEMMA MoveInv ==
  ASSUME IInv, \/ NextRound \/ StopAtTop \/ SendThrows \/ ToolThrows \/ BatchHalted
               \/ ResolverThrows \/ ToggleMode \/ \E who \in {"user", "mode"} : Abort(who)
  PROVE  IInv'
  <1>1. CASE NextRound
    <2>1. LoopTypes'
      BY <1>1 DEF IInv, LoopTypes, NextRound, mode, Places
    <2> QED BY <1>1, <2>1, KeepsHistory DEF NextRound
  <1>2. CASE StopAtTop \/ SendThrows \/ ToolThrows \/ BatchHalted \/ ResolverThrows
    <2>1. LoopTypes'
      BY <1>2 DEF IInv, LoopTypes, StopAtTop, SendThrows, ToolThrows, BatchHalted,
                  ResolverThrows, Finish, mode, loop, Places
    <2> QED BY <1>2, <2>1, KeepsHistory
            DEF StopAtTop, SendThrows, ToolThrows, BatchHalted, ResolverThrows, Finish
  <1>3. CASE ToggleMode
    <2>1. (active + 1) % (NumModes + 1) \in 0..NumModes
      <3>1. active + 1 \in Nat /\ NumModes \in Nat
        BY Numbers DEF IInv
      <3> HIDE DEF IInv, LoopTypes
      <3> QED BY <3>1, ModBounds
    <2>2. LoopTypes'
      BY <1>3, <2>1 DEF IInv, LoopTypes, ToggleMode, loop
    <2> QED BY <1>3, <2>2, KeepsHistory DEF ToggleMode, loop
  <1>4. CASE \E who \in {"user", "mode"} : Abort(who)
    <2>1. LoopTypes'
      BY <1>4 DEF IInv, LoopTypes, Abort, loop, mode
    <2> QED BY <1>4, <2>1, KeepsHistory DEF Abort, loop
  <1> QED BY <1>1, <1>2, <1>3, <1>4

\* The cap marker joins the trailing user turn.
LEMMA CapReachedInv ==
  ASSUME IInv, CapReached
  PROVE  IInv'
  <1>1. messages \in Seq(Message) /\ Resumable(messages) /\ EndsInUser(messages)
    BY DEF IInv, LoopTypes, CapReached
  <1>2. messages' = AppendUserTurn(messages, {}, <<Note>>) /\ pc' = "wrapup"
    BY DEF CapReached
  <1>3. AnswersLast(messages, {})
    BY <1>1 DEF AnswersLast, EndsInUser
  <1>4. messages' \in Seq(Message) /\ Resumable(messages') /\ EndsInUser(messages')
    BY <1>1, <1>2, <1>3, TextTypes, AppendUserTurnResumable
  <1>5. LoopTypes'
    BY <1>2, <1>4 DEF IInv, LoopTypes, CapReached, loop, mode, Places
  <1> QED BY <1>2, <1>4, <1>5 DEF IInv

-----------------------------------------------------------------------------
\* What an answer, and a user turn without results after it, make of the
\* history: m is the answer, u the turn.
LEMMA ExtendByAnswer ==
  ASSUME LoopTypes, Resumable(messages), EndsInUser(messages),
         NEW m \in AssistantMessage, Extend(<<m>>)
  PROVE  /\ messages' \in Seq(Message) /\ Resumable(messages')
         /\ messages' # <<>> /\ messages'[Len(messages')] = m
  <1>1. m \in Message
    BY DEF Message
  <1>2. messages \in Seq(Message)
    BY DEF LoopTypes
  <1>3. messages' = Append(messages, m)
    BY <1>1, <1>2 DEF Extend
  <1> QED BY <1>1, <1>2, <1>3, AnswerResumable

LEMMA ExtendByTurn ==
  ASSUME LoopTypes, Resumable(messages), EndsInUser(messages), NEW u \in UserMessage,
         u.results = {}, Extend(<<u>>)
  PROVE  /\ messages' \in Seq(Message) /\ Resumable(messages')
         /\ EndsInUser(messages')
  <1>1. u \in Message
    BY DEF Message
  <1>2. messages \in Seq(Message)
    BY DEF LoopTypes
  <1>3. messages' = Append(messages, u)
    BY <1>1, <1>2 DEF Extend
  <1>4. AnswersLast(messages, u.results)
    BY DEF AnswersLast, EndsInUser
  <1>5. Append(messages, u) \in Seq(Message) /\ Resumable(Append(messages, u))
        /\ EndsInUser(Append(messages, u))
    BY <1>2, <1>4, UserTurnResumable
  <1> QED BY <1>3, <1>5

LEMMA ExtendByBoth ==
  ASSUME LoopTypes, Resumable(messages), EndsInUser(messages),
         NEW m \in AssistantMessage, m.uses = {}, NEW u \in UserMessage, u.results = {},
         Extend(<<m>> \o <<u>>)
  PROVE  /\ messages' \in Seq(Message) /\ Resumable(messages')
         /\ EndsInUser(messages')
  <1>1. m \in Message /\ u \in Message
    BY DEF Message
  <1>2. messages \in Seq(Message)
    BY DEF LoopTypes
  <1>3. messages' = Append(Append(messages, m), u)
    BY <1>1, <1>2 DEF Extend
  <1> DEFINE ms == Append(messages, m)
  <1>4. /\ ms \in Seq(Message) /\ Resumable(ms) /\ ms[Len(ms)] = m
    BY <1>2, AnswerResumable
  <1>5. AnswersLast(ms, u.results)
    BY <1>4 DEF AnswersLast, IdsOf
  <1>6. Append(ms, u) \in Seq(Message) /\ Resumable(Append(ms, u)) /\ EndsInUser(Append(ms, u))
    BY <1>4, <1>5, UserTurnResumable
  <1> QED BY <1>1, <1>2, <1>3, <1>6

\* A round that ends in words, with or without a user turn to go on from.
LEMMA SpokenInv ==
  ASSUME LoopTypes, Resumable(messages), EndsInUser(messages), NEW blank \in BOOLEAN,
         Extend(Spoken(blank))
  PROVE  messages' \in Seq(Message) /\ Resumable(messages')
  <1>1. CASE Spoken(blank) = <<>>
    BY <1>1 DEF Extend, LoopTypes
  <1>2. CASE \E m \in AssistantMessage : m.uses = {} /\ Spoken(blank) = <<m>>
    BY <1>2, ExtendByAnswer
  <1> QED BY <1>1, <1>2, SpokenTypes

LEMMA AskInv ==
  ASSUME LoopTypes, Resumable(messages), EndsInUser(messages), NEW blank \in BOOLEAN,
         NEW note \in {CutNote, FullNote}, AskToContinue(Spoken(blank), note)
  PROVE  /\ messages' \in Seq(Message) /\ Resumable(messages')
         /\ EndsInUser(messages') /\ pc' = "top" /\ outcome' = outcome
  <1> DEFINE u == UserMsg({}, <<note>>)
             placeholder == AssistantMsg({}, <<Note>>)
  <1>0. <<note>> \in Seq(Text) /\ Known(<<note>>)
    BY TextTypes, TextsKnown
  <1>1. u \in UserMessage /\ u.results = {}
    BY <1>0, MessageTypes DEF UserMsg
  <1>2. placeholder \in AssistantMessage /\ placeholder.uses = {}
    BY MessageTypes, TextTypes DEF AssistantMsg
  <1>3. PICK m \in AssistantMessage : m.uses = {} /\ Extend(<<m>> \o <<u>>)
    <2>1. CASE Spoken(blank) = <<>>
      BY <1>2, <2>1 DEF AskToContinue
    <2>2. CASE \E m \in AssistantMessage : m.uses = {} /\ Spoken(blank) = <<m>>
      <3>1. PICK m \in AssistantMessage : m.uses = {} /\ Spoken(blank) = <<m>>
        BY <2>2
      <3>2. Spoken(blank) # <<>>
        BY <3>1
      <3> QED BY <3>1, <3>2 DEF AskToContinue
    <2> QED BY <2>1, <2>2, SpokenTypes
  <1> HIDE DEF u
  <1> QED BY <1>1, <1>3, ExtendByBoth DEF AskToContinue

\* A step that answers in words disturbs the history, the counters and the end.
LEMMA AnswerTypes ==
  ASSUME LoopTypes, messages' \in Seq(Message), pc' \in Places,
         outcome' \in {"ok", "abort", "error"}, minted' \in Nat, cutStreak' \in Nat,
         fullStreak' \in Nat, advertised' \in Nat,
         UNCHANGED <<content, todo, results, salvage, rounds, aborted, marker, active, toggles,
                     runs>>
  PROVE  LoopTypes'
  BY DEF LoopTypes

\* The round ends in words: what follows is a sendable history or the end.
LEMMA AnswerInv ==
  ASSUME IInv, NEW blank \in BOOLEAN,
         \/ AnswerCut(blank) \/ AnswerFull(blank) \/ AnswerEnds(blank) \/ WrapAnswered(blank)
  PROVE  IInv'
  <1>1. LoopTypes /\ Resumable(messages) /\ EndsInUser(messages)
    BY DEF IInv, AnswerCut, AnswerFull, AnswerEnds, WrapAnswered
  <1> DEFINE Well == /\ messages' \in Seq(Message) /\ Resumable(messages')
                     /\ \/ EndsInUser(messages') /\ pc' = "top" /\ outcome' = outcome
                        \/ pc' = "unwinding" /\ outcome' = "ok"
             Same == UNCHANGED <<content, todo, results, salvage, rounds, aborted, marker,
                                 active, toggles, runs>>
             Counted == /\ minted' \in Nat /\ cutStreak' \in Nat /\ fullStreak' \in Nat
                        /\ advertised' \in Nat
  <1>6. ASSUME Well, Same, Counted PROVE IInv'
    <2>1. pc' \in Places /\ outcome' \in {"ok", "abort", "error"}
      BY <1>1, <1>6 DEF LoopTypes, Places
    <2>2. LoopTypes'
      BY <1>1, <1>6, <2>1, AnswerTypes
    <2> QED BY <1>6, <2>2 DEF IInv
  <1>7. /\ minted \in Nat /\ cutStreak \in Nat /\ fullStreak \in Nat
        /\ advertised \in Nat /\ active \in Nat
    BY <1>1, Numbers
  <1>2. CASE AnswerCut(blank)
    <2>1. Well
      BY <1>1, <1>2, AskInv, SpokenInv DEF AnswerCut, Finish
    <2>2. Same
      BY <1>2 DEF AnswerCut, mode
    <2>3. Counted
      BY <1>7, <1>2 DEF AnswerCut, mode
    <2> QED BY <1>6, <2>1, <2>2, <2>3
  <1>3. CASE AnswerFull(blank)
    <2>1. Well
      BY <1>1, <1>3, AskInv, SpokenInv DEF AnswerFull, Finish
    <2>2. Same
      BY <1>3 DEF AnswerFull, mode
    <2>3. Counted
      BY <1>7, <1>3 DEF AnswerFull, mode
    <2> QED BY <1>6, <2>1, <2>2, <2>3
  <1>4. CASE AnswerEnds(blank)
    <2>1. Well
      <3>1. CASE PendingModeTexts # <<>> /\ aborted = "none"
        <4> DEFINE u == UserMsg({}, PendingModeTexts)
        <4>1. u \in UserMessage /\ u.results = {}
          BY <1>1, MessageTypes, TextTypes DEF UserMsg
        <4>2. Extend(Spoken(blank) \o <<u>>) /\ pc' = "top" /\ outcome' = outcome
          BY <1>4, <3>1 DEF AnswerEnds
        <4> HIDE DEF u
        <4>3. CASE Spoken(blank) = <<>>
          <5>1. Extend(<<u>>)
            BY <4>2, <4>3
          <5> QED BY <1>1, <4>1, <4>2, <5>1, ExtendByTurn
        <4>4. CASE \E m \in AssistantMessage : m.uses = {} /\ Spoken(blank) = <<m>>
          BY <1>1, <4>1, <4>2, <4>4, ExtendByBoth
        <4> QED BY <1>1, <4>3, <4>4, SpokenTypes
      <3>2. CASE ~ (PendingModeTexts # <<>> /\ aborted = "none")
        BY <1>1, <1>4, <3>2, SpokenInv DEF AnswerEnds, Finish
      <3> QED BY <3>1, <3>2
    <2>2. Same
      BY <1>4 DEF AnswerEnds
    <2>3. Counted
      BY <1>7, <1>4 DEF AnswerEnds
    <2> QED BY <1>6, <2>1, <2>2, <2>3
  <1>5. CASE WrapAnswered(blank)
    <2>1. Well
      BY <1>1, <1>5, SpokenInv DEF WrapAnswered, Finish
    <2>2. Same
      BY <1>5 DEF WrapAnswered, mode, loop
    <2>3. Counted
      BY <1>7, <1>5 DEF WrapAnswered, mode, loop
    <2> QED BY <1>6, <2>1, <2>2, <2>3
  <1> QED BY <1>2, <1>3, <1>4, <1>5

\* An answer with calls opens a round: all of them are still to run.
LEMMA CallsInv ==
  ASSUME IInv, NEW n \in 1..MaxTools, NEW cut \in BOOLEAN, AnswerCallsTools(n, cut)
  PROVE  IInv'
  <1> DEFINE ids == minted+1 .. minted+n
             m == AssistantMsg(ids, <<>>)
  <1>1. LoopTypes /\ Resumable(messages) /\ EndsInUser(messages)
    BY DEF IInv, AnswerCallsTools
  <1>2. ids \in SUBSET Nat /\ minted + n \in Nat
    <2>1. minted \in Nat /\ n \in Nat
      BY <1>1, Numbers
    <2> QED BY <2>1
  <1>3. m \in AssistantMessage /\ m.uses = ids /\ m.role = "assistant"
    BY <1>2, MessageTypes, TextTypes DEF AssistantMsg
  <1>4. Extend(<<m>>) /\ todo' = ids /\ results' = {} /\ pc' = "tools"
    BY DEF AnswerCallsTools
  <1>8. ids # {}
    <2>1. minted \in Nat /\ n \in Nat /\ n >= 1
      BY <1>1, Numbers
    <2>2. minted + 1 \in ids
      BY <2>1
    <2> QED BY <2>2
  <1> HIDE DEF m, ids
  <1>5. /\ messages' \in Seq(Message) /\ Resumable(messages')
        /\ messages' # <<>> /\ messages'[Len(messages')] = m
    BY <1>1, <1>3, <1>4, ExtendByAnswer
  <1>6. LoopTypes'
    <2>1. /\ todo' \in SUBSET Nat /\ results' \in SUBSET Result /\ pc' \in Places
          /\ minted' \in Nat /\ cutStreak' \in Nat /\ fullStreak' \in Nat
      BY <1>2, <1>4 DEF AnswerCallsTools, Places
    <2>2. salvage' \in BOOLEAN
      BY DEF AnswerCallsTools
    <2>3. UNCHANGED <<content, rounds, outcome, aborted, marker, active, advertised, toggles,
                     runs>>
      BY DEF AnswerCallsTools, mode
    <2> QED BY <1>1, <1>5, <2>1, <2>2, <2>3 DEF LoopTypes
  <1>7. RoundInv'
    BY <1>3, <1>4, <1>5, <1>8 DEF RoundInv, IdsOf
  <1> QED BY <1>4, <1>5, <1>6, <1>7 DEF IInv

\* A tool's return moves one call from those to run to those with a result.
LEMMA ToolReturnsInv ==
  ASSUME IInv, NEW id \in todo, NEW how \in {"ran", "canceled"}, ToolReturns(id, how)
  PROVE  IInv'
  <1> DEFINE r == [id |-> id, outcome |-> how]
  <1>1. LoopTypes /\ Resumable(messages) /\ RoundInv
    BY DEF IInv, ToolReturns
  <1>2. r \in Result /\ r.id = id
    BY <1>1 DEF LoopTypes, Result, Outcomes
  <1>3. /\ results' = results \cup {r} /\ todo' = todo \ {id} /\ messages' = messages
        /\ pc' \in {"tools", "gate"} /\ (pc' = "gate" => todo' = {})
    BY DEF ToolReturns
  <1> HIDE DEF r
  <1>4. LoopTypes'
    <2>1. results' \in SUBSET Result /\ todo' \in SUBSET Nat
      BY <1>1, <1>2, <1>3 DEF LoopTypes
    <2> QED BY <1>1, <1>3, <2>1 DEF LoopTypes, ToolReturns, mode, Places
  <1>5. IdsOf(results') = IdsOf(results) \cup {id}
    BY <1>2, <1>3 DEF IdsOf
  <1>6. \A q \in results : q.id # id
    BY <1>1 DEF RoundInv, IdsOf
  <1>7. RoundInv'
    <2>1. IdsOf(results') \cup todo' = IdsOf(results) \cup todo /\ IdsOf(results') \cap todo' = {}
      BY <1>1, <1>3, <1>5 DEF RoundInv
    <2>2. \A p, q \in results' : p.id = q.id => p = q
      BY <1>1, <1>2, <1>3, <1>6 DEF RoundInv
    <2> QED BY <1>1, <1>3, <2>1, <2>2 DEF RoundInv
  <1> QED BY <1>1, <1>3, <1>4, <1>7 DEF IInv

\* The user turn that carries the results answers every call of the round.
LEMMA BatchPassesInv ==
  ASSUME IInv, NEW drained \in Seq(Text), BatchPasses(drained)
  PROVE  IInv'
  <1> DEFINE ts == (IF salvage THEN <<Note>> ELSE <<>>) \o PendingModeTexts \o drained
             u == UserMsg(results, ts)
  <1>1. LoopTypes /\ Resumable(messages) /\ RoundInv /\ todo = {}
    BY DEF IInv, BatchPasses
  <1>2. messages \in Seq(Message) /\ results \in SUBSET Result /\ ts \in Seq(Text)
    BY <1>1, TextTypes DEF LoopTypes
  <1>3. u \in UserMessage /\ u.results = results
    BY <1>2, MessageTypes DEF UserMsg
  <1>4. messages' = Append(messages, u) /\ pc' = "top"
    BY DEF BatchPasses
  <1> HIDE DEF u, ts
  <1>5. AnswersLast(messages, u.results)
    BY <1>1, <1>3 DEF AnswersLast, RoundInv
  <1>6. messages' \in Seq(Message) /\ Resumable(messages') /\ EndsInUser(messages')
    BY <1>1, <1>2, <1>3, <1>4, <1>5, UserTurnResumable
  <1>7. active \in Nat
    BY <1>1, Numbers
  <1>8. LoopTypes'
    <2>1. /\ todo' = {} /\ results' = {} /\ advertised' = active /\ pc' \in Places
          /\ UNCHANGED <<content, rounds, cutStreak, fullStreak, outcome, aborted, marker,
                         active, toggles, minted, runs>>
      BY DEF BatchPasses, Places
    <2>2. salvage' \in BOOLEAN
      BY Zenon DEF BatchPasses
    <2> QED BY <1>1, <1>6, <1>7, <2>1, <2>2 DEF LoopTypes
  <1> QED BY <1>4, <1>6, <1>8 DEF IInv

\* A rollback leaves a prefix of the history.
LEMMA SettleInv ==
  ASSUME IInv, Settle
  PROVE  IInv'
  <1>1. messages \in Seq(Message) /\ Resumable(messages) /\ pc' = "idle"
    BY DEF IInv, LoopTypes, Settle
  <1>2. messages' = messages \/ messages' = RollbackPendingTurn(messages)
    BY DEF Settle
  <1>3. messages' \in Seq(Message) /\ Resumable(messages')
    BY <1>1, <1>2, RollbackResumable
  <1>4. marker' \in {"none", "aborted", "resumed"}
    BY DEF IInv, LoopTypes, Settle
  <1>5. LoopTypes'
    <2>1. /\ ResetLoop /\ pc' \in Places /\ aborted' = "none" /\ outcome' = "ok"
          /\ UNCHANGED <<active, advertised, toggles, minted, runs>>
      BY DEF Settle, mode, Places
    <2>2. LoopTypes
      BY DEF IInv
    <2> QED BY <1>3, <1>4, <2>1, <2>2, ResetTypes DEF LoopTypes
  <1> QED BY <1>1, <1>3, <1>5 DEF IInv

-----------------------------------------------------------------------------
\* Every step of the loop and its host preserves the inductive invariant.
LEMMA NextInv == IInv /\ [Next]_vars => IInv'
  <1> SUFFICES ASSUME IInv, [Next]_vars PROVE IInv'
    OBVIOUS
  <1>1. CASE StartRun \/ ContinueRun \/ PromptResolved
    BY <1>1, BeginInv
  <1>3. CASE Boundary
    <2>1. PICK queued \in BOOLEAN : BatchPasses(IF queued THEN <<Prompt(0)>> ELSE <<>>)
      BY <1>3 DEF Boundary
    <2>2. (IF queued THEN <<Prompt(0)>> ELSE <<>>) \in Seq(Text)
      BY TextTypes
    <2> QED BY <2>1, <2>2, BatchPassesInv
  <1>4. CASE Answer
    BY <1>4, AnswerInv DEF Answer
  <1>5. CASE \E n \in 1..MaxTools, cut \in BOOLEAN : AnswerCallsTools(n, cut)
    BY <1>5, CallsInv
  <1>6. CASE \E id \in todo, how \in {"ran", "canceled"} : ToolReturns(id, how)
    BY <1>6, ToolReturnsInv
  <1>7. CASE CapReached
    BY <1>7, CapReachedInv
  <1>8. CASE Settle
    BY <1>8, SettleInv
  <1>9. CASE \/ NextRound \/ StopAtTop \/ SendThrows \/ ToolThrows \/ BatchHalted
             \/ ResolverThrows \/ ToggleMode \/ \E who \in {"user", "mode"} : Abort(who)
    BY <1>9, MoveInv
  <1>10. CASE UNCHANGED vars
    BY <1>10 DEF IInv, LoopTypes, RoundInv, ContentInv, OrphanResults, vars, loop, mode
  <1> QED BY <1>1, <1>3, <1>4, <1>5, <1>6, <1>7, <1>8, <1>9, <1>10
          DEF Next, Advance, Environment

\* The inductive invariant holds in every reachable state.
THEOREM Invariance == Spec => []IInv
  BY InitInv, NextInv, PTL DEF Spec

\* Every request sendFn is handed has a valid history: it ends in a user
\* turn, every tool call is answered by the message after it, every result
\* answers a call before it, and no two answers meet.
THEOREM SendValid == Spec => []SendIsValid
  <1>1. IInv => SendIsValid
    BY ResumableSendable DEF IInv, LoopTypes, SendIsValid
  <1> QED BY Invariance, <1>1, PTL

-----------------------------------------------------------------------------
(* What a step does to the history and to the log.                          *)

\* A turn that asks the model for something, without results.
Asks(u) == u.results = {} /\ u.texts # <<>> /\ Known(u.texts)

\* The ways a step changes the history: not at all; a rollback; a user turn
\* with the results of the open calls, merged or new; an answer, whose calls
\* have numbers never handed out; an answer and a turn to go on from, which an
\* empty answer leaves alone.  Nothing empty is added, and no unknown mode.
HistoryGrows ==
    \/ /\ messages' = messages
       /\ pc \in {"tools", "gate"} =>
              pc' \in {"tools", "gate"} \/ HooksDeny \/ ToolsMayThrow
    \/ pc = "unwinding" /\ messages' = RollbackPendingTurn(messages)
    \/ \E ts \in Seq(Text) : /\ pc \in {"idle", "resolving"} /\ ts # <<>> /\ Known(ts)
                             /\ messages' = AppendUserTurn(messages, OrphanResults, ts)
    \/ \E ts \in Seq(Text) : /\ pc = "top" /\ ts # <<>> /\ Known(ts)
                             /\ messages' = AppendUserTurn(messages, {}, ts)
    \/ \E m \in AssistantMessage : /\ pc' \notin {"tools", "gate"} => m.uses = {}
                                   /\ \A id \in m.uses : minted < id /\ id <= minted'
                                   /\ Known(m.texts) /\ messages' = Append(messages, m)
                                   /\ EndsInUser(messages)
    \/ \E m \in AssistantMessage, u \in UserMessage :
           /\ m.uses = {} /\ Known(m.texts) /\ Asks(u)
           /\ messages' = Append(Append(messages, m), u)
           /\ EndsInUser(messages)
    \/ \E u \in UserMessage : /\ EmptyAnswers /\ Asks(u)
                              /\ messages' = Append(messages, u)
    \/ \E u \in UserMessage : /\ pc = "gate" /\ u.results = results /\ Known(u.texts)
                              /\ messages' = Append(messages, u)

Asking == {"top", "model", "wrapup"}
InRound == {"tools", "gate"}

\* The ways a step changes the log: not at all; by a user turn, an answer that
\* ends the run, or an answer and a turn to go on from; by the answer that opens
\* a round; by the result of a call of this round.
LogGrows ==
    \/ /\ log' = log \/ log' = log \o <<>>
       /\ pc' \in Asking => pc \in Asking \cup {"gate"}
       /\ pc' \in InRound => pc' = pc /\ UNCHANGED <<todo, results>>
    \/ \E u \in UserMessage : /\ log' = Append(log, u) \/ log' = log \o <<u>>
                              /\ Asks(u) /\ pc' = "top"
    \/ \E m \in AssistantMessage : /\ log' = log \o <<m>> /\ m.uses = {} /\ Known(m.texts)
                                   /\ pc \in Asking /\ pc' = "unwinding"
    \/ \E m \in AssistantMessage, u \in UserMessage :
           /\ log' = log \o (<<m>> \o <<u>>) /\ m.uses = {} /\ Known(m.texts) /\ Asks(u)
           /\ pc \in Asking /\ pc' = "top"
    \/ \E m \in AssistantMessage :
           /\ log' = log \o <<m>> /\ m.uses = todo' /\ results' = {} /\ Known(m.texts)
           /\ m.uses # {} /\ \A id \in m.uses : minted < id /\ id <= minted'
           /\ pc \in Asking /\ pc' = "tools"
    \/ \E r \in Result :
           /\ pc = "tools" /\ r.id \in todo /\ log' = Append(log, ResultRecord(r))
           /\ r.outcome # "aborted" /\ pc' \in InRound
           /\ results' = results \cup {r} /\ todo' = todo \ {r.id}

\* appendUser adds a message to the log, or nothing.
LEMMA LogUserGrows ==
  ASSUME LoopTypes, NEW ts \in Seq(Text), Known(ts), log' = LogUser(ts), pc' = "top",
         ts = <<>> => pc = "gate"
  PROVE  LogGrows
  <1> DEFINE u == UserMsg({}, ts)
  <1>1. u \in UserMessage /\ u.results = {} /\ u.texts = ts
    BY MessageTypes DEF UserMsg
  <1> HIDE DEF u
  <1>2. CASE ts = <<>>
    BY <1>2 DEF LogUser, LogGrows, Asking, InRound
  <1>3. CASE ts # <<>>
    <2>1. Asks(u) /\ log' = Append(log, u)
      BY <1>1, <1>3 DEF Asks, LogUser, u
    <2> QED BY <1>1, <2>1 DEF LogGrows
  <1> QED BY <1>2, <1>3

\* What both take grows both: a message, or an answer and a turn.
LEMMA OneGrows ==
  ASSUME LoopTypes, NEW m \in Message, Extend(<<m>>)
  PROVE  messages' = Append(messages, m) /\ log' = log \o <<m>>
  <1>1. messages \in Seq(Message)
    BY DEF LoopTypes
  <1> QED BY <1>1 DEF Extend

LEMMA TwoGrow ==
  ASSUME LoopTypes, NEW m \in Message, NEW u \in Message, Extend(<<m>> \o <<u>>)
  PROVE  /\ messages' = Append(Append(messages, m), u)
         /\ log' = log \o (<<m>> \o <<u>>)
  <1>1. messages \in Seq(Message)
    BY DEF LoopTypes
  <1>2. messages' = messages \o (<<m>> \o <<u>>) /\ log' = log \o (<<m>> \o <<u>>)
    BY DEF Extend
  <1>3. Append(messages, m) = messages \o <<m>> /\ Append(messages, m) \in Seq(Message)
    BY <1>1
  <1>4. Append(Append(messages, m), u) = (messages \o <<m>>) \o <<u>>
    BY <1>3
  <1>5. (messages \o <<m>>) \o <<u>> = messages \o (<<m>> \o <<u>>)
    BY <1>1
  <1> QED BY <1>2, <1>4, <1>5

\* A round that ends in words, or is continued, grows both as it may.
LEMMA SpokenGrows ==
  ASSUME LoopTypes, EndsInUser(messages), NEW blank \in BOOLEAN, pc \in Asking,
         Extend(Spoken(blank)), pc' = "unwinding"
  PROVE  HistoryGrows /\ LogGrows
  <1>0. pc \notin InRound /\ pc' \notin InRound /\ pc' \notin Asking
    BY DEF Asking, InRound
  <1>1. CASE Spoken(blank) = <<>>
    <2>1. messages' = messages /\ log' = log \o <<>>
      BY <1>1 DEF Extend, LoopTypes
    <2> QED BY <1>0, <2>1 DEF HistoryGrows, LogGrows, InRound
  <1>2. CASE \E m \in AssistantMessage :
                m.uses = {} /\ Known(m.texts) /\ Spoken(blank) = <<m>>
    <2>1. PICK m \in AssistantMessage :
             m.uses = {} /\ Known(m.texts) /\ Spoken(blank) = <<m>>
      BY <1>2
    <2>2. m \in Message
      BY DEF Message
    <2>3. messages' = Append(messages, m) /\ log' = log \o <<m>>
      BY <2>1, <2>2, OneGrows
    <2> QED BY <2>1, <2>2, <2>3 DEF HistoryGrows, LogGrows
  <1> QED BY <1>1, <1>2, SpokenTypes

LEMMA BothGrow ==
  ASSUME LoopTypes, EndsInUser(messages), pc \in Asking, pc' = "top",
         NEW m \in AssistantMessage, m.uses = {}, Known(m.texts),
         NEW u \in UserMessage, Asks(u), Extend(<<m>> \o <<u>>)
  PROVE  HistoryGrows /\ LogGrows
  <1>1. m \in Message /\ u \in Message
    BY DEF Message
  <1>2. messages' = Append(Append(messages, m), u) /\ log' = log \o (<<m>> \o <<u>>)
    BY <1>1, TwoGrow
  <1> QED BY <1>1, <1>2 DEF HistoryGrows, LogGrows

\* An answer that is continued, or its placeholder, and the note behind it.
LEMMA AskAdds ==
  ASSUME LoopTypes, NEW blank \in BOOLEAN, NEW note, AskToContinue(Spoken(blank), note)
  PROVE  \E m \in AssistantMessage :
             m.uses = {} /\ Known(m.texts) /\ Extend(<<m>> \o <<UserMsg({}, <<note>>)>>)
  <1> DEFINE placeholder == AssistantMsg({}, <<Note>>)
  <1>1. /\ placeholder \in AssistantMessage /\ placeholder.uses = {}
        /\ Known(placeholder.texts)
    BY MessageTypes, TextTypes, TextsKnown DEF AssistantMsg
  <1>2. CASE Spoken(blank) = <<>>
    BY <1>1, <1>2 DEF AskToContinue
  <1>3. CASE \E m \in AssistantMessage :
                m.uses = {} /\ Known(m.texts) /\ Spoken(blank) = <<m>>
    <2>1. PICK m \in AssistantMessage :
             m.uses = {} /\ Known(m.texts) /\ Spoken(blank) = <<m>>
      BY <1>3
    <2>2. Spoken(blank) # <<>>
      BY <2>1
    <2> QED BY <2>1, <2>2 DEF AskToContinue
  <1> QED BY <1>2, <1>3, SpokenTypes

LEMMA AskGrows ==
  ASSUME LoopTypes, EndsInUser(messages), NEW blank \in BOOLEAN, pc \in Asking,
         NEW note \in {CutNote, FullNote}, AskToContinue(Spoken(blank), note)
  PROVE  HistoryGrows /\ LogGrows
  <1> DEFINE u == UserMsg({}, <<note>>)
  <1>0. <<note>> \in Seq(Text) /\ Known(<<note>>)
    BY TextTypes, TextsKnown
  <1>1. u \in UserMessage /\ Asks(u) /\ pc' = "top"
    BY <1>0, MessageTypes DEF UserMsg, Asks, AskToContinue
  <1>3. PICK m \in AssistantMessage :
           m.uses = {} /\ Known(m.texts) /\ Extend(<<m>> \o <<u>>)
    BY AskAdds
  <1> HIDE DEF u
  <1> QED BY <1>1, <1>3, BothGrow

\* An answer in words.
LEMMA AnswerGrows ==
  ASSUME IInv, NEW blank \in BOOLEAN,
         \/ AnswerCut(blank) \/ AnswerFull(blank) \/ AnswerEnds(blank) \/ WrapAnswered(blank)
  PROVE  HistoryGrows /\ LogGrows
  <1>1. LoopTypes /\ EndsInUser(messages) /\ pc \in Asking
    BY DEF IInv, AnswerCut, AnswerFull, AnswerEnds, WrapAnswered, Asking
  <1>2. CASE AnswerCut(blank) \/ AnswerFull(blank)
    BY <1>1, <1>2, AskGrows, SpokenGrows DEF AnswerCut, AnswerFull, Finish
  <1>3. CASE AnswerEnds(blank)
    <2>1. CASE PendingModeTexts # <<>> /\ aborted = "none"
      <3> DEFINE u == UserMsg({}, PendingModeTexts)
      <3>1. u \in UserMessage /\ Asks(u)
        BY <1>1, <2>1, MessageTypes, TextTypes, TextsKnown DEF UserMsg, Asks
      <3>2. Extend(Spoken(blank) \o <<u>>) /\ pc' = "top" /\ (blank => EmptyAnswers)
        BY <1>3, <2>1 DEF AnswerEnds
      <3>3. Spoken(blank) = <<>> => blank
        BY DEF Spoken
      <3> HIDE DEF u
      <3>4. CASE Spoken(blank) = <<>>
        <4>1. Extend(<<u>>) /\ EmptyAnswers
          BY <3>2, <3>3, <3>4
        <4>2. u \in Message
          BY <3>1 DEF Message
        <4>3. messages' = Append(messages, u) /\ log' = log \o <<u>>
          BY <1>1, <4>1, <4>2, OneGrows
        <4> QED BY <3>1, <3>2, <4>1, <4>2, <4>3 DEF HistoryGrows, LogGrows
      <3>5. CASE \E m \in AssistantMessage :
                    m.uses = {} /\ Known(m.texts) /\ Spoken(blank) = <<m>>
        BY <1>1, <3>1, <3>2, <3>5, BothGrow
      <3> QED BY <1>1, <3>4, <3>5, SpokenTypes
    <2>2. CASE ~ (PendingModeTexts # <<>> /\ aborted = "none")
      BY <1>1, <1>3, <2>2, SpokenGrows DEF AnswerEnds, Finish
    <2> QED BY <2>1, <2>2
  <1>4. CASE WrapAnswered(blank)
    BY <1>1, <1>4, SpokenGrows DEF WrapAnswered, Finish
  <1> QED BY <1>2, <1>3, <1>4

\* No step changes the history or the log in another way.
LEMMA StepGrows == IInv /\ [Next]_vars => HistoryGrows /\ LogGrows
  <1> SUFFICES ASSUME IInv, [Next]_vars PROVE HistoryGrows /\ LogGrows
    OBVIOUS
  <1>0. LoopTypes
    BY DEF IInv
  <1>1. ASSUME NEW ts \in Seq(Text), Known(ts), ts # <<>>, OpenTurn(OrphanResults, ts),
               pc \in {"idle", "resolving"}
        PROVE  HistoryGrows /\ LogGrows
    <2>1. /\ messages' = AppendUserTurn(messages, OrphanResults, ts) /\ log' = LogUser(ts)
          /\ pc' = "top"
      BY <1>1 DEF OpenTurn
    <2> QED BY <1>0, <1>1, <2>1, LogUserGrows DEF HistoryGrows
  <1>2. CASE StartRun \/ ContinueRun \/ PromptResolved
    <2>1. CASE StartRun
      BY <2>1 DEF StartRun, Begin, HistoryGrows, LogGrows, Asking, InRound
    <2>2. CASE ContinueRun
      BY <1>0, <1>1, <2>2, ResumedTypes DEF ContinueRun, Begin
    <2>3. CASE PromptResolved
      <3>1. /\ content.texts \in Seq(Text) /\ content.texts # <<>> /\ Known(content.texts)
            /\ content.results = OrphanResults
        BY <1>0, <2>3 DEF IInv, ContentInv, PromptResolved, LoopTypes, UserMessage
      <3> QED BY <1>1, <2>3, <3>1 DEF PromptResolved
    <2> QED BY <1>2, <2>1, <2>2, <2>3
  <1>3. CASE Boundary
    <2>1. PICK queued \in BOOLEAN : BatchPasses(IF queued THEN <<Prompt(0)>> ELSE <<>>)
      BY <1>3 DEF Boundary
    <2> DEFINE drained == IF queued THEN <<Prompt(0)>> ELSE <<>>
               head == IF salvage THEN <<Note>> ELSE <<>>
               ts == head \o PendingModeTexts \o drained
               u == UserMsg(results, ts)
    <2>2. drained \in Seq(Text) /\ Known(drained) /\ head \in Seq(Text) /\ Known(head)
      BY TextTypes, TextsKnown
    <2>5. BatchPasses(drained)
      BY <2>1
    <2> HIDE DEF drained
    <2>6. /\ messages' = Append(messages, u) /\ log' = LogUser(drained)
          /\ pc = "gate" /\ pc' = "top"
      BY <2>5 DEF BatchPasses
    <2> HIDE DEF head
    <2>3. PendingModeTexts \in Seq(Text) /\ Known(PendingModeTexts)
      BY <1>0, TextTypes, TextsKnown
    <2>4. head \o PendingModeTexts \in Seq(Text) /\ Known(head \o PendingModeTexts)
      BY <2>2, <2>3, KnownJoin
    <2>7. ts \in Seq(Text) /\ Known(ts)
      BY <2>2, <2>4, KnownJoin
    <2> HIDE DEF ts
    <2>8. u \in UserMessage /\ u.results = results /\ Known(u.texts)
      <3>1. results \in SUBSET Result
        BY <1>0 DEF LoopTypes
      <3> QED BY <2>7, <3>1, MessageTypes DEF UserMsg
    <2> HIDE DEF u
    <2> QED BY <1>0, <2>2, <2>6, <2>8, LogUserGrows DEF HistoryGrows
  <1>4. CASE Answer
    BY <1>4, AnswerGrows DEF Answer
  <1>5. CASE \E n \in 1..MaxTools, cut \in BOOLEAN : AnswerCallsTools(n, cut)
    <2>1. PICK n \in 1..MaxTools, cut \in BOOLEAN : AnswerCallsTools(n, cut)
      BY <1>5
    <2> DEFINE ids == minted+1 .. minted+n
               m == AssistantMsg(ids, <<>>)
    <2>2. ids \in SUBSET Nat
      <3>1. minted \in Nat /\ n \in Nat
        BY <1>0, Numbers
      <3> QED BY <3>1
    <2>3. m \in AssistantMessage /\ m.uses = ids /\ Known(m.texts)
      BY <2>2, MessageTypes, TextTypes, TextsKnown DEF AssistantMsg
    <2>4. /\ Extend(<<m>>) /\ todo' = ids /\ results' = {} /\ pc = "model" /\ pc' = "tools"
      BY <2>1 DEF AnswerCallsTools
    <2>5. EndsInUser(messages)
      BY <2>4 DEF IInv
    <2>7. ids # {} /\ \A id \in ids : minted < id /\ id <= minted'
      <3>1. minted \in Nat /\ n \in Nat /\ n >= 1 /\ minted' = minted + n
        BY <1>0, <2>1, Numbers DEF AnswerCallsTools
      <3>2. minted + 1 \in ids
        BY <3>1
      <3> QED BY <3>1, <3>2
    <2> HIDE DEF m, ids
    <2>6. messages' = Append(messages, m) /\ log' = log \o <<m>>
      BY <1>0, <2>3, <2>4, OneGrows DEF Message
    <2>8. HistoryGrows
      BY <2>3, <2>4, <2>5, <2>6, <2>7 DEF HistoryGrows
    <2>9. LogGrows
      BY <2>3, <2>4, <2>6, <2>7 DEF LogGrows, Asking
    <2> QED BY <2>8, <2>9
  <1>6. CASE \E id \in todo, how \in {"ran", "canceled"} : ToolReturns(id, how)
    <2>1. PICK id \in todo, how \in {"ran", "canceled"} : ToolReturns(id, how)
      BY <1>6
    <2> DEFINE r == [id |-> id, outcome |-> how]
    <2>2. r \in Result /\ r.id = id /\ r.outcome # "aborted"
      BY <1>0 DEF LoopTypes, Result, Outcomes
    <2>3. /\ results' = results \cup {r} /\ log' = Append(log, ResultRecord(r))
          /\ todo' = todo \ {id} /\ messages' = messages
          /\ pc = "tools" /\ pc' \in {"tools", "gate"}
      BY <2>1 DEF ToolReturns
    <2> HIDE DEF r
    <2> QED BY <2>2, <2>3 DEF HistoryGrows, LogGrows, InRound
  <1>7. CASE CapReached
    <2>1. <<Note>> \in Seq(Text) /\ Known(<<Note>>) /\ <<Note>> # <<>>
      BY TextTypes, TextsKnown
    <2>2. /\ pc = "top" /\ pc' = "wrapup" /\ log' = log
          /\ messages' = AppendUserTurn(messages, {}, <<Note>>)
      BY <1>7 DEF CapReached
    <2> QED BY <2>1, <2>2 DEF HistoryGrows, LogGrows, Asking, InRound
  <1>8. CASE Settle
    BY <1>8 DEF Settle, HistoryGrows, LogGrows, Asking, InRound
  <1>9. CASE NextRound \/ StopAtTop \/ SendThrows \/ ResolverThrows
    BY <1>9 DEF NextRound, StopAtTop, SendThrows, ResolverThrows, Finish, HistoryGrows, LogGrows,
                Asking, InRound
  <1>10. CASE \/ ToggleMode \/ UNCHANGED vars \/ \E who \in {"user", "mode"} : Abort(who)
    BY <1>10 DEF ToggleMode, Abort, vars, loop, HistoryGrows, LogGrows
  <1>11. CASE ToolThrows \/ BatchHalted
    BY <1>11 DEF ToolThrows, BatchHalted, Finish, HistoryGrows, LogGrows, Asking, InRound
  <1> QED BY <1>2, <1>3, <1>4, <1>5, <1>6, <1>7, <1>8, <1>9, <1>10, <1>11
          DEF Next, Advance, Environment

\* Numbers are handed out in order; no step stays where it stands and changes
\* the history; tools run only behind an answer with new calls; no step ends
\* the process.
LEMMA StepPlaces ==
  ASSUME IInv, [Next]_vars
  PROVE  /\ minted <= minted'
         /\ pc' = pc => messages' = messages
         /\ pc' \in {"tools", "gate"} =>
                \/ pc \in {"tools", "gate"} /\ messages' = messages
                \/ /\ messages' # <<>>
                   /\ \E id \in messages'[Len(messages')].uses : minted < id
         /\ pc' = "down" => pc = "down"
  <1>1. minted \in Nat /\ messages \in Seq(Message)
    BY Numbers DEF IInv, LoopTypes
  <1>2. CASE \E n \in 1..MaxTools, cut \in BOOLEAN : AnswerCallsTools(n, cut)
    <2>1. PICK n \in 1..MaxTools, cut \in BOOLEAN : AnswerCallsTools(n, cut)
      BY <1>2
    <2> DEFINE m == AssistantMsg(minted+1 .. minted+n, <<>>)
    <2>2. /\ pc = "model" /\ pc' = "tools" /\ minted' = minted + n
          /\ messages' = messages \o <<m>>
      BY <2>1 DEF AnswerCallsTools, Extend
    <2>3. n \in Nat /\ n >= 1
      BY Numbers
    <2>4. minted <= minted' /\ minted + 1 \in minted+1 .. minted+n /\ minted < minted + 1
      BY <1>1, <2>2, <2>3
    <2>5. minted + 1 \in m.uses
      BY <2>4 DEF AssistantMsg
    <2> HIDE DEF m, Message
    <2>6. messages' # <<>> /\ messages'[Len(messages')] = m
      BY <1>1, <2>2
    <2> QED BY <2>2, <2>4, <2>5, <2>6
  <1>3. CASE Answer
    BY <1>1, <1>3 DEF Answer, AnswerCut, AnswerFull, AnswerEnds, WrapAnswered, AskToContinue, Finish
  <1>4. CASE \/ StartRun \/ ContinueRun \/ PromptResolved \/ Boundary \/ Settle
             \/ CapReached
    BY <1>1, <1>4
       DEF StartRun, ContinueRun, PromptResolved, Begin, OpenTurn, Boundary, BatchPasses, Settle, CapReached
  <1>5. CASE \/ NextRound \/ StopAtTop \/ SendThrows \/ ToolThrows \/ BatchHalted
             \/ ResolverThrows \/ ToggleMode \/ UNCHANGED vars
             \/ \E who \in {"user", "mode"} : Abort(who)
    BY <1>1, <1>5 DEF NextRound, StopAtTop, SendThrows, ToolThrows, BatchHalted,
                      ResolverThrows, ToggleMode, Abort, Finish, vars
  <1>6. CASE \E id \in todo, how \in {"ran", "canceled"} : ToolReturns(id, how)
    <2>1. /\ pc = "tools" /\ pc' \in {"tools", "gate"}
          /\ messages' = messages /\ minted' = minted
      BY <1>6 DEF ToolReturns
    <2> QED BY <1>1, <2>1
  <1> QED BY <1>2, <1>3, <1>4, <1>5, <1>6 DEF Next, Advance, Environment

-----------------------------------------------------------------------------
(* The order of the log                                                     *)

\* A result in log l follows the answer it belongs to, with only other calls'
\* results between.
Follows(l, i) ==
    \E a \in 1..i-1 :
        /\ l[a].role = "assistant"
        /\ IdsOf(l[i].results) \subseteq l[a].uses
        /\ \A k \in a+1..i-1 : /\ l[k].role = "result"
                               /\ IdsOf(l[k].results) \cap IdsOf(l[i].results) = {}

Ordered(l) == \A i \in 1..Len(l) : l[i].role = "result" => Follows(l, i)

\* The answer of the round in hand is in the log, and after it nothing but
\* results of this round.
RoundIsLogged ==
    pc = "tools" =>
        \E a \in 1..Len(log) :
            /\ log[a].role = "assistant" /\ log[a].uses = IdsOf(results) \cup todo
            /\ \A k \in a+1..Len(log) : /\ log[k].role = "result"
                                        /\ IdsOf(log[k].results) \subseteq IdsOf(results)

LogInv == log \in Seq(Record) /\ Ordered(log) /\ RoundIsLogged

\* What is in the log stays as it is when the log grows.
LEMMA AppendKeeps ==
  ASSUME NEW l \in Seq(Record), NEW m \in Record
  PROVE  /\ Append(l, m) \in Seq(Record) /\ Len(Append(l, m)) = Len(l) + 1
         /\ \A i \in 1..Len(l) : Append(l, m)[i] = l[i]
         /\ Append(l, m)[Len(l) + 1] = m
         /\ Len(l) \in Nat
  <1> HIDE DEF Record
  <1> QED OBVIOUS

LEMMA AppendOrdered ==
  ASSUME NEW l \in Seq(Record), NEW m \in Record, Ordered(l),
         m.role = "result" => Follows(Append(l, m), Len(l) + 1)
  PROVE  Ordered(Append(l, m))
  <1> DEFINE new == Append(l, m)
  <1>1. /\ Len(new) = Len(l) + 1 /\ Len(l) \in Nat /\ new[Len(l) + 1] = m
        /\ \A i \in 1..Len(l) : new[i] = l[i]
    BY AppendKeeps
  <1>2. m.role = "result" => Follows(new, Len(l) + 1)
    OBVIOUS
  <1> HIDE DEF new
  <1> SUFFICES ASSUME NEW i \in 1..Len(new), new[i].role = "result" PROVE Follows(new, i)
    BY DEF Ordered, new
  <1>3. CASE i = Len(l) + 1
    BY <1>1, <1>2, <1>3
  <1>4. CASE i \in 1..Len(l)
    <2>1. l[i].role = "result" /\ new[i] = l[i]
      BY <1>1, <1>4
    <2>2. PICK a \in 1..i-1 :
             /\ l[a].role = "assistant"
             /\ IdsOf(l[i].results) \subseteq l[a].uses
             /\ \A k \in a+1..i-1 : /\ l[k].role = "result"
                                    /\ IdsOf(l[k].results) \cap IdsOf(l[i].results) = {}
      BY <1>4, <2>1 DEF Ordered, Follows
    <2>3. \A k \in 1..i : new[k] = l[k]
      BY <1>1, <1>4
    <2>4. new[a] = l[a] /\ \A k \in a+1..i-1 : new[k] = l[k]
      BY <1>4, <2>3
    <2> QED BY <2>1, <2>2, <2>4 DEF Follows
  <1> QED BY <1>1, <1>3, <1>4

\* A message is no result's record, so it may go anywhere.
LEMMA MessageOrdered ==
  ASSUME NEW l \in Seq(Record), NEW m \in Message, Ordered(l)
  PROVE  Append(l, m) \in Seq(Record) /\ Ordered(Append(l, m))
  <1>1. m \in Record /\ m.role # "result"
    BY MessageShapes DEF Record
  <1> QED BY <1>1, AppendKeeps, AppendOrdered

\* A tool's result joins those of its round, behind their answer.
LEMMA ResultLogged ==
  ASSUME IInv, LogInv, NEW r \in Result, pc = "tools", r.id \in todo,
         log' = Append(log, ResultRecord(r)),
         results' = results \cup {r}, todo' = todo \ {r.id}
  PROVE  LogInv'
  <1> DEFINE m == ResultRecord(r)
  <1>1. /\ log \in Seq(Record) /\ m \in Record /\ IdsOf(results) \cap todo = {}
        /\ Ordered(log)
    BY DEF IInv, RoundInv, LogInv, ResultRecord, Record
  <1>2. m.role = "result" /\ m.results = {r} /\ IdsOf(m.results) = {r.id}
    BY DEF ResultRecord, IdsOf
  <1>3. PICK a \in 1..Len(log) :
           /\ log[a].role = "assistant" /\ log[a].uses = IdsOf(results) \cup todo
           /\ \A k \in a+1..Len(log) : /\ log[k].role = "result"
                                       /\ IdsOf(log[k].results) \subseteq IdsOf(results)
    BY DEF LogInv, RoundIsLogged
  <1> HIDE DEF m
  <1>4. /\ Len(log') = Len(log) + 1 /\ Len(log) \in Nat /\ log'[Len(log) + 1] = m
        /\ \A i \in 1..Len(log) : log'[i] = log[i]
    BY <1>1, AppendKeeps DEF m
  <1>5. a \in 1..Len(log') /\ log'[a] = log[a] /\ \A k \in a+1..Len(log) : log'[k] = log[k]
    BY <1>4
  <1>6. Follows(log', Len(log) + 1)
    <2>1. IdsOf(log'[Len(log) + 1].results) \subseteq log'[a].uses
      BY <1>2, <1>3, <1>4, <1>5
    <2>2. \A k \in a+1..Len(log) :
             /\ log'[k].role = "result"
             /\ IdsOf(log'[k].results) \cap IdsOf(log'[Len(log) + 1].results) = {}
      <3> TAKE k \in a+1..Len(log)
      <3>1. /\ log'[k] = log[k] /\ log[k].role = "result"
            /\ IdsOf(log[k].results) \subseteq IdsOf(results)
        BY <1>3, <1>5
      <3>2. IdsOf(log'[Len(log) + 1].results) = {r.id} /\ r.id \notin IdsOf(results)
        BY <1>1, <1>2, <1>4
      <3> QED BY <3>1, <3>2
    <2>3. a \in 1..(Len(log) + 1) - 1 /\ (Len(log) + 1) - 1 = Len(log)
      BY <1>4
    <2> QED BY <1>3, <1>5, <2>1, <2>2, <2>3 DEF Follows
  <1>7. log' \in Seq(Record) /\ Ordered(log')
    BY <1>1, <1>6, AppendKeeps, AppendOrdered DEF m
  <1>8. IdsOf(results') = IdsOf(results) \cup {r.id}
    BY DEF IdsOf
  <1>9. log'[a].role = "assistant" /\ log'[a].uses = IdsOf(results') \cup todo'
    BY <1>3, <1>5, <1>8
  <1>10. ASSUME NEW k \in a+1..Len(log')
         PROVE  log'[k].role = "result" /\ IdsOf(log'[k].results) \subseteq IdsOf(results')
    <2>1. CASE k = Len(log) + 1
      BY <1>2, <1>4, <1>8, <2>1
    <2>2. CASE k \in a+1..Len(log)
      BY <1>3, <1>5, <1>8, <2>2
    <2>3. k = Len(log) + 1 \/ k \in a+1..Len(log)
      <3>1. Len(log') = Len(log) + 1 /\ Len(log) \in Nat
        BY <1>4
      <3> QED BY <3>1
    <2> QED BY <2>1, <2>2, <2>3
  <1>11. RoundIsLogged'
    BY <1>5, <1>9, <1>10 DEF RoundIsLogged
  <1> QED BY <1>7, <1>11 DEF LogInv

\* Every step keeps the log's type and order.
LEMMA LogKept == IInv /\ LogInv /\ [Next]_vars => LogInv'
  <1> SUFFICES ASSUME IInv, LogInv, LogGrows PROVE LogInv'
    BY StepGrows
  <1>1. log \in Seq(Record) /\ Ordered(log)
    BY DEF LogInv
  <1>2. ASSUME NEW m \in Message
        PROVE  /\ m \in Record /\ log \o <<m>> = Append(log, m)
               /\ Append(log, m) \in Seq(Record) /\ Ordered(Append(log, m))
    <2>1. m \in Record
      BY DEF Record
    <2> HIDE DEF Record
    <2>2. log \o <<m>> = Append(log, m)
      BY <1>1, <2>1
    <2> QED BY <1>1, <2>1, <2>2, MessageOrdered
  <1>3. CASE /\ log' = log \/ log' = log \o <<>>
             /\ pc' = "tools" => pc' = pc /\ UNCHANGED <<todo, results>>
    <2>1. log' = log
      <3> HIDE DEF Record
      <3> QED BY <1>1, <1>3
    <2> QED BY <1>3, <2>1 DEF LogInv, RoundIsLogged
  <1>4. CASE \E m \in Message : /\ log' = Append(log, m) \/ log' = log \o <<m>>
                                /\ pc' # "tools"
    BY <1>2, <1>4 DEF LogInv, RoundIsLogged
  <1>5. CASE \E m \in Message, u \in Message :
                log' = log \o (<<m>> \o <<u>>) /\ pc' # "tools"
    <2>1. PICK m \in Message, u \in Message :
             log' = log \o (<<m>> \o <<u>>) /\ pc' # "tools"
      BY <1>5
    <2>2. m \in Record /\ u \in Record /\ Append(log, m) \in Seq(Record)
          /\ Ordered(Append(log, m))
      BY <1>2
    <2>3. log' = Append(Append(log, m), u)
      <3> HIDE DEF Record
      <3> QED BY <1>1, <2>1, <2>2
    <2>4. log' \in Seq(Record) /\ Ordered(log')
      BY <2>2, <2>3, MessageOrdered
    <2> QED BY <2>1, <2>4 DEF LogInv, RoundIsLogged
  <1>6. CASE \E m \in AssistantMessage :
                log' = log \o <<m>> /\ m.uses = todo' /\ results' = {}
    <2>1. PICK m \in AssistantMessage :
             log' = log \o <<m>> /\ m.uses = todo' /\ results' = {}
      BY <1>6
    <2>2. m \in Message /\ m.role = "assistant"
      BY DEF Message, AssistantMessage
    <2>3. log' = Append(log, m) /\ m \in Record /\ log' \in Seq(Record) /\ Ordered(log')
      BY <1>2, <2>1, <2>2
    <2>4. Len(log') = Len(log) + 1 /\ Len(log) \in Nat /\ log'[Len(log) + 1] = m
      BY <1>1, <2>3, AppendKeeps
    <2>5. IdsOf(results') = {}
      BY <2>1 DEF IdsOf
    <2>6. RoundIsLogged'
      <3>1. Len(log') \in 1..Len(log') /\ log'[Len(log')] = m
        BY <2>4
      <3>2. \A k \in Len(log')+1..Len(log') : FALSE
        BY <2>4
      <3> QED BY <2>1, <2>2, <2>5, <3>1, <3>2 DEF RoundIsLogged
    <2> QED BY <2>3, <2>6 DEF LogInv
  <1>7. CASE \E r \in Result :
                /\ pc = "tools" /\ r.id \in todo /\ log' = Append(log, ResultRecord(r))
                /\ results' = results \cup {r} /\ todo' = todo \ {r.id}
    BY <1>7, ResultLogged
  <1>8. AssistantMessage \subseteq Message /\ UserMessage \subseteq Message
    BY DEF Message
  <1> QED BY <1>3, <1>4, <1>5, <1>6, <1>7, <1>8 DEF LogGrows, InRound

\* The log's invariant holds in every reachable state.
LEMMA LogInvariance == Spec => []LogInv
  <1>1. Init => LogInv
    BY DEF Init, LogInv, Ordered, RoundIsLogged
  <1> QED BY <1>1, Invariance, LogKept, PTL DEF Spec

\* Every variable of the agent loop keeps its type.
THEOREM TypeCorrect == Spec => []TypeOK
  <1>1. IInv /\ LogInv => TypeOK
    BY DEF IInv, LogInv, LoopTypes, TypeOK
  <1> QED BY Invariance, LogInvariance, <1>1, PTL

\* Whatever stops a round, the log holds each result behind its answer, with
\* only other results of that answer between: foldRecords can rebuild the turn.
THEOREM LogOrdered == Spec => []LogIsOrdered
  <1>1. LogInv => LogIsOrdered
    BY DEF LogInv, Ordered, Follows, LogIsOrdered
  <1> QED BY <1>1, LogInvariance, PTL

-----------------------------------------------------------------------------
(* The roles of the history                                                 *)

\* No two messages of one role meet.
Switches(ms) == \A i \in 2..Len(ms) : ms[i].role # ms[i-1].role

\* A message of the other role than the last one's keeps the roles switching.
LEMMA AppendSwitches ==
  ASSUME NEW ms \in Seq(Message), NEW m \in Message, Switches(ms),
         ms # <<>> => ms[Len(ms)].role # m.role
  PROVE  Append(ms, m) \in Seq(Message) /\ Switches(Append(ms, m))
  <1> DEFINE new == Append(ms, m)
  <1> HIDE DEF Message
  <1>1. /\ new \in Seq(Message) /\ Len(new) = Len(ms) + 1 /\ new[Len(ms) + 1] = m
        /\ \A i \in 1..Len(ms) : new[i] = ms[i]
        /\ Len(ms) \in Nat /\ (Len(ms) > 0 => ms # <<>>)
    OBVIOUS
  <1> HIDE DEF new
  <1> SUFFICES ASSUME NEW i \in 2..Len(new) PROVE new[i].role # new[i-1].role
    BY <1>1 DEF Switches, new
  <1>2. CASE i = Len(ms) + 1
    <2>1. Len(ms) \in 1..Len(ms) /\ ms # <<>> /\ i - 1 = Len(ms)
      BY <1>1, <1>2
    <2> QED BY <1>1, <1>2, <2>1
  <1>3. CASE i \in 2..Len(ms)
    <2>1. i \in 1..Len(ms) /\ i - 1 \in 1..Len(ms)
      BY <1>1, <1>3
    <2> QED BY <1>1, <1>3, <2>1 DEF Switches
  <1> QED BY <1>1, <1>2, <1>3

\* appendUserTurn never puts a user turn behind another.
LEMMA UserTurnSwitches ==
  ASSUME NEW ms \in Seq(Message), Switches(ms), NEW rs \in SUBSET Result, NEW ts \in Seq(Text)
  PROVE  Switches(AppendUserTurn(ms, rs, ts))
  <1>1. CASE ~ EndsInUser(ms)
    <2> DEFINE m == UserMsg(rs, ts)
    <2>1. m \in Message /\ m.role = "user"
      BY MessageTypes DEF Message, UserMsg
    <2>2. AppendUserTurn(ms, rs, ts) = Append(ms, m)
      BY <1>1 DEF AppendUserTurn
    <2> HIDE DEF m
    <2> QED BY <1>1, <2>1, <2>2, AppendSwitches DEF EndsInUser
  <1>2. CASE EndsInUser(ms)
    <2> DEFINE last == ms[Len(ms)]
               m == UserMsg(last.results \cup rs, last.texts \o ts)
    <2>1. AppendUserTurn(ms, rs, ts) = [ms EXCEPT ![Len(ms)] = m]
      BY <1>2 DEF AppendUserTurn
    <2>2. m.role = "user" /\ last.role = "user"
      BY <1>2 DEF UserMsg, EndsInUser
    <2> HIDE DEF m, Message
    <2> DEFINE new == [ms EXCEPT ![Len(ms)] = m]
    <2>3. Len(new) = Len(ms) /\ \A i \in 1..Len(ms) : new[i] = IF i = Len(ms) THEN m ELSE ms[i]
      OBVIOUS
    <2> HIDE DEF new
    <2>4. \A i \in 1..Len(ms) : new[i].role = ms[i].role
      BY <2>2, <2>3
    <2>5. Switches(new)
      <3> SUFFICES ASSUME NEW i \in 2..Len(ms) PROVE new[i].role # new[i-1].role
        BY <2>3 DEF Switches
      <3>1. i \in 1..Len(ms) /\ i - 1 \in 1..Len(ms)
        OBVIOUS
      <3> QED BY <2>4, <3>1 DEF Switches
    <2> QED BY <2>1, <2>5 DEF new
  <1> QED BY <1>1, <1>2

\* What a rollback leaves is a prefix.
LEMMA RollbackKeeps ==
  ASSUME NEW ms \in Seq(Message)
  PROVE  /\ RollbackPendingTurn(ms) \in Seq(Message)
         /\ Len(RollbackPendingTurn(ms)) = RollbackPoint(ms)
         /\ RollbackPoint(ms) \in 0..Len(ms)
         /\ \A i \in 1..RollbackPoint(ms) : RollbackPendingTurn(ms)[i] = ms[i]
  <1> DEFINE n == RollbackPoint(ms)
  <1>1. n \in 0..Len(ms)
    BY RollbackPointExists
  <1> HIDE DEF n, Message
  <1>2. /\ SubSeq(ms, 1, n) \in Seq(Message) /\ Len(SubSeq(ms, 1, n)) = n
        /\ \A i \in 1..n : SubSeq(ms, 1, n)[i] = ms[i]
    BY <1>1
  <1> QED BY <1>1, <1>2 DEF RollbackPendingTurn, n

\* Unless an answer may be empty, every step keeps the roles switching.
LEMMA RolesKept ==
  ASSUME ~ EmptyAnswers, IInv, Switches(messages), [Next]_vars
  PROVE  Switches(messages')
  <1>1. HistoryGrows /\ messages \in Seq(Message) /\ results \in SUBSET Result
    BY StepGrows DEF IInv, LoopTypes
  <1>2. CASE messages' = messages
    BY <1>2
  <1>3. CASE messages' = RollbackPendingTurn(messages)
    <2> SUFFICES ASSUME NEW i \in 2..Len(messages')
                 PROVE  messages'[i].role # messages'[i-1].role
      BY DEF Switches
    <2>1. /\ i \in 2..Len(messages) /\ messages'[i] = messages[i]
          /\ messages'[i-1] = messages[i-1]
      <3>1. /\ Len(messages') \in 0..Len(messages)
            /\ \A j \in 1..Len(messages') : messages'[j] = messages[j]
        BY <1>1, <1>3, RollbackKeeps
      <3>2. i \in 1..Len(messages') /\ i - 1 \in 1..Len(messages')
        BY <3>1
      <3> QED BY <3>1, <3>2
    <2> QED BY <2>1 DEF Switches
  <1>4. CASE \E ts \in Seq(Text) : \/ messages' = AppendUserTurn(messages, OrphanResults, ts)
                                   \/ messages' = AppendUserTurn(messages, {}, ts)
    <2>1. OrphanResults \in SUBSET Result
      BY <1>1, OrphansAnswerLast DEF OrphanResults
    <2> QED BY <1>1, <1>4, <2>1, UserTurnSwitches
  <1>5. CASE \E m \in AssistantMessage :
                messages' = Append(messages, m) /\ EndsInUser(messages)
    <2>1. PICK m \in AssistantMessage : messages' = Append(messages, m) /\ EndsInUser(messages)
      BY <1>5
    <2>2. m \in Message /\ m.role = "assistant"
      BY DEF Message, AssistantMessage
    <2> QED BY <1>1, <2>1, <2>2, AppendSwitches DEF EndsInUser
  <1>6. CASE \E m \in AssistantMessage, u \in UserMessage :
                /\ messages' = Append(Append(messages, m), u) /\ EndsInUser(messages)
    <2>1. PICK m \in AssistantMessage, u \in UserMessage :
             messages' = Append(Append(messages, m), u) /\ EndsInUser(messages)
      BY <1>6
    <2>2. m \in Message /\ m.role = "assistant" /\ u \in Message /\ u.role = "user"
      BY DEF Message, AssistantMessage, UserMessage
    <2> DEFINE ms == Append(messages, m)
    <2>3. ms \in Seq(Message) /\ Switches(ms)
      BY <1>1, <2>1, <2>2, AppendSwitches DEF EndsInUser
    <2>4. ms[Len(ms)] = m
      BY <1>1
    <2> HIDE DEF ms
    <2>5. Switches(Append(ms, u))
      BY <2>2, <2>3, <2>4, AppendSwitches
    <2> QED BY <2>1, <2>5 DEF ms
  <1>7. CASE \E u \in UserMessage : /\ pc = "gate" /\ u.results = results
                                    /\ messages' = Append(messages, u)
    <2>1. PICK u \in UserMessage : pc = "gate" /\ messages' = Append(messages, u)
      BY <1>7
    <2>2. u \in Message /\ u.role = "user"
      BY DEF Message, UserMessage
    <2>3. messages[Len(messages)].role = "assistant"
      BY <2>1 DEF IInv, RoundInv
    <2> QED BY <1>1, <2>1, <2>2, <2>3, AppendSwitches
  <1> QED BY <1>1, <1>2, <1>3, <1>4, <1>5, <1>6, <1>7 DEF HistoryGrows

\* Started on a history whose roles alternate, as the restore hands over, and
\* with a model that never answers with nothing, every request's roles
\* alternate, however its run was cut, aborted, rolled back or continued.
THEOREM RolesSwitch ==
  ASSUME ~ EmptyAnswers, \A ms \in Initial : Alternates(ms)
  PROVE  Spec => []RolesAlternate
  <1>1. Init => Switches(messages)
    BY DEF Init, Alternates, Switches
  <1>2. IInv /\ Switches(messages) /\ [Next]_vars => Switches(messages)'
    BY RolesKept
  <1>3. IInv /\ Switches(messages) => RolesAlternate
    BY DEF IInv, Resumable, Switches, Alternates, RolesAlternate
  <1> QED BY <1>1, <1>2, <1>3, Invariance, PTL DEF Spec

-----------------------------------------------------------------------------
(* The results the model is shown                                           *)

NoneAborted(rs) == \A r \in rs : r.outcome # "aborted"

\* No result in the history is a synthetic one, and once a round is over no
\* call is left open.
RoundsEndWhole ==
    /\ \A i \in 1..Len(messages) : NoneAborted(messages[i].results)
    /\ NoneAborted(results)
    /\ pc \notin {"tools", "gate"} => Orphans(messages) = {}

\* A round's results are what its calls returned.
LEMMA ResultsGrow ==
  ASSUME [Next]_vars
  PROVE  \/ results' = results \/ results' = {}
         \/ \E r : r.outcome # "aborted" /\ results' = results \cup {r}
  <1>1. CASE \E id \in todo, how \in {"ran", "canceled"} : ToolReturns(id, how)
    <2>1. PICK id \in todo, how \in {"ran", "canceled"} : ToolReturns(id, how)
      BY <1>1
    <2> DEFINE r == [id |-> id, outcome |-> how]
    <2>2. r.outcome # "aborted" /\ results' = results \cup {r}
      BY <2>1 DEF ToolReturns
    <2> QED BY <2>2
  <1>2. CASE Answer
    BY <1>2 DEF Answer, AnswerCut, AnswerFull, AnswerEnds, WrapAnswered, loop
  <1>3. CASE StartRun \/ ContinueRun \/ PromptResolved \/ Settle \/ Boundary
    BY <1>3 DEF StartRun, ContinueRun, PromptResolved, OpenTurn, Settle, Boundary, BatchPasses,
                ResetLoop
  <1>4. CASE \E n \in 1..MaxTools, cut \in BOOLEAN : AnswerCallsTools(n, cut)
    BY <1>4 DEF AnswerCallsTools
  <1>5. CASE \/ NextRound \/ StopAtTop \/ CapReached \/ SendThrows \/ ToolThrows \/ BatchHalted
             \/ ResolverThrows \/ ToggleMode \/ UNCHANGED vars
             \/ \E who \in {"user", "mode"} : Abort(who)
    BY <1>5 DEF NextRound, StopAtTop, CapReached, SendThrows, ToolThrows, BatchHalted,
                ResolverThrows, ToggleMode, Abort, vars, loop
  <1> QED BY <1>1, <1>2, <1>3, <1>4, <1>5 DEF Next, Advance, Environment

\* A rollback opens no call: what it stops at is answered, or has results.
LEMMA RollbackOpensNone ==
  ASSUME NEW ms \in Seq(Message), Resumable(ms), Orphans(ms) = {}
  PROVE  Orphans(RollbackPendingTurn(ms)) = {}
  <1> DEFINE n   == RollbackPoint(ms)
             new == RollbackPendingTurn(ms)
  <1>1. /\ n \in 0..Len(ms) /\ Len(new) = n /\ new \in Seq(Message)
        /\ \A i \in 1..n : new[i] = ms[i]
        /\ \A i \in 1..Len(ms) : LoadBearing(ms[i]) => i <= n
    BY RollbackKeeps, RollbackPointExists
  <1> HIDE DEF n, new
  <1> SUFFICES ASSUME new # <<>>, new[Len(new)].role = "assistant", new[Len(new)].uses # {}
               PROVE  FALSE
    BY DEF Orphans, new
  <1>2. n \in 1..Len(ms) /\ Len(ms) \in Nat
    BY <1>1
  <1>3. ms[n].role = "assistant" /\ ms[n].uses # {}
    BY <1>1, <1>2
  <1>4. CASE n = Len(ms)
    <2>1. ms # <<>>
      BY <1>2
    <2> QED BY <1>3, <1>4, <2>1 DEF Orphans
  <1>5. CASE n \in 1..Len(ms) - 1
    <2>1. ms[n].uses \subseteq IdsOf(ms[n+1].results)
      BY <1>3, <1>5 DEF Resumable, CallsAnswered
    <2>2. ms[n+1].results # {}
      BY <1>3, <2>1 DEF IdsOf
    <2>3. n + 1 \in 1..Len(ms) /\ ~ (n + 1 <= n)
      BY <1>2, <1>5
    <2> QED BY <1>1, <2>2, <2>3 DEF LoadBearing
  <1> QED BY <1>2, <1>4, <1>5

\* A user turn without synthetic results adds none.
LEMMA UserTurnWhole ==
  ASSUME NEW ms \in Seq(Message), \A i \in 1..Len(ms) : NoneAborted(ms[i].results),
         NEW rs \in SUBSET Result, NoneAborted(rs), NEW ts \in Seq(Text)
  PROVE  LET new == AppendUserTurn(ms, rs, ts)
         IN \A i \in 1..Len(new) : NoneAborted(new[i].results)
  <1> DEFINE new == AppendUserTurn(ms, rs, ts)
  <1>1. CASE ~ EndsInUser(ms)
    <2> DEFINE m == UserMsg(rs, ts)
    <2>1. m \in Message /\ m.results = rs
      BY MessageTypes DEF Message, UserMsg
    <2>2. new = Append(ms, m)
      BY <1>1 DEF AppendUserTurn
    <2> HIDE DEF m, new, Message
    <2>3. \A i \in 1..Len(new) : (i \in 1..Len(ms) /\ new[i] = ms[i]) \/ new[i] = m
      BY <2>1, <2>2
    <2> QED BY <2>1, <2>3 DEF NoneAborted, new
  <1>2. CASE EndsInUser(ms)
    <2> DEFINE last == ms[Len(ms)]
               m == UserMsg(last.results \cup rs, last.texts \o ts)
    <2>1. new = [ms EXCEPT ![Len(ms)] = m]
      BY <1>2 DEF AppendUserTurn
    <2>2. m.results = last.results \cup rs
      BY DEF UserMsg
    <2> HIDE DEF m, new, Message
    <2>3. Len(new) = Len(ms)
          /\ \A i \in 1..Len(ms) : new[i] = IF i = Len(ms) THEN m ELSE ms[i]
      BY <2>1
    <2>4. \A i \in 1..Len(new) : /\ i \in 1..Len(ms)
                                /\ new[i].results \subseteq ms[i].results \cup rs
      BY <2>2, <2>3
    <2> QED BY <2>4 DEF new, NoneAborted
  <1> QED BY <1>1, <1>2

\* When no hook stops a round and no tool throws, every round ends whole.
LEMMA RoundsKept ==
  ASSUME ~ HooksDeny, ~ ToolsMayThrow, IInv, RoundsEndWhole, [Next]_vars
  PROVE  RoundsEndWhole'
  <1>1. /\ HistoryGrows /\ messages \in Seq(Message) /\ Resumable(messages)
        /\ results \in SUBSET Result
        /\ \A i \in 1..Len(messages) : NoneAborted(messages[i].results)
    BY StepGrows DEF IInv, LoopTypes, RoundsEndWhole
  <1>2. NoneAborted(results')
    BY ResultsGrow DEF RoundsEndWhole, NoneAborted
  <1> SUFFICES /\ \A i \in 1..Len(messages') : NoneAborted(messages'[i].results)
               /\ pc' \notin {"tools", "gate"} => Orphans(messages') = {}
    BY <1>2 DEF RoundsEndWhole
  <1>3. ASSUME NEW ms \in Seq(Message), NEW m \in Message, NoneAborted(m.results),
               \A i \in 1..Len(ms) : NoneAborted(ms[i].results)
        PROVE  /\ Append(ms, m) \in Seq(Message)
               /\ \A i \in 1..Len(Append(ms, m)) : NoneAborted(Append(ms, m)[i].results)
               /\ m.uses = {} => Orphans(Append(ms, m)) = {}
    <2> DEFINE new == Append(ms, m)
    <2> HIDE DEF Message
    <2>1. /\ new \in Seq(Message)
          /\ \A i \in 1..Len(new) : (i \in 1..Len(ms) /\ new[i] = ms[i]) \/ new[i] = m
          /\ new[Len(new)] = m
      OBVIOUS
    <2> HIDE DEF new
    <2>2. \A i \in 1..Len(new) : NoneAborted(new[i].results)
      BY <1>3, <2>1
    <2>3. m.uses = {} => Orphans(new) = {}
      BY <2>1 DEF Orphans
    <2> QED BY <2>1, <2>2, <2>3 DEF new
  <1>4. /\ \A m \in AssistantMessage : m \in Message /\ NoneAborted(m.results)
        /\ \A u \in UserMessage : /\ u \in Message /\ u.uses = {}
                                  /\ u.results = {} => NoneAborted(u.results)
    BY DEF Message, AssistantMessage, UserMessage, NoneAborted
  <1>5. CASE /\ messages' = messages
             /\ pc \in {"tools", "gate"} =>
                    pc' \in {"tools", "gate"} \/ HooksDeny \/ ToolsMayThrow
    BY <1>1, <1>5 DEF RoundsEndWhole
  <1>6. CASE pc = "unwinding" /\ messages' = RollbackPendingTurn(messages)
    <2>1. Orphans(messages) = {}
      BY <1>6 DEF RoundsEndWhole
    <2>2. \A i \in 1..Len(messages') : i \in 1..Len(messages) /\ messages'[i] = messages[i]
      <3>1. /\ Len(messages') \in 0..Len(messages)
            /\ \A j \in 1..Len(messages') : messages'[j] = messages[j]
        BY <1>1, <1>6, RollbackKeeps
      <3> QED BY <3>1
    <2> QED BY <1>1, <1>6, <2>1, <2>2, RollbackOpensNone
  <1>7. CASE \E ts \in Seq(Text) : \/ pc \in {"idle", "resolving"}
                                      /\ messages' = AppendUserTurn(messages, OrphanResults, ts)
                                   \/ pc = "top" /\ messages' = AppendUserTurn(messages, {}, ts)
    <2>1. Orphans(messages) = {} /\ OrphanResults = {}
      BY <1>7 DEF RoundsEndWhole, OrphanResults
    <2>2. PICK ts \in Seq(Text) : messages' = AppendUserTurn(messages, {}, ts)
      BY <1>7, <2>1
    <2>3. \A i \in 1..Len(messages') : NoneAborted(messages'[i].results)
      <3>1. {} \in SUBSET Result /\ NoneAborted({})
        BY DEF NoneAborted
      <3> QED BY <1>1, <2>2, <3>1, UserTurnWhole
    <2>4. EndsInUser(messages')
      <3>1. AnswersLast(messages, {})
        BY <2>1 DEF AnswersLast, Orphans, IdsOf
      <3> QED BY <1>1, <2>2, <3>1, AppendUserTurnResumable
    <2> QED BY <2>3, <2>4 DEF EndsInUser, Orphans
  <1>8. CASE \E m \in AssistantMessage : /\ pc' \notin {"tools", "gate"} => m.uses = {}
                                         /\ messages' = Append(messages, m)
    BY <1>1, <1>3, <1>4, <1>8
  <1>9. CASE \E m \in AssistantMessage, u \in UserMessage :
                u.results = {} /\ messages' = Append(Append(messages, m), u)
    <2>1. PICK m \in AssistantMessage, u \in UserMessage :
             u.results = {} /\ messages' = Append(Append(messages, m), u)
      BY <1>9
    <2>2. /\ Append(messages, m) \in Seq(Message)
          /\ \A i \in 1..Len(Append(messages, m)) : NoneAborted(Append(messages, m)[i].results)
      BY <1>1, <1>3, <1>4
    <2> QED BY <1>3, <1>4, <2>1, <2>2
  <1>10. CASE \E u \in UserMessage : /\ u.results = {} \/ u.results = results
                                     /\ messages' = Append(messages, u)
    <2>1. NoneAborted(results)
      BY DEF RoundsEndWhole
    <2> QED BY <1>1, <1>3, <1>4, <1>10, <2>1
  <1> QED BY <1>1, <1>5, <1>6, <1>7, <1>8, <1>9, <1>10 DEF HistoryGrows, Asks

\* When no hook stops a round and no tool throws, no call is ever answered
\* synthetically, so none the log records as run is shown as aborted; a process
\* starts on a history without open calls, as the restore hands over.
THEOREM ResultsTrue ==
  ASSUME ~ HooksDeny, ~ ToolsMayThrow,
         \A ms \in Initial : /\ Orphans(ms) = {}
                             /\ \A i \in 1..Len(ms) : NoneAborted(ms[i].results)
  PROVE  Spec => []ResultsAreTrue
  <1>1. Init => RoundsEndWhole
    BY DEF Init, RoundsEndWhole, NoneAborted
  <1>2. IInv /\ RoundsEndWhole /\ [Next]_vars => RoundsEndWhole'
    BY RoundsKept
  <1>3. RoundsEndWhole => ResultsAreTrue
    BY DEF RoundsEndWhole, NoneAborted, ResultsAreTrue
  <1> QED BY <1>1, <1>2, <1>3, Invariance, PTL DEF Spec
-----------------------------------------------------------------------------
(* How often an answer is continued                                         *)

Continues == {CutNote, FullNote}
OtherText == Text \ Continues

\* A user turn whose texts do not ask the model to go on.
AsksNothing(ts) == ts # <<CutNote>> /\ ts # <<FullNote>>

\* Where the streaks stand, as the history shows them.
StreaksInv ==
    /\ pc \in {"top", "model"} =>
           /\ cutStreak = InARow(messages, CutNote, {})
           /\ fullStreak = InARow(messages, FullNote, {CutNote})
    /\ pc \in InRound => cutStreak = 0 /\ fullStreak = 0
    /\ pc = "resolving" => content.texts \in Seq(OtherText)

\* A sequence that ends outside Continues asks nothing.
LEMMA EndsOtherwise ==
  ASSUME NEW ts \in Seq(Text), ts # <<>>, ts[Len(ts)] \notin Continues
  PROVE  AsksNothing(ts)
  BY DEF AsksNothing, Continues

\* The notes are two, and no prompt, mode note or other note is one of them.
LEMMA NotesDiffer ==
    /\ CutNote # FullNote /\ Note \notin Continues
    /\ CutNote \in Text /\ FullNote \in Text
    /\ \A n : Prompt(n) \notin Continues /\ ModeNote(n) \notin Continues
  BY DEF CutNote, FullNote, Note, Prompt, ModeNote, Continues, Text, TextKinds

\* A turn that asks nothing in particular ends every row.
LEMMA RowEnds ==
  ASSUME NEW ms \in Seq(Message), ms # <<>>, ms[Len(ms)].role = "user",
         AsksNothing(ms[Len(ms)].texts)
  PROVE  InARow(ms, CutNote, {}) = 0 /\ InARow(ms, FullNote, {CutNote}) = 0
  <1>1. Len(ms) \in Nat /\ Len(ms) \in DOMAIN ms /\ DOMAIN ms = 1..Len(ms)
    OBVIOUS
  <1>2. \A notes \in SUBSET Continues : ~ AsksOn(ms[Len(ms)], notes)
    <2> DEFINE last == ms[Len(ms)]
    <2>1. \A note : last = UserMsg({}, <<note>>) => last.texts = <<note>>
      BY DEF UserMsg
    <2> HIDE DEF last
    <2>2. \A note \in Continues : last # UserMsg({}, <<note>>)
      BY <2>1 DEF AsksNothing, Continues, last
    <2> QED BY <2>2 DEF AsksOn, last
  <1>3. ASSUME NEW note \in Continues, NEW others \in SUBSET Continues
        PROVE  InARow(ms, note, others) = 0
    <2>1. \A i \in DOMAIN ms : Len(ms) \in i..Len(ms)
      BY <1>1
    <2>2. \A i \in DOMAIN ms :
             ~ \A k \in i..Len(ms) : ms[k].role = "user" => AsksOn(ms[k], {note} \cup others)
      BY <1>2, <1>3, <2>1
    <2>3. {i \in DOMAIN ms :
              /\ AsksOn(ms[i], {note})
              /\ \A k \in i..Len(ms) : ms[k].role = "user" => AsksOn(ms[k], {note} \cup others)}
          = {}
      BY <2>2
    <2> QED BY <2>3, FS_EmptySet DEF InARow
  <1> QED BY <1>3 DEF Continues

\* Nor does a row of cut answers go on past a turn of another kind.
LEMMA RowStops ==
  ASSUME NEW ms \in Seq(Message), ms # <<>>, ms[Len(ms)].role = "user",
         ~ AsksOn(ms[Len(ms)], {CutNote})
  PROVE  InARow(ms, CutNote, {}) = 0
  <1>1. DOMAIN ms = 1..Len(ms) /\ \A i \in 1..Len(ms) : Len(ms) \in i..Len(ms)
    OBVIOUS
  <1>2. {i \in DOMAIN ms :
            /\ AsksOn(ms[i], {CutNote})
            /\ \A k \in i..Len(ms) : ms[k].role = "user" => AsksOn(ms[k], {CutNote} \cup {})}
        = {}
    BY <1>1
  <1> QED BY <1>2, FS_EmptySet DEF InARow

\* The row of a history a turn that answers the model's last words is put to.
LEMMA RowGrows ==
  ASSUME NEW ms \in Seq(Message), NEW m \in AssistantMessage, NEW u \in UserMessage,
         NEW note \in Continues, NEW others \in SUBSET Continues, note \notin others
  PROVE  /\ InARow(ms, note, others) \in Nat
         /\ u = UserMsg({}, <<note>>) =>
                InARow(Append(Append(ms, m), u), note, others) = InARow(ms, note, others) + 1
         /\ (\E other \in others : u = UserMsg({}, <<other>>)) =>
                InARow(Append(Append(ms, m), u), note, others) = InARow(ms, note, others)
  <1> DEFINE new == Append(Append(ms, m), u)
             all == {note} \cup others
             n   == Len(ms)
             Row(hs) == {i \in DOMAIN hs :
                            /\ AsksOn(hs[i], {note})
                            /\ \A k \in i..Len(hs) : hs[k].role = "user" => AsksOn(hs[k], all)}
  <1>1. /\ m \in Message /\ u \in Message /\ m.role = "assistant" /\ u.role = "user"
    BY DEF Message, AssistantMessage, UserMessage
  <1>2. /\ n \in Nat /\ DOMAIN ms = 1..n /\ DOMAIN new = 1..n+2 /\ Len(new) = n+2
        /\ new[n+1] = m /\ new[n+2] = u /\ \A i \in 1..n : new[i] = ms[i]
    <2> HIDE DEF Message, UserMessage, AssistantMessage
    <2> QED BY <1>1
  <1> HIDE DEF new, n
  <1>3. IsFiniteSet(Row(ms)) /\ Cardinality(Row(ms)) \in Nat /\ n+2 \notin Row(ms)
    <2>1. Row(ms) \in SUBSET (1..n) /\ IsFiniteSet(1..n)
      BY <1>2, FS_Interval
    <2>2. n+2 \notin 1..n
      BY <1>2
    <2> QED BY <2>1, <2>2, FS_Subset, FS_CardinalityType
  <1>4. ~ AsksOn(m, {note})
    BY <1>1 DEF AsksOn, UserMsg
  <1>5. ASSUME AsksOn(u, all)
        PROVE  Row(new) = Row(ms) \cup (IF AsksOn(u, {note}) THEN {n+2} ELSE {})
    <2>1. ASSUME NEW i \in 1..n
          PROVE  (\A k \in i..n+2 : new[k].role = "user" => AsksOn(new[k], all))
                 <=> (\A k \in i..n : ms[k].role = "user" => AsksOn(ms[k], all))
      <3>1. i..n+2 = (i..n) \cup {n+1, n+2} /\ \A k \in i..n : k \in 1..n
        BY <1>2
      <3> QED BY <1>1, <1>2, <1>5, <3>1
    <2>2. \A i \in 1..n : i \in Row(new) <=> i \in Row(ms)
      <3> TAKE i \in 1..n
      <3>1. i \in 1..n+2 /\ new[i] = ms[i]
        BY <1>2
      <3>2. (\A k \in i..n+2 : new[k].role = "user" => AsksOn(new[k], all))
            <=> (\A k \in i..n : ms[k].role = "user" => AsksOn(ms[k], all))
        BY <2>1
      <3>3. DOMAIN ms = 1..n /\ DOMAIN new = 1..n+2 /\ Len(new) = n+2 /\ Len(ms) = n
        BY <1>2 DEF n
      <3> HIDE DEF all
      <3> QED BY <3>1, <3>2, <3>3
    <2>3. n+1 \notin Row(new) /\ n+1 \notin 1..n
      BY <1>2, <1>4
    <2>4. n+2 \in Row(new) <=> AsksOn(u, {note})
      <3>1. n+2 \in DOMAIN new /\ \A k \in n+2..Len(new) : k = n+2
        BY <1>2
      <3>2. AsksOn(new[n+2], {note}) <=> AsksOn(u, {note})
        BY <1>2
      <3>3. \A k \in n+2..Len(new) : new[k].role = "user" => AsksOn(new[k], all)
        BY <1>2, <1>5, <3>1
      <3> QED BY <3>1, <3>2, <3>3
    <2>5. Row(new) \subseteq (1..n) \cup {n+1, n+2} /\ Row(ms) \subseteq 1..n
      BY <1>2
    <2> HIDE DEF Row, all
    <2> QED BY <2>2, <2>3, <2>4, <2>5
  <1>6. InARow(ms, note, others) = Cardinality(Row(ms))
        /\ InARow(new, note, others) = Cardinality(Row(new))
    BY DEF InARow
  <1>7. ASSUME u = UserMsg({}, <<note>>)
        PROVE  InARow(new, note, others) = InARow(ms, note, others) + 1
    <2>1. AsksOn(u, all) /\ AsksOn(u, {note})
      BY <1>7 DEF AsksOn
    <2> HIDE DEF Row, all
    <2>2. Row(new) = Row(ms) \cup {n+2}
      BY <1>5, <2>1
    <2>3. Cardinality(Row(ms) \cup {n+2}) = Cardinality(Row(ms)) + 1
      BY <1>3, FS_AddElement
    <2> QED BY <1>6, <2>2, <2>3
  <1>8. ASSUME NEW other \in others, u = UserMsg({}, <<other>>)
        PROVE  InARow(new, note, others) = InARow(ms, note, others)
    <2>1. other # note
      OBVIOUS
    <2>2. AsksOn(u, all) /\ ~ AsksOn(u, {note})
      <3>1. u.texts = <<other>> /\ <<other>> # <<note>>
        BY <1>8, <2>1 DEF UserMsg
      <3> QED BY <1>8, <3>1 DEF AsksOn, UserMsg
    <2> HIDE DEF Row, all
    <2> QED BY <1>5, <1>6, <2>2
  <1> HIDE DEF Row, all
  <1> QED BY <1>3, <1>6, <1>7, <1>8 DEF new

\* appendUserTurn, merged or not, ends the texts of the last turn as given.
LEMMA TurnEndsRow ==
  ASSUME NEW ms \in Seq(Message), NEW rs \in SUBSET Result, NEW ts \in Seq(Text),
         ts # <<>>, ts[Len(ts)] \notin Continues
  PROVE  LET new == AppendUserTurn(ms, rs, ts)
         IN InARow(new, CutNote, {}) = 0 /\ InARow(new, FullNote, {CutNote}) = 0
  <1> DEFINE new == AppendUserTurn(ms, rs, ts)
  <1>1. CASE ~ EndsInUser(ms)
    <2> DEFINE m == UserMsg(rs, ts)
    <2>1. m \in Message /\ m.role = "user" /\ m.texts = ts /\ AsksNothing(ts)
      BY MessageTypes, EndsOtherwise DEF Message, UserMsg
    <2>2. new = Append(ms, m)
      BY <1>1 DEF AppendUserTurn
    <2> HIDE DEF m, new, Message
    <2>3. new \in Seq(Message) /\ new # <<>> /\ new[Len(new)] = m
      BY <2>1, <2>2
    <2> QED BY <2>1, <2>3, RowEnds DEF new
  <1>2. CASE EndsInUser(ms)
    <2> DEFINE last == ms[Len(ms)]
               all == last.texts \o ts
               m == UserMsg(last.results \cup rs, all)
    <2>1. Len(ms) \in 1..Len(ms) /\ last \in Message
      BY <1>2 DEF EndsInUser
    <2>2. last.results \in SUBSET Result /\ last.texts \in Seq(Text)
      BY <2>1, MessageShapes
    <2>3. all \in Seq(Text) /\ all # <<>> /\ all[Len(all)] = ts[Len(ts)]
      <3> HIDE DEF last, Text
      <3> QED BY <2>2
    <2>4. AsksNothing(all)
      BY <2>3, EndsOtherwise
    <2>5. m \in Message /\ m.role = "user" /\ m.texts = all
      <3> HIDE DEF last, all
      <3> QED BY <2>2, <2>3, MessageTypes DEF Message, UserMsg
    <2>6. new = [ms EXCEPT ![Len(ms)] = m]
      BY <1>2 DEF AppendUserTurn
    <2> HIDE DEF last, all, m, new, Message
    <2>7. new \in Seq(Message) /\ new # <<>> /\ Len(new) = Len(ms) /\ new[Len(ms)] = m
      BY <2>1, <2>5, <2>6
    <2> QED BY <2>4, <2>5, <2>7, RowEnds DEF new
  <1> QED BY <1>1, <1>2

\* What the loop and its host write besides is neither.
LEMMA OtherTexts ==
  ASSUME LoopTypes
  PROVE  /\ <<>> \in Seq(OtherText) /\ PendingModeTexts \in Seq(OtherText)
         /\ \A n \in Nat : <<Prompt(n)>> \in Seq(OtherText)
         /\ \A mark : Opening(mark) \in Seq(OtherText)
         /\ <<Note>> \in Seq(OtherText)
  <1>1. /\ Note \in OtherText
        /\ \A n \in Nat : Prompt(n) \in OtherText /\ ModeNote(n) \in OtherText
    BY NotesDiffer DEF OtherText, Note, Prompt, ModeNote, Text, TextKinds
  <1>2. active \in Nat
    BY Numbers
  <1>3. PendingModeTexts \in Seq(OtherText)
    BY <1>1, <1>2 DEF PendingModeTexts
  <1> HIDE DEF OtherText
  <1> QED BY <1>1, <1>3 DEF Opening

LEMMA OthersAskNothing ==
  ASSUME NEW ts \in Seq(OtherText)
  PROVE  /\ ts \in Seq(Text) /\ AsksNothing(ts)
         /\ ts # <<>> => ts[Len(ts)] \notin Continues
  <1>1. ts \in Seq(Text)
    BY DEF OtherText
  <1>2. \A i \in 1..Len(ts) : ts[i] \notin Continues
    BY DEF OtherText
  <1>3. ts # <<>> => Len(ts) \in 1..Len(ts)
    BY <1>1
  <1>4. ASSUME NEW note \in Continues PROVE ts # <<note>>
    <2> SUFFICES ASSUME ts = <<note>> PROVE FALSE
      OBVIOUS
    <2>1. 1 \in 1..Len(ts) /\ ts[1] = note
      OBVIOUS
    <2> QED BY <1>2, <2>1
  <1> QED BY <1>1, <1>2, <1>3, <1>4 DEF AsksNothing, Continues

\* The turn that opens a run starts both rows anew.
LEMMA OpenStreaks ==
  ASSUME LoopTypes, NEW ts \in Seq(OtherText), ts # <<>>, OpenTurn(OrphanResults, ts)
  PROVE  StreaksInv'
  <1>1. messages \in Seq(Message) /\ OrphanResults \in SUBSET Result
    BY OrphansAnswerLast DEF OrphanResults, LoopTypes
  <1>2. /\ messages' = AppendUserTurn(messages, OrphanResults, ts)
        /\ pc' = "top" /\ cutStreak' = 0 /\ fullStreak' = 0
    BY DEF OpenTurn, ResetLoop
  <1>3. ts \in Seq(Text) /\ ts[Len(ts)] \notin Continues
    BY OthersAskNothing
  <1>4. InARow(messages', CutNote, {}) = 0 /\ InARow(messages', FullNote, {CutNote}) = 0
    BY <1>1, <1>2, <1>3, TurnEndsRow
  <1> QED BY <1>2, <1>4 DEF StreaksInv, InRound

\* The streaks hold across an answer that is not a call.
LEMMA AnswerStreaks ==
  ASSUME IInv, StreaksInv, Answer
  PROVE  StreaksInv'
  <1>0. LoopTypes /\ messages \in Seq(Message)
    BY DEF IInv, LoopTypes
  <1>1. ASSUME pc = "model", NEW blank \in BOOLEAN, NEW note \in Continues,
               AskToContinue(Spoken(blank), note)
        PROVE  \E m \in AssistantMessage, u \in UserMessage :
                   /\ u = UserMsg({}, <<note>>)
                   /\ messages' = Append(Append(messages, m), u)
    <2> DEFINE u == UserMsg({}, <<note>>)
    <2>1. u \in UserMessage /\ u \in Message
      BY MessageTypes, TextTypes DEF Continues, Message
    <2>2. PICK m \in AssistantMessage : Extend(<<m>> \o <<u>>)
      BY <1>0, <1>1, AskAdds DEF Continues
    <2>3. m \in Message
      BY DEF Message
    <2> HIDE DEF u
    <2>4. messages' = Append(Append(messages, m), u)
      BY <1>0, <2>1, <2>2, <2>3, TwoGrow
    <2> QED BY <2>1, <2>4 DEF u
  <1>2. ASSUME NEW blank \in BOOLEAN, AnswerCut(blank) PROVE StreaksInv'
    <2>1. /\ pc = "model" /\ cutStreak' = cutStreak + 1 /\ fullStreak' = fullStreak
      BY <1>2 DEF AnswerCut
    <2>2. CASE AskToContinue(Spoken(blank), CutNote)
      <3>1. PICK m \in AssistantMessage, u \in UserMessage :
               /\ u = UserMsg({}, <<CutNote>>)
               /\ messages' = Append(Append(messages, m), u)
        BY <1>1, <2>1, <2>2 DEF Continues
      <3>0. CutNote \in Continues /\ FullNote \in Continues /\ CutNote # FullNote
        BY NotesDiffer DEF Continues
      <3>2. InARow(messages', CutNote, {}) = InARow(messages, CutNote, {}) + 1
        <4>1. {} \in SUBSET Continues /\ CutNote \notin {}
          OBVIOUS
        <4>2. InARow(Append(Append(messages, m), u), CutNote, {})
              = InARow(messages, CutNote, {}) + 1
          BY <1>0, <3>0, <3>1, <4>1, RowGrows
        <4> QED BY <3>1, <4>2
      <3>3. InARow(messages', FullNote, {CutNote}) = InARow(messages, FullNote, {CutNote})
        <4>1. {CutNote} \in SUBSET Continues /\ FullNote \notin {CutNote}
          BY <3>0
        <4>2. \E other \in {CutNote} : u = UserMsg({}, <<other>>)
          BY <3>1
        <4>3. InARow(Append(Append(messages, m), u), FullNote, {CutNote})
              = InARow(messages, FullNote, {CutNote})
          BY <1>0, <3>0, <4>1, <4>2, RowGrows
        <4> QED BY <3>1, <4>3
      <3>4. pc' = "top"
        BY <2>2 DEF AskToContinue
      <3> QED BY <2>1, <3>2, <3>3, <3>4 DEF StreaksInv, InRound
    <2>3. CASE pc' = "unwinding"
      BY <2>3 DEF StreaksInv, InRound
    <2> QED BY <1>2, <2>2, <2>3 DEF AnswerCut, Finish
  <1>3. ASSUME NEW blank \in BOOLEAN, AnswerFull(blank) PROVE StreaksInv'
    <2>1. /\ pc = "model" /\ cutStreak' = 0 /\ fullStreak' = fullStreak + 1
      BY <1>3 DEF AnswerFull
    <2>2. CASE AskToContinue(Spoken(blank), FullNote)
      <3>1. PICK m \in AssistantMessage, u \in UserMessage :
               /\ u = UserMsg({}, <<FullNote>>)
               /\ messages' = Append(Append(messages, m), u)
        BY <1>1, <2>1, <2>2 DEF Continues
      <3>2. InARow(messages', FullNote, {CutNote}) = InARow(messages, FullNote, {CutNote}) + 1
        BY <1>0, <3>1, RowGrows, NotesDiffer DEF Continues
      <3>3. InARow(messages', CutNote, {}) = 0
        <4>1. /\ messages' \in Seq(Message) /\ messages' # <<>>
              /\ messages'[Len(messages')] = u
          <5>1. m \in Message /\ u \in Message
            BY DEF Message
          <5> HIDE DEF Message
          <5> QED BY <1>0, <3>1, <5>1
        <4>2. ~ AsksOn(u, {CutNote}) /\ u.role = "user"
          <5>1. u.texts = <<FullNote>> /\ <<FullNote>> # <<CutNote>> /\ u.role = "user"
            BY <3>1, NotesDiffer DEF UserMsg
          <5> QED BY <5>1 DEF AsksOn, UserMsg
        <4> QED BY <4>1, <4>2, RowStops
      <3>4. pc' = "top"
        BY <2>2 DEF AskToContinue
      <3> QED BY <2>1, <3>2, <3>3, <3>4 DEF StreaksInv, InRound
    <2>3. CASE pc' = "unwinding"
      BY <2>3 DEF StreaksInv, InRound
    <2> QED BY <1>3, <2>2, <2>3 DEF AnswerFull, Finish
  <1>4. ASSUME NEW blank \in BOOLEAN, AnswerEnds(blank) PROVE StreaksInv'
    <2> DEFINE u == UserMsg({}, PendingModeTexts)
    <2>1. cutStreak' = 0 /\ fullStreak' = 0
      BY <1>4 DEF AnswerEnds
    <2>2. CASE Extend(Spoken(blank) \o <<u>>) /\ pc' = "top"
      <3>1. PendingModeTexts \in Seq(Text) /\ AsksNothing(PendingModeTexts)
        BY <1>0, OtherTexts, OthersAskNothing
      <3>2. u \in Message /\ u.role = "user" /\ AsksNothing(u.texts)
        BY <3>1, MessageTypes DEF Message, UserMsg
      <3>3. Spoken(blank) \in Seq(Message)
        <4>1. CASE Spoken(blank) = <<>>
          BY <4>1
        <4>2. CASE \E m \in AssistantMessage : Spoken(blank) = <<m>>
          <5>1. PICK m \in AssistantMessage : Spoken(blank) = <<m>>
            BY <4>2
          <5>2. m \in Message
            BY DEF Message
          <5> HIDE DEF Message
          <5> QED BY <5>1, <5>2
        <4> QED BY <1>0, <4>1, <4>2, SpokenTypes
      <3>4. messages' = messages \o (Spoken(blank) \o <<u>>)
        BY <2>2 DEF Extend
      <3> HIDE DEF u, Message
      <3>5. messages' \in Seq(Message) /\ messages' # <<>> /\ messages'[Len(messages')] = u
        BY <1>0, <3>2, <3>3, <3>4
      <3> QED BY <2>1, <2>2, <3>2, <3>5, RowEnds DEF StreaksInv, InRound
    <2>3. CASE pc' = "unwinding"
      BY <2>3 DEF StreaksInv, InRound
    <2> QED BY <1>4, <2>2, <2>3 DEF AnswerEnds, Finish
  <1>5. ASSUME NEW blank \in BOOLEAN, WrapAnswered(blank) PROVE StreaksInv'
    BY <1>5 DEF WrapAnswered, Finish, StreaksInv, InRound
  <1> QED BY <1>2, <1>3, <1>4, <1>5 DEF Answer

\* The results of a round end both rows.
LEMMA BoundaryStreaks ==
  ASSUME IInv, StreaksInv, Boundary
  PROVE  StreaksInv'
  <1>0. LoopTypes /\ messages \in Seq(Message) /\ results \in SUBSET Result
    BY DEF IInv, LoopTypes
  <1>1. PICK queued \in BOOLEAN : BatchPasses(IF queued THEN <<Prompt(0)>> ELSE <<>>)
    BY DEF Boundary
  <1> DEFINE drained == IF queued THEN <<Prompt(0)>> ELSE <<>>
             head == IF salvage THEN <<Note>> ELSE <<>>
             ts == head \o PendingModeTexts \o drained
             u == UserMsg(results, ts)
  <1>2. drained \in Seq(OtherText) /\ head \in Seq(OtherText)
    BY <1>0, OtherTexts
  <1>3. PendingModeTexts \in Seq(OtherText)
    BY <1>0, OtherTexts
  <1>4. ts \in Seq(OtherText)
    <2> HIDE DEF drained, head, OtherText
    <2> QED BY <1>2, <1>3
  <1>5. /\ messages' = Append(messages, u) /\ pc = "gate" /\ pc' = "top"
        /\ UNCHANGED <<cutStreak, fullStreak>>
    BY <1>1 DEF BatchPasses
  <1> HIDE DEF drained, head, ts
  <1>6. u \in Message /\ u.role = "user" /\ AsksNothing(u.texts)
    BY <1>0, <1>4, OthersAskNothing, MessageTypes DEF Message, UserMsg
  <1> HIDE DEF u, Message
  <1>7. messages' \in Seq(Message) /\ messages' # <<>> /\ messages'[Len(messages')] = u
    BY <1>0, <1>5, <1>6
  <1> QED BY <1>5, <1>6, <1>7, RowEnds DEF StreaksInv, InRound

\* Every step keeps the streaks what the history shows.
LEMMA StreaksKept ==
  ASSUME IInv, StreaksInv, [Next]_vars
  PROVE  StreaksInv'
  <1>0. LoopTypes /\ Resumable(messages)
    BY DEF IInv
  <1>1. CASE StartRun
    <2>1. content'.texts = Opening(marker) \o <<Prompt(runs + 1)>>
      BY <1>0, <1>1, StartContent
    <2>2. Opening(marker) \in Seq(OtherText) /\ <<Prompt(runs + 1)>> \in Seq(OtherText)
      BY <1>0, OtherTexts DEF LoopTypes
    <2>3. content'.texts \in Seq(OtherText)
      <3> HIDE DEF OtherText
      <3> QED BY <2>1, <2>2
    <2> QED BY <1>1, <2>3 DEF StartRun, StreaksInv, InRound
  <1>2. CASE ContinueRun
    <2>1. Opening("resumed") \in Seq(OtherText) /\ Opening("resumed") # <<>>
      BY <1>0, OtherTexts, ResumedTypes
    <2> QED BY <1>0, <1>2, <2>1, OpenStreaks DEF ContinueRun
  <1>3. CASE PromptResolved
    <2>1. content.texts \in Seq(OtherText) /\ content.texts # <<>>
          /\ content.results = OrphanResults
      BY <1>3 DEF PromptResolved, StreaksInv, IInv, ContentInv
    <2> QED BY <1>0, <1>3, <2>1, OpenStreaks DEF PromptResolved
  <1>4. CASE Answer
    BY <1>4, AnswerStreaks
  <1>5. CASE Boundary
    BY <1>5, BoundaryStreaks
  <1>6. CASE \E n \in 1..MaxTools, cut \in BOOLEAN : AnswerCallsTools(n, cut)
    BY <1>6 DEF AnswerCallsTools, StreaksInv, InRound
  <1>7. CASE \E id \in todo, how \in {"ran", "canceled"} : ToolReturns(id, how)
    BY <1>7 DEF ToolReturns, StreaksInv, InRound
  <1>8. CASE NextRound
    BY <1>8 DEF NextRound, StreaksInv, InRound
  <1>9. CASE \/ StopAtTop \/ CapReached \/ SendThrows \/ ToolThrows \/ BatchHalted
             \/ ResolverThrows \/ Settle
    BY <1>9 DEF StopAtTop, CapReached, SendThrows, ToolThrows, BatchHalted, ResolverThrows,
                Settle, Finish, StreaksInv, InRound
  <1>10. CASE ToggleMode \/ UNCHANGED vars \/ \E who \in {"user", "mode"} : Abort(who)
    BY <1>10 DEF ToggleMode, Abort, vars, loop, StreaksInv
  <1> QED BY <1>1, <1>2, <1>3, <1>4, <1>5, <1>6, <1>7, <1>8, <1>9, <1>10
          DEF Next, Advance, Environment

\* However long the behaviour, an answer that was cut short, or filled its
\* budget, is continued just when fewer than the cap stand in a row before it
\* in the history, and the run is ended just when they do not.
THEOREM ContinuationsCounted == Spec => ContinuationsAreCounted
  <1>1. Init => StreaksInv
    BY DEF Init, StreaksInv, InRound
  <1>2. IInv /\ StreaksInv /\ [Next]_vars => StreaksInv'
    BY StreaksKept
  <1>3. StreaksInv =>
           [\A blank \in BOOLEAN :
               /\ AnswerCut(blank) =>
                      (pc' = "top" <=> InARow(messages, CutNote, {}) < CutCap)
               /\ AnswerFull(blank) =>
                      (pc' = "top" <=> InARow(messages, FullNote, {CutNote}) < FullCap)]_vars
    BY DEF StreaksInv, AnswerCut, AnswerFull, AskToContinue, Finish
  <1> QED BY <1>1, <1>2, <1>3, Invariance, PTL DEF Spec, ContinuationsAreCounted
=============================================================================
