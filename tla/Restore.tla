------------------------------- MODULE Restore -------------------------------
(***************************************************************************)
(* What a resumed process makes of the session log                         *)
(* (src/src/session/session-restore.ts): the records folded into messages, *)
(* the messages repaired, and a trailing prompt nobody answered pulled     *)
(* back out as a draft.  Rewind records are left out.                      *)
(***************************************************************************)
EXTENDS History, SequencesExt

\* A result joins a trailing user message, a compact record puts its messages
\* in place of all before it; every other record is a message.
FoldRecord(ms, rec) ==
    CASE rec.role = "result"  -> AppendUserTurn(ms, rec.results, <<>>)
      [] rec.role = "compact" -> rec.replaced
      [] OTHER                -> Append(ms, rec)

FoldRecords(records) ==
    LET folded[n \in 0..Len(records)] ==
            IF n = 0 THEN <<>> ELSE FoldRecord(folded[n-1], records[n])
    IN folded[Len(records)]

\* Mutant: an answer is kept when any one of its calls has a result.
UnansweredAny(ms) ==
    {i \in DOMAIN ms : /\ ms[i].uses # {}
                       /\ ~ (i < Len(ms) /\ ms[i].uses \cap IdsOf(ms[i+1].results) # {})}

\* Mutant: the look at the next message stops one short of the end.
UnansweredShort(ms) ==
    {i \in DOMAIN ms : /\ ms[i].uses # {}
                       /\ ~ (i + 1 < Len(ms) /\ ms[i].uses \subseteq IdsOf(ms[i+1].results))}

\* Step 1: the assistant messages with a call the next message does not answer.
Unanswered(ms) ==
    {i \in DOMAIN ms : /\ ms[i].uses # {}
                       /\ ~ (i < Len(ms) /\ ms[i].uses \subseteq IdsOf(ms[i+1].results))}

\* Step 2: the calls of the assistant messages that stay.
LiveIds(ms) == UNION {ms[i].uses : i \in DOMAIN ms \ Unanswered(ms)}

\* A message without content goes, unless it is an answer.
KeepContent(kept, m) ==
    IF m.role = "assistant" \/ m.results # {} \/ m.texts # <<>> THEN Append(kept, m) ELSE kept

\* Step 3: results of dropped calls go, and so do messages left with nothing.
Cleaned(ms) ==
    LET open == Unanswered(ms)
        live == LiveIds(ms)
        stripped(i) == IF i \in open THEN UserMsg({}, <<>>)
                       ELSE [ms[i] EXCEPT !.results = {r \in @ : r.id \in live}]
        cleaned[n \in 0..Len(ms)] ==
            IF n = 0 THEN <<>> ELSE KeepContent(cleaned[n-1], stripped(n))
    IN cleaned[Len(ms)]

HasText(m, kind) == \E k \in DOMAIN m.texts : m.texts[k].kind = kind
Opens(m, later) == m.role = "user" /\ later # <<>> /\ Head(later).role = "user"

\* Mutant: a checkpoint's text goes with its message.
AbsorbUserTextless(m, later) ==
    IF Opens(m, later)
    THEN <<UserMsg(m.results \cup Head(later).results, Head(later).texts)>> \o Tail(later)
    ELSE <<m>> \o later

\* Step 4, last message first: of adjacent user messages the last stays, with
\* the results of all and the texts of those that are compact checkpoints.
AbsorbUser(m, later) ==
    LET kept == IF HasText(m, "checkpoint") THEN m.texts ELSE <<>> IN
    IF Opens(m, later)
    THEN <<UserMsg(m.results \cup Head(later).results, kept \o Head(later).texts)>>
             \o Tail(later)
    ELSE <<m>> \o later

\* Step 4 for the whole list.
CollapseUsers(ms) ==
    LET collapsed[n \in 1..Len(ms) + 1] ==
            IF n > Len(ms) THEN <<>> ELSE AbsorbUser(ms[n], collapsed[n+1])
    IN collapsed[1]

RepairMessages(ms) == CollapseUsers(Cleaned(ms))

\* What isAttachmentText does not know for plumbing, checkpoints included.
Human == {"prompt", "checkpoint"}

\* The human texts among ts.
HumanTexts(ts) ==
    LET picked[n \in 0..Len(ts)] ==
            IF n = 0 THEN <<>>
            ELSE IF ts[n].kind \in Human THEN Append(picked[n-1], ts[n]) ELSE picked[n-1]
    IN picked[Len(ts)]

\* The human text of a trailing user message: what goes back to the editor.
PendingDraft(ms) == IF EndsInUser(ms) THEN HumanTexts(Last(ms).texts) ELSE <<>>

\* extractPendingDraft: the message goes with its draft, but its results stay.
WithoutDraft(ms) ==
    IF PendingDraft(ms) = <<>> THEN ms
    ELSE IF Last(ms).results = {} THEN Front(ms)
    ELSE Front(ms) \o <<UserMsg(Last(ms).results, <<>>)>>

Repaired(records) == RepairMessages(FoldRecords(records))

\* loadSessionFromText: the history the next process starts with, and the draft.
Restored(records) == WithoutDraft(Repaired(records))
Draft(records) == PendingDraft(Repaired(records))

\* lastAdvertisedModeFromHistory: the mode the last mode note names, 0 for none.
LastAnnounced(ms) ==
    LET telling == {i \in DOMAIN ms : HasText(ms[i], "mode")}
        texts   == ms[Max(telling)].texts
    IN IF telling = {} THEN 0
       ELSE texts[Max({k \in DOMAIN texts : texts[k].kind = "mode"})].val
=============================================================================
