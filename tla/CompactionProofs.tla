--------------------------- MODULE CompactionProofs ---------------------------
(***************************************************************************)
(* A session across crashes and compactions.  At every instant its log     *)
(* restores to a history a run can be started on, so no request has an     *)
(* invalid history, for every bound and fault, as long as /compact is not  *)
(* typed while tools run.  What it restores to has the finished work, the  *)
(* prompt in hand and the newest checkpoint, and nothing that was let go   *)
(* of.                                                                     *)
(*                                                                         *)
(* The restore is made of folds over sequences.  What a fold makes of one  *)
(* element more is a lemma of its own (FoldsOn, CleansUp, CollapsesDown);  *)
(* CountsUp, an induction over the numbers up to n, puts them together.    *)
(***************************************************************************)
EXTENDS Compaction, AgentCoreProofs, FiniteSetTheorems

-----------------------------------------------------------------------------
(* Numbers up to a bound                                                    *)

\* A sequence's domain is the numbers up to its length.
LEMMA SeqDomain ==
  ASSUME NEW S, NEW s \in Seq(S)
  PROVE  DOMAIN s = 1..Len(s)
  OBVIOUS

\* A nonempty set of numbers below a bound has a greatest, any a least.
LEMMA GreatestExists ==
  ASSUME NEW n \in Nat, NEW S \in SUBSET (0..n), S # {}
  PROVE  Max(S) \in S /\ \A y \in S : y <= Max(S)
  <1> DEFINE T == {k \in Nat : \A y \in S : y <= k}
  <1>1. T \subseteq Nat /\ n \in T
    OBVIOUS
  <1> HIDE DEF T
  <1>2. PICK k \in T : \A j \in T : ~ (<<j, k>> \in OpToRel(<, Nat))
    BY <1>1, WFMin, NatLessThanWellFounded, Zenon
  <1>3. k \in Nat /\ \A y \in S : y <= k
    BY <1>2 DEF T
  <1>4. \A j \in T : ~ (j < k)
    BY <1>1, <1>2, <1>3 DEF OpToRel
  <1>5. k \in S
    <2> SUFFICES ASSUME k \notin S PROVE FALSE
      OBVIOUS
    <2>1. PICK y \in S : TRUE
      OBVIOUS
    <2>2. y \in Nat /\ y <= k /\ y # k
      BY <1>3
    <2>3. k - 1 \in Nat /\ k - 1 < k
      BY <1>3, <2>2
    <2>4. \A z \in S : z <= k - 1
      <3> TAKE z \in S
      <3>1. z \in Nat /\ z <= k /\ z # k
        BY <1>3
      <3> QED BY <1>3, <3>1
    <2> QED BY <1>4, <2>3, <2>4 DEF T
  <1>6. \A y \in S : k >= y
    BY <1>3
  <1> QED BY <1>5, <1>6 DEF Max

LEMMA LeastExists ==
  ASSUME NEW S \in SUBSET Nat, S # {}
  PROVE  Min(S) \in S /\ \A y \in S : Min(S) <= y
  <1>1. PICK k \in S : \A j \in S : ~ (<<j, k>> \in OpToRel(<, Nat))
    BY WFMin, NatLessThanWellFounded, Zenon
  <1>2. \A j \in S : ~ (j < k)
    BY <1>1 DEF OpToRel
  <1>3. \A j \in S : k <= j
    BY <1>2
  <1> QED BY <1>3 DEF Min

\* Induction over the numbers up to n: what holds of 0, and of k if of k-1,
\* holds of all.
LEMMA CountsUp ==
  ASSUME NEW n \in Nat, NEW S, 0 \in S, \A k \in 1..n : k - 1 \in S => k \in S
  PROVE  \A k \in 0..n : k \in S
  <1> DEFINE T == {k \in 0..n : k \notin S}
  <1> SUFFICES ASSUME T # {} PROVE FALSE
    OBVIOUS
  <1>1. T \subseteq Nat
    OBVIOUS
  <1> HIDE DEF T
  <1>2. PICK k \in T : \A j \in T : ~ (<<j, k>> \in OpToRel(<, Nat))
    BY <1>1, WFMin, NatLessThanWellFounded, Zenon
  <1>3. k \in 0..n /\ k \notin S /\ \A j \in T : ~ (j < k)
    BY <1>1, <1>2 DEF OpToRel, T
  <1>4. k \in 1..n /\ k - 1 \in 0..n /\ k - 1 < k
    <2>1. k # 0
      BY <1>3
    <2> QED BY <1>3, <2>1
  <1>5. k - 1 \in S
    BY <1>3, <1>4 DEF T
  <1> QED BY <1>3, <1>4, <1>5

-----------------------------------------------------------------------------
(* foldRecords, one record more                                             *)

\* foldRecords goes through the records one by one.
LEMMA FoldsUp ==
  ASSUME NEW q, Len(q) \in Nat
  PROVE  \E f : /\ f[0] = <<>>
                /\ \A k \in 1..Len(q) : f[k] = FoldRecord(f[k-1], q[k])
                /\ FoldRecords(q) = f[Len(q)]
  <1> DEFINE Def(g, n) == g = [k \in 0..n |-> IF k = 0 THEN <<>> ELSE FoldRecord(g[k-1], q[k])]
             S == {n \in 0..Len(q) : \E g : Def(g, n)}
             f == CHOOSE g : Def(g, Len(q))
  <1>1. FoldRecords(q) = f[Len(q)]
    BY DEF FoldRecords
  <1>2. 0 \in S
    <2> DEFINE g == [k \in 0..0 |-> <<>>]
    <2>1. Def(g, 0)
      OBVIOUS
    <2> HIDE DEF Def, g
    <2> QED BY <2>1
  <1>3. ASSUME NEW n \in 1..Len(q), n - 1 \in S PROVE n \in S
    <2>1. PICK g : Def(g, n - 1)
      BY <1>3
    <2> DEFINE h == [k \in 0..n |-> IF k = n THEN FoldRecord(g[n-1], q[n]) ELSE g[k]]
    <2>2. Def(h, n)
      <3> SUFFICES ASSUME NEW k \in 0..n
                   PROVE  h[k] = IF k = 0 THEN <<>> ELSE FoldRecord(h[k-1], q[k])
        OBVIOUS
      <3>1. CASE k = n
        <4>1. n # 0 /\ n - 1 \in 0..n /\ n - 1 # n
          OBVIOUS
        <4> QED BY <3>1, <4>1
      <3>2. CASE k # n
        <4>1. k \in 0..n-1 /\ (k # 0 => k - 1 \in 0..n /\ k - 1 # n)
          BY <3>2
        <4> QED BY <2>1, <3>2, <4>1
      <3> QED BY <3>1, <3>2
    <2> HIDE DEF Def, h
    <2> QED BY <2>2
  <1>4. \E g : Def(g, Len(q))
    <2> HIDE DEF S
    <2>1. \A k \in 0..Len(q) : k \in S
      BY <1>2, <1>3, CountsUp
    <2> HIDE DEF Def
    <2>2. Len(q) \in S
      BY <2>1
    <2> QED BY <2>2 DEF S
  <1> HIDE DEF S
  <1>5. Def(f, Len(q))
    BY <1>4
  <1> HIDE DEF f
  <1>6. f[0] = <<>> /\ \A k \in 1..Len(q) : f[k] = FoldRecord(f[k-1], q[k])
    BY <1>5
  <1> QED BY <1>1, <1>6

\* One record more is one step of the fold more.
LEMMA FoldsOn ==
  ASSUME NEW X, NEW q \in Seq(X), NEW r \in X
  PROVE  /\ FoldRecords(<<>>) = <<>>
         /\ FoldRecords(Append(q, r)) = FoldRecord(FoldRecords(q), r)
  <1> DEFINE p == Append(q, r)
             n == Len(q)
  <1>1. /\ n \in Nat /\ p \in Seq(X) /\ Len(p) = n + 1 /\ p[n + 1] = r
        /\ \A k \in 1..n : p[k] = q[k]
    OBVIOUS
  <1> HIDE DEF p
  <1>2. PICK f : /\ f[0] = <<>>
                 /\ \A k \in 1..n : f[k] = FoldRecord(f[k-1], q[k])
                 /\ FoldRecords(q) = f[n]
    BY <1>1, FoldsUp
  <1>3. PICK g : /\ g[0] = <<>>
                 /\ \A k \in 1..n+1 : g[k] = FoldRecord(g[k-1], p[k])
                 /\ FoldRecords(p) = g[n+1]
    <2>1. Len(p) \in Nat
      BY <1>1
    <2> QED BY <1>1, <2>1, FoldsUp
  <1> HIDE DEF n
  <1> DEFINE S == {k \in 0..n : f[k] = g[k]}
  <1>4. 0 \in S
    BY <1>1, <1>2, <1>3
  <1>5. ASSUME NEW k \in 1..n, k - 1 \in S PROVE k \in S
    <2>1. k \in 1..n+1 /\ k \in 0..n
      BY <1>1
    <2> QED BY <1>1, <1>2, <1>3, <1>5, <2>1
  <1>6. f[n] = g[n]
    <2>1. \A k \in 0..n : k \in S
      <3> HIDE DEF S
      <3> QED BY <1>1, <1>4, <1>5, CountsUp
    <2> QED BY <1>1, <2>1
  <1>7. n + 1 \in 1..n+1 /\ (n + 1) - 1 = n
    BY <1>1
  <1>8. FoldRecords(p) = FoldRecord(FoldRecords(q), r)
    BY <1>1, <1>2, <1>3, <1>6, <1>7
  <1>9. FoldRecords(<<>>) = <<>>
    BY FoldsUp
  <1> QED BY <1>8, <1>9 DEF p

-----------------------------------------------------------------------------
(* repairMessages: what is cleaned away                                     *)

\* What step 3 puts in the place of message i.
Stripped(ms, i) ==
    IF i \in Unanswered(ms) THEN UserMsg({}, <<>>)
    ELSE [ms[i] EXCEPT !.results = {r \in @ : r.id \in LiveIds(ms)}]

\* Step 3 goes through the messages one by one.
LEMMA CleansUp ==
  ASSUME NEW q, Len(q) \in Nat
  PROVE  \E f : /\ f[0] = <<>>
                /\ \A k \in 1..Len(q) : f[k] = KeepContent(f[k-1], Stripped(q, k))
                /\ Cleaned(q) = f[Len(q)]
  <1> DEFINE Def(g, n) == g = [k \in 0..n |-> IF k = 0 THEN <<>>
                                              ELSE KeepContent(g[k-1], Stripped(q, k))]
             S == {n \in 0..Len(q) : \E g : Def(g, n)}
             f == CHOOSE g : Def(g, Len(q))
  <1>1. Cleaned(q) = f[Len(q)]
    BY Zenon DEF Cleaned, Stripped
  <1>2. 0 \in S
    <2> DEFINE g == [k \in 0..0 |-> <<>>]
    <2>1. Def(g, 0)
      OBVIOUS
    <2> HIDE DEF Def, g
    <2> QED BY <2>1
  <1>3. ASSUME NEW n \in 1..Len(q), n - 1 \in S PROVE n \in S
    <2>1. PICK g : Def(g, n - 1)
      BY <1>3
    <2> DEFINE h == [k \in 0..n |-> IF k = n THEN KeepContent(g[n-1], Stripped(q, n)) ELSE g[k]]
    <2>2. Def(h, n)
      <3> SUFFICES ASSUME NEW k \in 0..n
                   PROVE  h[k] = IF k = 0 THEN <<>> ELSE KeepContent(h[k-1], Stripped(q, k))
        OBVIOUS
      <3>1. CASE k = n
        <4>1. n # 0 /\ n - 1 \in 0..n /\ n - 1 # n
          OBVIOUS
        <4> QED BY <3>1, <4>1
      <3>2. CASE k # n
        <4>1. k \in 0..n-1 /\ (k # 0 => k - 1 \in 0..n /\ k - 1 # n)
          BY <3>2
        <4> QED BY <2>1, <3>2, <4>1
      <3> QED BY <3>1, <3>2
    <2> HIDE DEF Def, h
    <2> QED BY <2>2
  <1>4. \E g : Def(g, Len(q))
    <2> HIDE DEF S
    <2>1. \A k \in 0..Len(q) : k \in S
      BY <1>2, <1>3, CountsUp
    <2> HIDE DEF Def
    <2>2. Len(q) \in S
      BY <2>1
    <2> QED BY <2>2 DEF S
  <1> HIDE DEF S
  <1>5. Def(f, Len(q))
    BY <1>4
  <1> HIDE DEF f
  <1>6. f[0] = <<>> /\ \A k \in 1..Len(q) : f[k] = KeepContent(f[k-1], Stripped(q, k))
    BY <1>5
  <1> QED BY <1>1, <1>6

\* Message i is a user turn that the restore keeps: it has text, or answers every
\* call of the message before it.
Welcomes(ms, i) ==
    /\ ms[i].role = "user"
    /\ \/ ms[i].texts # <<>>
       \/ i > 1 /\ ms[i-1].uses # {} /\ ms[i-1].uses \subseteq IdsOf(ms[i].results)

\* The messages a log folds into: calls may be left open, and user messages may
\* meet, but no answer follows what the restore drops.
Folded(ms) ==
    /\ ms \in Seq(Message) /\ ResultsAnswer(ms) /\ DistinctCalls(ms)
    /\ \A i \in 1..Len(ms) : Known(ms[i].texts)
    /\ \A i \in 1..Len(ms) : ms[i].role = "assistant" => i > 1 /\ Welcomes(ms, i - 1)

\* What is left when no call is open.
Whole(ms) ==
    /\ ms \in Seq(Message) /\ CallsAnswered(ms, Len(ms)) /\ ResultsAnswer(ms)
    /\ DistinctCalls(ms)
    /\ \A i \in 1..Len(ms) : Known(ms[i].texts)
    /\ \A i \in 1..Len(ms) :
          ms[i].role = "assistant" => i > 1 /\ ms[i-1].role = "user" /\ Says(ms[i-1])

\* The message makes no call and has no result that a message of ms has not.
Stems(m, ms) ==
    \E j \in 1..Len(ms) : m.uses \subseteq ms[j].uses /\ m.results \subseteq ms[j].results

\* What a stripped message is.
LEMMA StrippedShapes ==
  ASSUME NEW ms \in Seq(Message), NEW i \in 1..Len(ms)
  PROVE  /\ Stripped(ms, i) \in Message
         /\ i \in Unanswered(ms) => Stripped(ms, i) = UserMsg({}, <<>>)
         /\ i \notin Unanswered(ms) =>
               /\ Stripped(ms, i).role = ms[i].role /\ Stripped(ms, i).uses = ms[i].uses
               /\ Stripped(ms, i).texts = ms[i].texts
               /\ Stripped(ms, i).results = {r \in ms[i].results : r.id \in LiveIds(ms)}
  <1> DEFINE m == ms[i]
             s == [m EXCEPT !.results = {r \in @ : r.id \in LiveIds(ms)}]
  <1>1. m \in Message
    OBVIOUS
  <1>2. CASE i \in Unanswered(ms)
    <2>1. UserMsg({}, <<>>) \in Message
      BY MessageTypes, TextTypes DEF Message
    <2> QED BY <1>2, <2>1 DEF Stripped
  <1>3. CASE i \notin Unanswered(ms)
    <2>1. Stripped(ms, i) = s
      BY <1>3 DEF Stripped
    <2> HIDE DEF m
    <2>2. CASE m \in UserMessage
      <3>1. /\ s \in UserMessage /\ s.role = m.role /\ s.uses = m.uses /\ s.texts = m.texts
            /\ s.results = {r \in m.results : r.id \in LiveIds(ms)}
        BY <2>2 DEF UserMessage
      <3> QED BY <1>3, <2>1, <3>1 DEF Message, m
    <2>3. CASE m \in AssistantMessage
      <3>1. /\ s \in AssistantMessage /\ s.role = m.role /\ s.uses = m.uses /\ s.texts = m.texts
            /\ s.results = {r \in m.results : r.id \in LiveIds(ms)}
        BY <2>3 DEF AssistantMessage
      <3> QED BY <1>3, <2>1, <3>1 DEF Message, m
    <2> QED BY <1>1, <2>2, <2>3 DEF Message
  <1> QED BY <1>2, <1>3

\* Step 3 leaves no call open, and no result without its call.
LEMMA StrippedWhole ==
  ASSUME NEW ms, Folded(ms), NEW g, g = [i \in 1..Len(ms) |-> Stripped(ms, i)]
  PROVE  Whole(g) /\ Len(g) = Len(ms) /\ \A i \in 1..Len(g) : Stems(g[i], ms)
  <1> DEFINE open == Unanswered(ms)
             live == LiveIds(ms)
  <1>1. /\ ms \in Seq(Message) /\ Len(ms) \in Nat /\ DOMAIN ms = 1..Len(ms)
        /\ \A i \in 1..Len(ms) : ms[i] \in Message
    BY DEF Folded
  <1>2. /\ \A i \in 1..Len(ms) : g[i] \in Message
        /\ \A i \in open : g[i].role = "user" /\ g[i].uses = {} /\ g[i].results = {}
                           /\ g[i].texts = <<>>
        /\ \A i \in 1..Len(ms) : i \notin open =>
               /\ g[i].role = ms[i].role /\ g[i].uses = ms[i].uses
               /\ g[i].texts = ms[i].texts
               /\ g[i].results = {r \in ms[i].results : r.id \in live}
    <2>1. open \subseteq 1..Len(ms)
      BY <1>1 DEF Unanswered
    <2> QED BY <1>1, <2>1, StrippedShapes DEF UserMsg
  <1>3. g \in Seq(Message) /\ Len(g) = Len(ms)
    <2> HIDE DEF Message
    <2> QED BY <1>1, <1>2
  <1>4. \A i \in 1..Len(ms) :
           /\ i \in open => ms[i].uses # {}
           /\ i \notin open /\ ms[i].uses # {} =>
                 i < Len(ms) /\ ms[i].uses \subseteq IdsOf(ms[i+1].results)
    BY <1>1 DEF Unanswered
  <1>5. \A i \in 1..Len(ms) : i \notin open => \A id \in ms[i].uses : id \in live
    BY <1>1 DEF LiveIds
  <1>6. \A id \in live : \E j \in 1..Len(ms) : j \notin open /\ id \in ms[j].uses
    BY <1>1 DEF LiveIds
  <1> HIDE DEF open, live
  <1>7. \A i \in 1..Len(ms) : /\ ms[i].role = "user" => ms[i].uses = {}
                              /\ ms[i].role = "assistant" => ms[i].results = {}
                              /\ ms[i].role = "user" \/ ms[i].role = "assistant"
    BY <1>1, MessageShapes
  <1>8. ASSUME NEW i \in 1..Len(ms), g[i].uses # {}
        PROVE  /\ i < Len(ms) /\ i + 1 \in 1..Len(ms) /\ g[i+1].role = "user"
               /\ g[i].uses \subseteq IdsOf(g[i+1].results) /\ g[i+1].results # {}
    <2>1. i \notin open /\ g[i].uses = ms[i].uses /\ ms[i].uses # {}
      BY <1>2, <1>8
    <2>2. i < Len(ms) /\ ms[i].uses \subseteq IdsOf(ms[i+1].results)
      BY <1>4, <2>1
    <2>3. i + 1 \in 1..Len(ms)
      BY <1>1, <2>2
    <2>4. ms[i+1].results # {}
      BY <2>1, <2>2 DEF IdsOf
    <2>5. ms[i+1].role = "user" /\ ms[i+1].uses = {} /\ i + 1 \notin open
      BY <1>4, <1>7, <2>3, <2>4
    <2>6. g[i+1].role = "user" /\ g[i+1].results = {r \in ms[i+1].results : r.id \in live}
      BY <1>2, <2>3, <2>5
    <2>7. ASSUME NEW id \in ms[i].uses PROVE id \in IdsOf(g[i+1].results)
      <3>1. id \in live
        BY <1>5, <2>1
      <3>2. PICK r \in ms[i+1].results : id = r.id
        BY <2>2 DEF IdsOf
      <3> QED BY <2>6, <3>1, <3>2 DEF IdsOf
    <2>8. g[i+1].results # {}
      BY <2>1, <2>7 DEF IdsOf
    <2> QED BY <2>1, <2>2, <2>3, <2>6, <2>7, <2>8
  <1>9. CallsAnswered(g, Len(g))
    BY <1>3, <1>8 DEF CallsAnswered
  <1>10. ResultsAnswer(g)
    <2> SUFFICES ASSUME NEW i \in 1..Len(ms)
                 PROVE  /\ g[i].results # {} =>
                              i > 1 /\ IdsOf(g[i].results) \subseteq g[i-1].uses
                        /\ \A r, s \in g[i].results : r.id = s.id => r = s
      BY <1>3 DEF ResultsAnswer
    <2>1. g[i].results \subseteq ms[i].results /\ \A r \in g[i].results : r.id \in live
      BY <1>2
    <2>2. /\ ms[i].results # {} => i > 1 /\ IdsOf(ms[i].results) \subseteq ms[i-1].uses
          /\ \A r, s \in ms[i].results : r.id = s.id => r = s
      BY DEF Folded, ResultsAnswer
    <2>3. ASSUME NEW r \in g[i].results PROVE i > 1 /\ r.id \in g[i-1].uses
      <3>1. r \in ms[i].results /\ r.id \in live
        BY <2>1
      <3>2. i > 1 /\ r.id \in ms[i-1].uses
        BY <2>2, <3>1 DEF IdsOf
      <3>3. i - 1 \in 1..Len(ms)
        BY <1>1, <3>2
      <3>4. PICK j \in 1..Len(ms) : j \notin open /\ r.id \in ms[j].uses
        BY <1>6, <3>1
      <3>5. j = i - 1
        BY <3>2, <3>3, <3>4 DEF Folded, DistinctCalls
      <3> QED BY <1>2, <3>2, <3>3, <3>4, <3>5
    <2> QED BY <2>1, <2>2, <2>3 DEF IdsOf
  <1>11. DistinctCalls(g)
    <2>1. \A i \in 1..Len(ms) : g[i].uses \subseteq ms[i].uses
      BY <1>2
    <2> QED BY <1>3, <2>1 DEF Folded, DistinctCalls
  <1>12. \A i \in 1..Len(g) : Known(g[i].texts)
    <2>1. \A i \in 1..Len(ms) : Known(ms[i].texts)
      BY DEF Folded
    <2>2. Known(<<>>)
      BY DEF Known
    <2> QED BY <1>2, <1>3, <2>1, <2>2
  <1>13. ASSUME NEW i \in 1..Len(ms), g[i].role = "assistant"
         PROVE  i > 1 /\ g[i-1].role = "user" /\ Says(g[i-1])
    <2>1. i \notin open /\ ms[i].role = "assistant"
      BY <1>2, <1>13
    <2>2. i > 1 /\ Welcomes(ms, i - 1)
      BY <2>1 DEF Folded
    <2>3. i - 1 \in 1..Len(ms) /\ ms[i-1].role = "user"
      BY <1>1, <2>2 DEF Welcomes
    <2>4. i - 1 \notin open
      BY <1>4, <1>7, <2>3
    <2>5. g[i-1].role = "user" /\ g[i-1].texts = ms[i-1].texts
      BY <1>2, <2>3, <2>4
    <2>6. CASE ms[i-1].texts # <<>>
      BY <2>2, <2>5, <2>6 DEF Says
    <2>7. CASE /\ i - 1 > 1 /\ ms[(i-1)-1].uses # {}
               /\ ms[(i-1)-1].uses \subseteq IdsOf(ms[i-1].results)
      <3> DEFINE k == (i - 1) - 1
      <3>1. k \in 1..Len(ms) /\ k + 1 = i - 1 /\ k < Len(ms)
        BY <1>1, <2>3, <2>7
      <3>2. ms[k].uses # {} /\ ms[k].uses \subseteq IdsOf(ms[k+1].results)
        BY <2>7, <3>1
      <3> HIDE DEF k
      <3>3. k \notin open
        BY <1>1, <3>1, <3>2 DEF Unanswered, open
      <3>4. g[k].uses # {}
        BY <1>2, <3>1, <3>2, <3>3
      <3>5. g[k+1].results # {}
        BY <1>8, <3>1, <3>4
      <3> QED BY <2>2, <2>5, <3>1, <3>5 DEF Says
    <2> QED BY <2>2, <2>6, <2>7 DEF Welcomes
  <1>14. \A i \in 1..Len(ms) : g[i].uses \subseteq ms[i].uses /\ g[i].results \subseteq ms[i].results
    BY <1>2
  <1>15. \A i \in 1..Len(g) : Stems(g[i], ms)
    BY <1>3, <1>14 DEF Stems
  <1> QED BY <1>3, <1>9, <1>10, <1>11, <1>12, <1>13, <1>15 DEF Whole

\* The first k messages of g, as step 3 keeps them.
Kept(c, g, k) ==
    /\ c \in Seq(Message) /\ Resumable(c) /\ DistinctCalls(c) /\ Fit(c)
    /\ \A i \in 1..Len(c) : \E j \in 1..k : c[i] = g[j]
    /\ k > 0 /\ (g[k].role = "assistant" \/ g[k].results # {} \/ g[k].texts # <<>>)
          => c # <<>> /\ c[Len(c)] = g[k]
    /\ c # <<>> /\ c[Len(c)].uses # {} => k > 0 /\ c[Len(c)] = g[k]

\* One message more.
LEMMA KeepsOne ==
  ASSUME NEW g, Whole(g), NEW k \in 1..Len(g), NEW c, Kept(c, g, k - 1)
  PROVE  Kept(KeepContent(c, g[k]), g, k)
  <1> DEFINE m == g[k]
             new == Append(c, m)
  <1>1. /\ g \in Seq(Message) /\ m \in Message /\ c \in Seq(Message) /\ Resumable(c)
        /\ Len(c) \in Nat /\ Len(g) \in Nat /\ k - 1 \in 0..Len(g)
    BY DEF Whole, Kept
  <1>2. m.role \in {"user", "assistant"} /\ (m.role = "user" => m.uses = {})
        /\ (m.role = "assistant" => m.results = {})
    BY <1>1, MessageShapes
  \* A message before m with calls, or before a result of m, is the last kept.
  <1>3. ASSUME k > 1, g[k-1].uses # {} PROVE c # <<>> /\ c[Len(c)] = g[k-1]
    <2>1. k - 1 \in 1..Len(g) /\ k - 1 > 0
      BY <1>1, <1>3
    <2>2. g[k-1].role = "assistant"
      BY <1>1, <1>3, <2>1, MessageShapes
    <2> QED BY <2>1, <2>2 DEF Kept
  <1>4. /\ m.results # {} => k > 1 /\ IdsOf(m.results) \subseteq g[k-1].uses
        /\ \A r, s \in m.results : r.id = s.id => r = s
    BY DEF Whole, ResultsAnswer
  <1>5. ASSUME c # <<>>, c[Len(c)].uses # {}
        PROVE  c[Len(c)] = g[k-1] /\ k > 1 /\ c[Len(c)].uses = IdsOf(m.results)
    <2>1. k - 1 > 0 /\ c[Len(c)] = g[k-1] /\ k - 1 \in 1..Len(g) /\ (k - 1) + 1 = k
      BY <1>1, <1>5 DEF Kept
    <2>2. g[k-1].uses \subseteq IdsOf(m.results)
      <3>1. g[k-1].uses # {}
        BY <1>5, <2>1
      <3>2. g[k-1].uses \subseteq IdsOf(g[(k-1)+1].results)
        BY <2>1, <3>1 DEF Whole, CallsAnswered
      <3> QED BY <2>1, <3>2
    <2>3. m.results # {}
      BY <1>5, <2>1, <2>2 DEF IdsOf
    <2> QED BY <1>4, <2>1, <2>2, <2>3
  <1>6. CASE ~ (m.role = "assistant" \/ m.results # {} \/ m.texts # <<>>)
    <2>1. KeepContent(c, m) = c
      BY <1>6 DEF KeepContent
    <2>2. ~ (c # <<>> /\ c[Len(c)].uses # {})
      BY <1>5, <1>6 DEF IdsOf
    <2>3. \A i \in 1..Len(c) : \E j \in 1..k : c[i] = g[j]
      <3>1. 1..k-1 \subseteq 1..k
        BY <1>1
      <3> QED BY <3>1 DEF Kept
    <2> QED BY <1>6, <2>1, <2>2, <2>3 DEF Kept
  <1>7. CASE m.role = "assistant" \/ m.results # {} \/ m.texts # <<>>
    <2>1. KeepContent(c, m) = new
      BY <1>7 DEF KeepContent
    <2>2. /\ new \in Seq(Message) /\ Len(new) = Len(c) + 1 /\ new[Len(c) + 1] = m
          /\ \A i \in 1..Len(c) : new[i] = c[i]
          /\ new # <<>> /\ new[Len(new)] = m
      <3> HIDE DEF Message
      <3> QED BY <1>1
    <2> HIDE DEF m
    <2>3. Resumable(new)
      <3>1. CASE m.role = "assistant"
        <4>1. m \in AssistantMessage
          BY <1>1, <3>1, MessageShapes
        <4>2. k > 1 /\ g[k-1].role = "user" /\ Says(g[k-1])
          BY <3>1 DEF Whole, m
        <4>3. c # <<>> /\ c[Len(c)] = g[k-1]
          <5>1. k - 1 > 0
            BY <4>2
          <5> QED BY <4>2, <5>1 DEF Kept, Says
        <4>4. EndsInUser(c)
          BY <4>2, <4>3 DEF EndsInUser
        <4> QED BY <1>1, <4>1, <4>4, AnswerResumable
      <3>2. CASE m.role = "user"
        <4>1. m \in UserMessage
          BY <1>1, <3>2, MessageShapes
        <4>2. AnswersLast(c, m.results)
          <5>1. CASE c # <<>> /\ c[Len(c)].role = "assistant"
            <6>1. CASE c[Len(c)].uses # {}
              BY <1>4, <1>5, <5>1, <6>1 DEF AnswersLast, m
            <6>2. CASE c[Len(c)].uses = {}
              <7>1. m.results = {}
                <8> SUFFICES ASSUME m.results # {} PROVE FALSE
                  OBVIOUS
                <8>1. k > 1 /\ g[k-1].uses # {}
                  BY <1>4 DEF IdsOf, m
                <8> QED BY <1>3, <6>2, <8>1
              <7> QED BY <5>1, <6>2, <7>1 DEF AnswersLast, IdsOf
            <6> QED BY <6>1, <6>2
          <5>2. CASE ~ (c # <<>> /\ c[Len(c)].role = "assistant")
            <6>1. m.results = {}
              <7> SUFFICES ASSUME m.results # {} PROVE FALSE
                OBVIOUS
              <7>1. k > 1 /\ g[k-1].uses # {}
                BY <1>4 DEF IdsOf, m
              <7>2. k - 1 \in 1..Len(g)
                BY <1>1, <7>1
              <7>3. g[k-1].role = "assistant"
                BY <1>1, <7>1, <7>2, MessageShapes
              <7> QED BY <1>3, <5>2, <7>1, <7>3
            <6> QED BY <5>2, <6>1 DEF AnswersLast
          <5> QED BY <5>1, <5>2
        <4> QED BY <1>1, <4>1, <4>2, UserTurnResumable
      <3> QED BY <1>2, <3>1, <3>2 DEF m
    <2>4. \A i \in 1..Len(new) : i \in 1..Len(c) \/ i = Len(c) + 1
      BY <1>1, <2>2
    <2>5. ASSUME NEW i \in 1..Len(c) PROVE \E j \in 1..k-1 : new[i] = g[j]
      BY <2>2 DEF Kept
    <2>6. \A i \in 1..Len(new) : \E j \in 1..k : new[i] = g[j]
      <3>1. k \in 1..k /\ \A j \in 1..k-1 : j \in 1..k
        BY <1>1
      <3> QED BY <2>2, <2>4, <2>5, <3>1 DEF m
    <2>7. DistinctCalls(new)
      <3>1. ASSUME NEW i \in 1..Len(c) PROVE c[i].uses \cap m.uses = {}
        <4>1. PICK j \in 1..k-1 : c[i] = g[j]
          BY DEF Kept
        <4>2. j \in 1..Len(g) /\ j # k
          BY <1>1
        <4> QED BY <4>1, <4>2 DEF Whole, DistinctCalls, m
      <3>2. \A i, j \in 1..Len(c) : i # j => c[i].uses \cap c[j].uses = {}
        BY DEF Kept, DistinctCalls
      <3> QED BY <2>2, <2>4, <3>1, <3>2 DEF DistinctCalls
    <2>8. Fit(new)
      <3>1. Says(m) /\ Known(m.texts)
        BY <1>7 DEF Says, Whole, m
      <3> QED BY <2>2, <2>4, <3>1 DEF Kept, Fit
    <2> QED BY <2>1, <2>2, <2>3, <2>6, <2>7, <2>8 DEF Kept, m
  <1> QED BY <1>6, <1>7

\* What step 3 makes of folded messages.
CleanOf(c, ms) ==
    /\ c \in Seq(Message) /\ Resumable(c) /\ CallsAnswered(c, Len(c)) /\ DistinctCalls(c)
    /\ Fit(c)
    /\ \A i \in 1..Len(c) : Stems(c[i], ms)

\* Step 3 makes it of them.
LEMMA CleanedWhole ==
  ASSUME NEW ms, Folded(ms)
  PROVE  CleanOf(Cleaned(ms), ms)
  <1> DEFINE n == Len(ms)
             g == [i \in 1..n |-> Stripped(ms, i)]
  <1>1. n \in Nat
    BY DEF Folded
  <1>2. PICK f : /\ f[0] = <<>>
                 /\ \A k \in 1..n : f[k] = KeepContent(f[k-1], Stripped(ms, k))
                 /\ Cleaned(ms) = f[n]
    BY <1>1, CleansUp
  <1>3. \A k \in 1..n : g[k] = Stripped(ms, k)
    OBVIOUS
  <1>4. Whole(g) /\ Len(g) = n /\ \A i \in 1..Len(g) : Stems(g[i], ms)
    BY StrippedWhole
  <1> HIDE DEF n, g
  <1> DEFINE S == {k \in 0..n : Kept(f[k], g, k)}
  <1>5. 0 \in S
    <2>1. Kept(<<>>, g, 0)
      BY DEF Kept, Resumable, CallsAnswered, ResultsAnswer, AnswersFollowUsers, DistinctCalls, Fit
    <2> QED BY <1>1, <1>2, <2>1
  <1>6. ASSUME NEW k \in 1..n, k - 1 \in S PROVE k \in S
    <2>1. f[k] = KeepContent(f[k-1], g[k]) /\ k \in 1..Len(g) /\ k \in 0..n
      BY <1>1, <1>2, <1>3, <1>4
    <2>2. Kept(f[k-1], g, k - 1)
      BY <1>6
    <2> QED BY <1>4, <2>1, <2>2, KeepsOne
  <1>7. Kept(f[n], g, n)
    <2>1. \A k \in 0..n : k \in S
      <3> HIDE DEF S
      <3> QED BY <1>1, <1>5, <1>6, CountsUp
    <2> QED BY <1>1, <2>1
  <1> DEFINE c == f[n]
  <1>8. c \in Seq(Message) /\ Resumable(c) /\ DistinctCalls(c) /\ Fit(c) /\ Len(c) \in Nat
    BY <1>7 DEF Kept
  <1>9. \A i \in 1..Len(c) : Stems(c[i], ms)
    <2> TAKE i \in 1..Len(c)
    <2>1. PICK j \in 1..n : c[i] = g[j]
      BY <1>7 DEF Kept
    <2> QED BY <1>4, <2>1
  <1>10. c # <<>> => c[Len(c)].uses = {}
    <2> SUFFICES ASSUME c # <<>>, c[Len(c)].uses # {} PROVE FALSE
      OBVIOUS
    <2>1. n > 0 /\ c[Len(c)] = g[n]
      BY <1>7 DEF Kept
    <2>2. n \in 1..Len(g) /\ ~ (n < Len(g))
      BY <1>1, <1>4, <2>1
    <2>3. g[n].uses # {}
      BY <2>1
    <2> HIDE DEF c
    <2> QED BY <1>4, <2>2, <2>3 DEF Whole, CallsAnswered
  <1> HIDE DEF c
  <1>11. CallsAnswered(c, Len(c))
    <2> SUFFICES ASSUME NEW i \in 1..Len(c), c[i].uses # {}
                 PROVE  /\ i < Len(c) /\ c[i+1].role = "user"
                        /\ c[i].uses \subseteq IdsOf(c[i+1].results)
      BY DEF CallsAnswered
    <2>1. i # Len(c)
      <3>1. c # <<>>
        BY <1>8
      <3> QED BY <1>10, <3>1
    <2>2. i \in 1..Len(c) - 1
      BY <1>8, <2>1
    <2> QED BY <1>8, <2>2 DEF Resumable, CallsAnswered
  <1> QED BY <1>2, <1>8, <1>9, <1>11 DEF CleanOf, c

-----------------------------------------------------------------------------
(* repairMessages: adjacent user messages                                   *)

\* Step 4 goes through the messages one by one, from the last.
LEMMA CollapsesDown ==
  ASSUME NEW q, Len(q) \in Nat
  PROVE  \E f : /\ f[Len(q) + 1] = <<>>
                /\ \A k \in 1..Len(q) : f[k] = AbsorbUser(q[k], f[k+1])
                /\ CollapseUsers(q) = f[1]
  <1> DEFINE m == Len(q) + 1
             Def(g, n) == g = [k \in n..m |-> IF k > Len(q) THEN <<>> ELSE AbsorbUser(q[k], g[k+1])]
             S == {n \in 0..Len(q) : \E g : Def(g, m - n)}
             f == CHOOSE g : Def(g, 1)
  <1>1. CollapseUsers(q) = f[1]
    BY DEF CollapseUsers
  <1>2. 0 \in S
    <2> DEFINE g == [k \in m..m |-> <<>>]
    <2>1. Def(g, m - 0)
      OBVIOUS
    <2> HIDE DEF Def, g, m
    <2> QED BY <2>1
  <1>3. ASSUME NEW n \in 1..Len(q), n - 1 \in S PROVE n \in S
    <2> DEFINE i == m - n
    <2>0. i \in 1..Len(q) /\ m - (n - 1) = i + 1
      OBVIOUS
    <2>1. PICK g : Def(g, i + 1)
      BY <1>3, <2>0
    <2> HIDE DEF i
    <2> DEFINE h == [k \in i..m |-> IF k = i THEN AbsorbUser(q[i], g[i+1]) ELSE g[k]]
    <2>2. Def(h, i)
      <3> SUFFICES ASSUME NEW k \in i..m
                   PROVE  h[k] = IF k > Len(q) THEN <<>> ELSE AbsorbUser(q[k], h[k+1])
        OBVIOUS
      <3>1. CASE k = i
        <4>1. ~ (i > Len(q)) /\ i + 1 \in i..m /\ i + 1 # i
          BY <2>0
        <4> QED BY <3>1, <4>1
      <3>2. CASE k # i
        <4>1. k \in i+1..m /\ (~ (k > Len(q)) => k + 1 \in i..m /\ k + 1 # i)
          BY <2>0, <3>2
        <4> QED BY <2>1, <3>2, <4>1
      <3> QED BY <3>1, <3>2
    <2> HIDE DEF Def, h
    <2> QED BY <2>2 DEF i
  <1>4. \E g : Def(g, 1)
    <2> HIDE DEF S
    <2>1. \A k \in 0..Len(q) : k \in S
      BY <1>2, <1>3, CountsUp
    <2>3. m - Len(q) = 1
      OBVIOUS
    <2> HIDE DEF Def, m
    <2>2. Len(q) \in S
      BY <2>1
    <2> QED BY <2>2, <2>3 DEF S
  <1> HIDE DEF S
  <1>5. Def(f, 1)
    BY <1>4
  <1> HIDE DEF f
  <1>6. f[m] = <<>> /\ \A k \in 1..Len(q) : f[k] = AbsorbUser(q[k], f[k+1])
    <2>1. m \in 1..m /\ m > Len(q)
      OBVIOUS
    <2>2. ASSUME NEW k \in 1..Len(q) PROVE k \in 1..m /\ ~ (k > Len(q))
      OBVIOUS
    <2> QED BY <1>5, <2>1, <2>2
  <1> QED BY <1>1, <1>6

\* The message has no result twice, and no call or result that the messages of c
\* from the k-th on have not.
From(m, c, k) ==
    /\ \A p, q \in m.results : p.id = q.id => p = q
    /\ \E j \in k..Len(c) : m.uses \subseteq c[j].uses /\ m.results \subseteq c[j].results

\* What step 4 makes of the messages of c from the k-th on.
Collapsed(s, c, k) ==
    /\ s \in Seq(Message) /\ (s = <<>> <=> k > Len(c))
    /\ k <= Len(c) =>
          s[1].role = c[k].role /\ s[1].uses = c[k].uses /\ s[1].results = c[k].results
    /\ CallsAnswered(s, Len(s)) /\ Fit(s)
    /\ \A i \in 2..Len(s) : /\ s[i].role # s[i-1].role
                            /\ s[i].results # {} => IdsOf(s[i].results) \subseteq s[i-1].uses
    /\ \A i \in 1..Len(s) : From(s[i], c, k)
    /\ DistinctCalls(s)

\* A message in front of the others.
LEMMA FrontFacts ==
  ASSUME NEW t \in Seq(Message), NEW m \in Message
  PROVE  /\ <<m>> \o t \in Seq(Message) /\ Len(<<m>> \o t) = Len(t) + 1
         /\ (<<m>> \o t)[1] = m /\ <<m>> \o t # <<>> /\ Len(t) \in Nat
         /\ \A i \in 1..Len(t) : (<<m>> \o t)[i + 1] = t[i]
         /\ \A i \in 2..Len(t) + 1 : (<<m>> \o t)[i] = t[i - 1]
  <1> HIDE DEF Message
  <1>1. \A i \in 2..Len(t) + 1 : i - 1 \in 1..Len(t) /\ (i - 1) + 1 = i
    OBVIOUS
  <1> DEFINE s == <<m>> \o t
  <1>2. /\ s \in Seq(Message) /\ Len(s) = Len(t) + 1 /\ s[1] = m /\ Len(t) \in Nat
        /\ \A i \in 1..Len(t) : s[i + 1] = t[i]
    OBVIOUS
  <1>4. s # <<>>
    OBVIOUS
  <1> HIDE DEF s
  <1>3. \A i \in 2..Len(t) + 1 : s[i] = t[i - 1]
    BY <1>1, <1>2
  <1> QED BY <1>2, <1>3, <1>4 DEF s

\* An answer, or a user message before an answer, goes in front as it is.
LEMMA CollapsesApart ==
  ASSUME NEW ms, NEW c, CleanOf(c, ms), NEW k \in 1..Len(c), NEW t, Collapsed(t, c, k + 1),
         ~ Opens(c[k], t)
  PROVE  Collapsed(<<c[k]>> \o t, c, k)
  <1> DEFINE m == c[k]
             s == <<m>> \o t
  <1>1. /\ c \in Seq(Message) /\ m \in Message /\ t \in Seq(Message)
        /\ Len(c) \in Nat /\ Len(t) \in Nat /\ k + 1 \in 2..Len(c) + 1
    BY DEF CleanOf, Collapsed
  <1>2. /\ s \in Seq(Message) /\ Len(s) = Len(t) + 1 /\ s[1] = m /\ s # <<>>
        /\ \A i \in 1..Len(t) : s[i + 1] = t[i]
        /\ \A i \in 2..Len(s) : s[i] = t[i - 1]
    BY <1>1, FrontFacts
  <1>3. \A i \in 1..Len(s) : i = 1 \/ (i \in 2..Len(s) /\ i - 1 \in 1..Len(t) /\ (i-1) + 1 = i)
    BY <1>1, <1>2
  <1>4. /\ m.role \in {"user", "assistant"}
        /\ m.role = "user" => m.uses = {}
    BY <1>1, MessageShapes
  <1>5. /\ ~ (m.role = "user" /\ t # <<>> /\ t[1].role = "user")
        /\ t # <<>> => 1 \in 1..Len(t)
    <2> HIDE DEF Message
    <2>1. t # <<>> => Head(t) = t[1]
      BY <1>1
    <2> QED BY <1>1, <2>1 DEF Opens
  <1>6. t # <<>> => /\ k + 1 \in 1..Len(c)
                    /\ t[1].role = c[k+1].role /\ t[1].uses = c[k+1].uses
                    /\ t[1].results = c[k+1].results
    BY <1>1 DEF Collapsed
  <1>7. t = <<>> => k = Len(c) /\ Len(t) = 0
    BY <1>1 DEF Collapsed
  <1> HIDE DEF s, m
  <1>8. CallsAnswered(s, Len(s))
    <2> SUFFICES ASSUME NEW i \in 1..Len(s), s[i].uses # {}
                 PROVE  /\ i < Len(s) /\ s[i+1].role = "user"
                        /\ s[i].uses \subseteq IdsOf(s[i+1].results)
      BY DEF CallsAnswered
    <2>1. CASE i = 1
      <3>1. k < Len(c) /\ c[k+1].role = "user" /\ m.uses \subseteq IdsOf(c[k+1].results)
        BY <1>2, <2>1 DEF CleanOf, CallsAnswered, m
      <3>2. t # <<>>
        BY <1>7, <3>1
      <3>3. 1 \in 1..Len(t) /\ s[1 + 1] = t[1] /\ 1 < Len(s)
        BY <1>1, <1>2, <1>5, <3>2
      <3> QED BY <1>2, <1>6, <2>1, <3>1, <3>2, <3>3
    <2>2. CASE i \in 2..Len(s)
      <3> DEFINE j == i - 1
      <3>1. j \in 1..Len(t) /\ s[i] = t[j] /\ j + 1 = i
        BY <1>1, <1>2, <2>2
      <3>2. j < Len(t) /\ t[j+1].role = "user" /\ t[j].uses \subseteq IdsOf(t[j+1].results)
        <4> HIDE DEF j
        <4> QED BY <3>1 DEF Collapsed, CallsAnswered
      <3>3. i \in 1..Len(t) /\ s[i+1] = t[j+1] /\ i < Len(s)
        BY <1>1, <1>2, <3>1, <3>2
      <3> QED BY <3>1, <3>2, <3>3
    <2> QED BY <1>3, <2>1, <2>2
  <1>9. Fit(s)
    <2>1. \A i \in 1..Len(t) : Says(t[i]) /\ Known(t[i].texts)
      BY DEF Collapsed, Fit
    <2>2. Says(m) /\ Known(m.texts)
      BY DEF CleanOf, Fit, m
    <2> QED BY <1>2, <1>3, <2>1, <2>2 DEF Fit
  <1>10. ASSUME NEW i \in 2..Len(s)
         PROVE  /\ s[i].role # s[i-1].role
                /\ s[i].results # {} => IdsOf(s[i].results) \subseteq s[i-1].uses
    <2>1. CASE i = 2
      <3>1. i - 1 = 1 /\ Len(t) >= 1
        BY <1>1, <1>2, <2>1
      <3>2. t # <<>> /\ s[i] = t[1] /\ s[i-1] = m
        BY <1>2, <3>1
      <3>3. c[k+1].role = "assistant" => m.role = "user"
        <4>1. (k + 1) - 1 = k
          BY <1>1
        <4> QED BY <1>6, <3>2, <4>1 DEF CleanOf, Resumable, AnswersFollowUsers, m
      <3>4. t[1].role \in {"user", "assistant"}
        BY <1>1, <1>5, <3>2, MessageShapes
      <3>5. s[i].role # s[i-1].role
        BY <1>4, <1>5, <1>6, <3>2, <3>3, <3>4
      <3>6. c[k+1].results # {} => IdsOf(c[k+1].results) \subseteq m.uses
        <4>1. (k + 1) - 1 = k
          BY <1>1
        <4>2. ResultsAnswer(c)
          BY DEF CleanOf, Resumable
        <4> QED BY <1>6, <3>2, <4>1, <4>2 DEF ResultsAnswer, m
      <3> QED BY <1>6, <3>2, <3>5, <3>6
    <2>2. CASE i \in 3..Len(s)
      <3> DEFINE j == i - 1
      <3>1. j \in 2..Len(t) /\ j \in 2..Len(s) /\ s[i] = t[j]
        BY <1>1, <1>2, <2>2
      <3>2. s[j] = t[j-1]
        BY <1>2, <3>1
      <3> HIDE DEF j
      <3>3. /\ t[j].role # t[j-1].role
            /\ t[j].results # {} => IdsOf(t[j].results) \subseteq t[j-1].uses
        BY <3>1 DEF Collapsed
      <3> QED BY <3>1, <3>2, <3>3 DEF j
    <2>3. i = 2 \/ i \in 3..Len(s)
      BY <1>1, <1>2
    <2> QED BY <2>1, <2>2, <2>3
  <1>11. \A i \in 1..Len(t) : From(t[i], c, k + 1)
    BY DEF Collapsed
  <1>12. k \in k..Len(c) /\ \A j \in k+1..Len(c) : j \in k..Len(c) /\ j # k /\ j \in 1..Len(c)
    BY <1>1
  <1>13. \A i \in 1..Len(s) : From(s[i], c, k)
    <2>1. From(m, c, k)
      BY <1>12 DEF From, CleanOf, Resumable, ResultsAnswer, m
    <2>2. \A i \in 1..Len(t) : From(t[i], c, k)
      BY <1>11, <1>12 DEF From
    <2> QED BY <1>2, <1>3, <2>1, <2>2
  <1>14. DistinctCalls(s)
    <2>1. ASSUME NEW i \in 1..Len(t) PROVE t[i].uses \cap m.uses = {}
      <3>1. PICK j \in k+1..Len(c) : t[i].uses \subseteq c[j].uses
        BY <1>11 DEF From
      <3>2. j \in 1..Len(c) /\ j # k
        BY <1>12
      <3> QED BY <3>1, <3>2 DEF CleanOf, DistinctCalls, m
    <2>2. \A i, j \in 1..Len(t) : i # j => t[i].uses \cap t[j].uses = {}
      BY DEF Collapsed, DistinctCalls
    <2> SUFFICES ASSUME NEW i \in 1..Len(s), NEW j \in 1..Len(s), i # j
                 PROVE  s[i].uses \cap s[j].uses = {}
      BY DEF DistinctCalls
    <2>3. CASE i = 1 \/ j = 1
      BY <1>2, <1>3, <2>1, <2>3
    <2>4. CASE i # 1 /\ j # 1
      <3>1. i \in 2..Len(s) /\ j \in 2..Len(s)
        BY <1>1, <1>2, <2>4
      <3>2. /\ i - 1 \in 1..Len(t) /\ j - 1 \in 1..Len(t) /\ i - 1 # j - 1
            /\ s[i] = t[i - 1] /\ s[j] = t[j - 1]
        BY <1>1, <1>2, <3>1
      <3> QED BY <2>2, <3>2
    <2> QED BY <2>3, <2>4
  <1>15. s[1].role = c[k].role /\ s[1].uses = c[k].uses /\ s[1].results = c[k].results
    BY <1>2 DEF m
  <1>16. ~ (k > Len(c))
    BY <1>1
  <1>17. Collapsed(s, c, k)
    BY <1>2, <1>8, <1>9, <1>10, <1>13, <1>14, <1>15, <1>16 DEF Collapsed
  <1> QED BY <1>17 DEF s, m

\* A user message before another goes into it.
LEMMA CollapsesInto ==
  ASSUME NEW ms, NEW c, CleanOf(c, ms), NEW k \in 1..Len(c), NEW t, Collapsed(t, c, k + 1),
         Opens(c[k], t)
  PROVE  Collapsed(AbsorbUser(c[k], t), c, k)
  <1> DEFINE m == c[k]
             kept == IF HasText(m, "checkpoint") THEN m.texts ELSE <<>>
             h == UserMsg(m.results \cup t[1].results, kept \o t[1].texts)
             s == <<h>> \o Tail(t)
  <1>1. /\ c \in Seq(Message) /\ m \in Message /\ t \in Seq(Message)
        /\ Len(c) \in Nat /\ Len(t) \in Nat /\ k + 1 \in 2..Len(c) + 1
    BY DEF CleanOf, Collapsed
  <1>2. t # <<>> /\ Head(t) = t[1] /\ 1 \in 1..Len(t) /\ Len(t) > 0
    <2> HIDE DEF Message
    <2> QED BY <1>1 DEF Opens
  <1>3. /\ m.role = "user" /\ t[1].role = "user" /\ m.uses = {} /\ t[1].uses = {}
        /\ t[1] \in Message
    BY <1>1, <1>2, MessageShapes DEF Opens
  <1>4. AbsorbUser(m, t) = s
    BY <1>2 DEF AbsorbUser
  <1>5. /\ k + 1 \in 1..Len(c) /\ t[1].results = c[k+1].results
    BY <1>1, <1>2 DEF Collapsed
  <1>6. t[1].results = {}
    <2>1. (k + 1) - 1 = k
      BY <1>1
    <2>2. c[k+1].results # {} => IdsOf(c[k+1].results) \subseteq m.uses
      BY <1>5, <2>1 DEF CleanOf, Resumable, ResultsAnswer
    <2> QED BY <1>3, <1>5, <2>2 DEF IdsOf
  <1>7. t[1].texts # <<>> /\ Known(t[1].texts)
    BY <1>2, <1>3, <1>6 DEF Collapsed, Fit, Says
  <1>8. /\ m.texts \in Seq(Text) /\ t[1].texts \in Seq(Text) /\ m.results \in SUBSET Result
        /\ Known(m.texts)
    BY <1>1, <1>3, MessageShapes DEF CleanOf, Fit
  <1>9. kept \in Seq(Text) /\ Known(kept)
    <2>1. Known(<<>>) /\ <<>> \in Seq(Text)
      BY DEF Known
    <2> QED BY <1>8, <2>1
  <1> HIDE DEF kept
  <1>10. /\ Known(kept \o t[1].texts) /\ kept \o t[1].texts \in Seq(Text)
         /\ kept \o t[1].texts # <<>>
    BY <1>7, <1>8, <1>9, KnownJoin
  <1>11. /\ h \in Message /\ h.role = "user" /\ h.uses = {} /\ h.results = m.results
         /\ Known(h.texts) /\ Says(h)
    <2>1. m.results \cup t[1].results = m.results
      BY <1>6
    <2>2. h \in UserMessage
      BY <1>8, <1>10, <2>1, MessageTypes
    <2> QED BY <1>10, <2>1, <2>2 DEF UserMsg, Message, Says
  <1> HIDE DEF h, m
  <1>12. /\ s \in Seq(Message) /\ Len(s) = Len(t) /\ s[1] = h /\ s # <<>>
         /\ \A i \in 2..Len(s) : s[i] = t[i]
    <2> HIDE DEF Message
    <2>1. /\ Tail(t) \in Seq(Message) /\ Len(Tail(t)) = Len(t) - 1
          /\ \A i \in 1..Len(t) - 1 : Tail(t)[i] = t[i + 1]
      BY <1>1, <1>2
    <2>2. /\ s \in Seq(Message) /\ Len(s) = (Len(t) - 1) + 1 /\ s[1] = h /\ s # <<>>
          /\ \A i \in 2..(Len(t) - 1) + 1 : s[i] = Tail(t)[i - 1]
      BY <1>11, <2>1, FrontFacts
    <2> HIDE DEF s
    <2>3. (Len(t) - 1) + 1 = Len(t)
      BY <1>1
    <2>4. \A i \in 2..Len(t) : i - 1 \in 1..Len(t) - 1 /\ (i - 1) + 1 = i
      BY <1>1
    <2> QED BY <2>1, <2>2, <2>3, <2>4
  <1> HIDE DEF s
  <1>13. \A i \in 1..Len(s) : i \in 1..Len(t) /\ (i = 1 \/ i \in 2..Len(s))
    BY <1>1, <1>12
  <1>14. CallsAnswered(s, Len(s))
    <2> SUFFICES ASSUME NEW i \in 1..Len(s), s[i].uses # {}
                 PROVE  /\ i < Len(s) /\ s[i+1].role = "user"
                        /\ s[i].uses \subseteq IdsOf(s[i+1].results)
      BY DEF CallsAnswered
    <2>1. i \in 2..Len(s) /\ i \in 1..Len(t) /\ s[i] = t[i]
      BY <1>11, <1>12, <1>13
    <2>2. i < Len(t) /\ t[i+1].role = "user" /\ t[i].uses \subseteq IdsOf(t[i+1].results)
      BY <2>1 DEF Collapsed, CallsAnswered
    <2>3. i + 1 \in 2..Len(s)
      BY <1>1, <1>12, <2>1, <2>2
    <2> QED BY <1>12, <2>1, <2>2, <2>3
  <1>15. Fit(s)
    BY <1>11, <1>12, <1>13 DEF Collapsed, Fit
  <1>16. ASSUME NEW i \in 2..Len(s)
         PROVE  /\ s[i].role # s[i-1].role
                /\ s[i].results # {} => IdsOf(s[i].results) \subseteq s[i-1].uses
    <2>1. /\ t[i].role # t[i-1].role
          /\ t[i].results # {} => IdsOf(t[i].results) \subseteq t[i-1].uses
      BY <1>12 DEF Collapsed
    <2>2. s[i-1].role = t[i-1].role /\ s[i-1].uses = t[i-1].uses
      <3>1. CASE i = 2
        <4>1. i - 1 = 1
          BY <3>1
        <4> QED BY <1>3, <1>11, <1>12, <4>1
      <3>2. CASE i # 2
        <4>1. i - 1 \in 2..Len(s)
          BY <1>1, <1>12, <3>2
        <4> QED BY <1>12, <4>1
      <3> QED BY <3>1, <3>2
    <2> QED BY <1>12, <2>1, <2>2
  <1>17. k \in k..Len(c) /\ \A j \in k+1..Len(c) : j \in k..Len(c)
    BY <1>1
  <1>18. \A i \in 1..Len(s) : From(s[i], c, k)
    <2>1. From(h, c, k)
      <3>1. From(m, c, k)
        BY <1>17 DEF From, CleanOf, Resumable, ResultsAnswer, m
      <3> QED BY <1>3, <1>11, <3>1 DEF From, m
    <2>2. \A i \in 1..Len(t) : From(t[i], c, k + 1)
      BY DEF Collapsed
    <2>3. \A i \in 1..Len(t) : From(t[i], c, k)
      BY <1>17, <2>2 DEF From
    <2> QED BY <1>12, <1>13, <2>1, <2>3
  <1>19. DistinctCalls(s)
    <2>1. \A i, j \in 1..Len(t) : i # j => t[i].uses \cap t[j].uses = {}
      BY DEF Collapsed, DistinctCalls
    <2> QED BY <1>11, <1>12, <1>13, <2>1 DEF DistinctCalls
  <1>20. s[1].role = c[k].role /\ s[1].uses = c[k].uses /\ s[1].results = c[k].results
    BY <1>3, <1>11, <1>12 DEF m
  <1>21. ~ (k > Len(c))
    BY <1>1
  <1>22. Collapsed(s, c, k)
    BY <1>12, <1>14, <1>15, <1>16, <1>18, <1>19, <1>20, <1>21 DEF Collapsed
  <1> QED BY <1>4, <1>22 DEF m

-----------------------------------------------------------------------------
(* The restored history                                                     *)

\* A history a run can be started on, made of what ms holds.
RestoreOf(r, ms) ==
    /\ r \in Seq(Message) /\ CallsAnswered(r, Len(r)) /\ ResultsAnswer(r) /\ Alternates(r)
    /\ DistinctCalls(r) /\ Fit(r)
    /\ \A i \in 1..Len(r) : Stems(r[i], ms)

\* One message more, from the end.
LEMMA CollapsesOne ==
  ASSUME NEW ms, NEW c, CleanOf(c, ms), NEW k \in 1..Len(c), NEW t, Collapsed(t, c, k + 1)
  PROVE  Collapsed(AbsorbUser(c[k], t), c, k)
  <1>1. CASE Opens(c[k], t)
    BY <1>1, CollapsesInto
  <1>2. CASE ~ Opens(c[k], t)
    <2>1. AbsorbUser(c[k], t) = <<c[k]>> \o t
      BY <1>2 DEF AbsorbUser
    <2> QED BY <1>2, <2>1, CollapsesApart
  <1> QED BY <1>1, <1>2

\* What repairMessages leaves of folded messages.
LEMMA RepairedWhole ==
  ASSUME NEW ms, Folded(ms)
  PROVE  RestoreOf(RepairMessages(ms), ms)
  <1> DEFINE c == Cleaned(ms)
             n == Len(c)
  <1>1. CleanOf(c, ms)
    BY CleanedWhole
  <1>2. RepairMessages(ms) = CollapseUsers(c)
    BY DEF RepairMessages
  <1> HIDE DEF c
  <1>3. n \in Nat
    BY <1>1 DEF CleanOf
  <1>4. PICK f : /\ f[n + 1] = <<>>
                 /\ \A k \in 1..n : f[k] = AbsorbUser(c[k], f[k+1])
                 /\ CollapseUsers(c) = f[1]
    BY <1>3, CollapsesDown
  <1> DEFINE S == {i \in 0..n : Collapsed(f[(n + 1) - i], c, (n + 1) - i)}
  <1>5. 0 \in S
    <2>1. Collapsed(<<>>, c, n + 1)
      BY <1>3 DEF Collapsed, CallsAnswered, DistinctCalls, Fit
    <2>2. (n + 1) - 0 = n + 1 /\ 0 \in 0..n
      BY <1>3
    <2> HIDE DEF n
    <2> QED BY <1>4, <2>1, <2>2
  <1>6. ASSUME NEW i \in 1..n, i - 1 \in S PROVE i \in S
    <2> DEFINE k == (n + 1) - i
    <2>1. k \in 1..n /\ (n + 1) - (i - 1) = k + 1 /\ i \in 0..n
      BY <1>3
    <2>2. Collapsed(f[k+1], c, k + 1)
      BY <1>6, <2>1
    <2> HIDE DEF k
    <2>3. Collapsed(AbsorbUser(c[k], f[k+1]), c, k)
      BY <1>1, <2>1, <2>2, CollapsesOne
    <2>4. Collapsed(f[k], c, k)
      BY <1>4, <2>1, <2>3
    <2> QED BY <2>1, <2>4 DEF k
  <1>7. Collapsed(f[1], c, 1)
    <2>1. \A k \in 0..n : k \in S
      <3> HIDE DEF S, n
      <3> QED BY <1>3, <1>5, <1>6, CountsUp
    <2>2. n \in S /\ (n + 1) - n = 1
      BY <1>3, <2>1
    <2> HIDE DEF n
    <2> QED BY <2>2
  <1> DEFINE r == f[1]
  <1>8. r \in Seq(Message) /\ CallsAnswered(r, Len(r)) /\ DistinctCalls(r) /\ Fit(r)
        /\ Len(r) \in Nat
    BY <1>7 DEF Collapsed
  <1>9. ASSUME NEW i \in 1..Len(r) PROVE Stems(r[i], ms)
    <2>1. PICK j \in 1..n : r[i].uses \subseteq c[j].uses /\ r[i].results \subseteq c[j].results
      BY <1>7 DEF Collapsed, From
    <2>2. Stems(c[j], ms)
      BY <1>1 DEF CleanOf
    <2> HIDE DEF r, n
    <2> QED BY <2>1, <2>2 DEF Stems
  <1>10. r # <<>> => 1 \in 1..n /\ r[1].role = c[1].role /\ r[1].results = c[1].results
    BY <1>3, <1>7 DEF Collapsed
  <1>11. \A i \in 1..Len(r) : (i = 1 /\ r # <<>>) \/ i \in 2..Len(r)
    <2> HIDE DEF Message, r
    <2> QED BY <1>8
  <1>12. ResultsAnswer(r)
    <2>1. \A i \in 1..Len(r) : \A p, q \in r[i].results : p.id = q.id => p = q
      BY <1>7 DEF Collapsed, From
    <2>2. r # <<>> => r[1].results = {}
      BY <1>1, <1>10 DEF CleanOf, Resumable, ResultsAnswer
    <2>3. \A i \in 2..Len(r) : r[i].results # {} => i > 1 /\ IdsOf(r[i].results) \subseteq r[i-1].uses
      BY <1>7 DEF Collapsed
    <2> HIDE DEF r
    <2> QED BY <1>11, <2>1, <2>2, <2>3 DEF ResultsAnswer
  <1>13. Alternates(r)
    <2>1. r # <<>> => r[1].role # "assistant"
      BY <1>1, <1>10 DEF CleanOf, Resumable, AnswersFollowUsers
    <2>2. \A i \in 2..Len(r) : r[i].role # r[i-1].role
      BY <1>7 DEF Collapsed
    <2> HIDE DEF r
    <2>3. ASSUME NEW i \in 2..Len(r), r[i].role = "assistant" PROVE i > 1 /\ r[i-1].role = "user"
      <3>1. i - 1 \in 1..Len(r) /\ i > 1
        BY <1>8
      <3>2. r[i-1] \in Message
        BY <1>8, <3>1
      <3> QED BY <2>2, <2>3, <3>1, <3>2, MessageShapes
    <2>4. AnswersFollowUsers(r)
      BY <1>11, <2>1, <2>3 DEF AnswersFollowUsers
    <2> QED BY <2>2, <2>4 DEF Alternates
  <1> QED BY <1>2, <1>4, <1>8, <1>9, <1>12, <1>13 DEF RestoreOf

\* A draft pulled out leaves the history as good as it was.
LEMMA UndraftedWhole ==
  ASSUME NEW ms, NEW r, RestoreOf(r, ms)
  PROVE  RestoreOf(WithoutDraft(r), ms)
  <1> DEFINE n == Len(r)
             last == r[n]
  <1>1. r \in Seq(Message) /\ n \in Nat
    BY DEF RestoreOf
  <1>2. CASE PendingDraft(r) = <<>>
    BY <1>2 DEF WithoutDraft
  <1>3. CASE PendingDraft(r) # <<>>
    <2>1. EndsInUser(r)
      BY <1>3 DEF PendingDraft
    <2>2. n > 0 /\ last.role = "user" /\ last \in Message /\ Last(r) = last /\ n \in 1..n
      BY <1>1, <2>1 DEF EndsInUser, Last
    <2>3. last.uses = {} /\ last.results \in SUBSET Result
      BY <2>2, MessageShapes
    <2>4. CASE last.results = {}
      <3> DEFINE s == SubSeq(r, 1, n - 1)
      <3>1. WithoutDraft(r) = s
        BY <1>3, <2>2, <2>4 DEF WithoutDraft, Front
      <3>2. s \in Seq(Message) /\ Len(s) = n - 1 /\ \A i \in 1..n-1 : s[i] = r[i]
        <4> DEFINE k == n - 1
        <4>1. k \in Nat /\ k <= Len(r)
          BY <1>1, <2>2
        <4> HIDE DEF Message, k
        <4>2. SubSeq(r, 1, k) \in Seq(Message) /\ Len(SubSeq(r, 1, k)) = k
              /\ \A i \in 1..k : SubSeq(r, 1, k)[i] = r[i]
          BY <1>1, <4>1
        <4> QED BY <4>2 DEF k
      <3> HIDE DEF s
      <3>3. \A i \in 1..Len(s) : i \in 1..n /\ s[i] = r[i] /\ (i > 1 => s[i-1] = r[i-1])
        BY <1>1, <3>2
      <3>4. CallsAnswered(s, Len(s))
        <4> SUFFICES ASSUME NEW i \in 1..Len(s), s[i].uses # {}
                     PROVE  /\ i < Len(s) /\ s[i+1].role = "user"
                            /\ s[i].uses \subseteq IdsOf(s[i+1].results)
          BY DEF CallsAnswered
        <4>1. r[i].uses # {} /\ r[i+1].role = "user" /\ r[i].uses \subseteq IdsOf(r[i+1].results)
          BY <3>3 DEF RestoreOf, CallsAnswered
        <4>2. i + 1 # n
          BY <2>4, <4>1 DEF IdsOf
        <4>3. i + 1 \in 1..n-1 /\ i < Len(s)
          BY <1>1, <3>2, <4>2
        <4> QED BY <3>2, <3>3, <4>1, <4>3
      <3>5. ResultsAnswer(s)
        <4> SUFFICES ASSUME NEW i \in 1..Len(s)
                     PROVE  /\ s[i].results # {} =>
                                  i > 1 /\ IdsOf(s[i].results) \subseteq s[i-1].uses
                            /\ \A p, q \in s[i].results : p.id = q.id => p = q
          BY DEF ResultsAnswer
        <4>1. /\ r[i].results # {} => i > 1 /\ IdsOf(r[i].results) \subseteq r[i-1].uses
              /\ \A p, q \in r[i].results : p.id = q.id => p = q
          BY <3>3 DEF RestoreOf, ResultsAnswer
        <4> QED BY <3>3, <4>1
      <3>6. Alternates(s)
        <4>1. ASSUME NEW i \in 1..Len(s), s[i].role = "assistant" PROVE i > 1 /\ s[i-1].role = "user"
          BY <3>3, <4>1 DEF RestoreOf, Alternates, AnswersFollowUsers
        <4>2. ASSUME NEW i \in 2..Len(s) PROVE s[i].role # s[i-1].role
          <5>1. i \in 1..Len(s) /\ i > 1 /\ i \in 2..n
            BY <1>1, <3>2
          <5> QED BY <3>3, <5>1 DEF RestoreOf, Alternates
        <4> QED BY <4>1, <4>2 DEF Alternates, AnswersFollowUsers
      <3>7. DistinctCalls(s) /\ Fit(s) /\ \A i \in 1..Len(s) : Stems(s[i], ms)
        BY <3>3 DEF RestoreOf, DistinctCalls, Fit
      <3> QED BY <3>1, <3>2, <3>4, <3>5, <3>6, <3>7 DEF RestoreOf
    <2>5. CASE last.results # {}
      <3> DEFINE m == UserMsg(last.results, <<>>)
                 s == SubSeq(r, 1, n - 1) \o <<m>>
      <3>1. WithoutDraft(r) = s
        BY <1>3, <2>2, <2>5 DEF WithoutDraft, Front
      <3>2. /\ m \in Message /\ m.role = last.role /\ m.uses = last.uses
            /\ m.results = last.results /\ Says(m) /\ Known(m.texts)
        <4>1. m \in UserMessage
          BY <2>3, MessageTypes, TextTypes
        <4> QED BY <2>2, <2>3, <2>5, <4>1 DEF UserMsg, Message, Says, Known
      <3> HIDE DEF m
      <3>3. /\ s \in Seq(Message) /\ Len(s) = n
            /\ \A i \in 1..n : s[i] = IF i = n THEN m ELSE r[i]
        <4>1. n - 1 \in 0..n /\ (n - 1) + 1 = n
          BY <1>1, <2>2
        <4> HIDE DEF Message
        <4>2. /\ SubSeq(r, 1, n - 1) \in Seq(Message) /\ Len(SubSeq(r, 1, n - 1)) = n - 1
              /\ \A i \in 1..n-1 : SubSeq(r, 1, n - 1)[i] = r[i]
          BY <1>1, <4>1
        <4> DEFINE q == SubSeq(r, 1, n - 1)
        <4>3. /\ q \in Seq(Message) /\ Len(q) = n - 1
              /\ \A i \in 1..n-1 : q[i] = r[i]
          BY <4>2
        <4> HIDE DEF q
        <4>4. /\ q \o <<m>> \in Seq(Message) /\ Len(q \o <<m>>) = n
              /\ (q \o <<m>>)[n] = m
              /\ \A i \in 1..n-1 : (q \o <<m>>)[i] = q[i]
          <5>1. Len(q) \in Nat /\ Len(q) + 1 = n /\ n \in Nat
            BY <1>1, <4>1, <4>3
          <5>2. q \o <<m>> \in Seq(Message) /\ Len(q \o <<m>>) = Len(q) + 1
            BY <3>2, <4>3, <5>1
          <5>3. (q \o <<m>>)[Len(q) + 1] = m
            BY <3>2, <4>3, <5>1
          <5>4. \A i \in 1..Len(q) : (q \o <<m>>)[i] = q[i]
            BY <3>2, <4>3, <5>1
          <5> QED BY <4>3, <5>1, <5>2, <5>3, <5>4
        <4> QED BY <1>1, <4>3, <4>4 DEF q
      <3> HIDE DEF s
      <3>4. \A i \in 1..n : s[i].role = r[i].role /\ s[i].uses = r[i].uses /\ s[i].results = r[i].results
        BY <3>2, <3>3
      <3>5. CallsAnswered(s, Len(s))
        <4> SUFFICES ASSUME NEW i \in 1..n, s[i].uses # {}
                     PROVE  /\ i < Len(s) /\ s[i+1].role = "user"
                            /\ s[i].uses \subseteq IdsOf(s[i+1].results)
          BY <3>3 DEF CallsAnswered
        <4>1. /\ i < n /\ r[i+1].role = "user" /\ r[i].uses \subseteq IdsOf(r[i+1].results)
          BY <3>4 DEF RestoreOf, CallsAnswered
        <4>2. i + 1 \in 1..n
          BY <1>1, <4>1
        <4> QED BY <3>3, <3>4, <4>1, <4>2
      <3>6. ResultsAnswer(s)
        <4> SUFFICES ASSUME NEW i \in 1..n
                     PROVE  /\ s[i].results # {} =>
                                  i > 1 /\ IdsOf(s[i].results) \subseteq s[i-1].uses
                            /\ \A p, q \in s[i].results : p.id = q.id => p = q
          BY <3>3 DEF ResultsAnswer
        <4>1. /\ r[i].results # {} => i > 1 /\ IdsOf(r[i].results) \subseteq r[i-1].uses
              /\ \A p, q \in r[i].results : p.id = q.id => p = q
          BY DEF RestoreOf, ResultsAnswer
        <4>2. i > 1 => i - 1 \in 1..n
          BY <1>1
        <4> QED BY <3>4, <4>1, <4>2
      <3>7. Alternates(s)
        <4>1. \A i \in 1..n : i > 1 => i - 1 \in 1..n
          BY <1>1
        <4>2. ASSUME NEW i \in 1..n, s[i].role = "assistant" PROVE i > 1 /\ s[i-1].role = "user"
          BY <3>4, <4>1, <4>2 DEF RestoreOf, Alternates, AnswersFollowUsers
        <4>3. ASSUME NEW i \in 2..n PROVE s[i].role # s[i-1].role
          <5>1. i \in 1..n /\ i > 1
            BY <1>1
          <5> QED BY <3>4, <4>1, <5>1 DEF RestoreOf, Alternates
        <4> QED BY <3>3, <4>2, <4>3 DEF Alternates, AnswersFollowUsers
      <3>8. DistinctCalls(s)
        BY <3>3, <3>4 DEF RestoreOf, DistinctCalls
      <3>9. Fit(s)
        BY <3>2, <3>3 DEF RestoreOf, Fit
      <3>10. \A i \in 1..Len(s) : Stems(s[i], ms)
        BY <3>3, <3>4 DEF RestoreOf, Stems
      <3> QED BY <3>1, <3>3, <3>5, <3>6, <3>7, <3>8, <3>9, <3>10 DEF RestoreOf
    <2> QED BY <2>4, <2>5
  <1> QED BY <1>2, <1>3

\* The mode a fit history announces last is one of the modes.
LEMMA AnnouncesMode ==
  ASSUME NEW ms \in Seq(Message), Fit(ms)
  PROVE  LastAnnounced(ms) \in 0..NumModes
  <1> DEFINE telling == {i \in DOMAIN ms : HasText(ms[i], "mode")}
             texts   == ms[Max(telling)].texts
             modes   == {k \in DOMAIN texts : texts[k].kind = "mode"}
  <1>1. LastAnnounced(ms) = IF telling = {} THEN 0 ELSE texts[Max(modes)].val
    BY DEF LastAnnounced
  <1>2. CASE telling = {}
    <2>1. 0 \in 0..NumModes
      BY Numbers
    <2> QED BY <1>1, <1>2, <2>1
  <1>3. CASE telling # {}
    <2>1. Len(ms) \in Nat /\ telling \in SUBSET (0..Len(ms))
      OBVIOUS
    <2>2. Max(telling) \in telling
      <3> HIDE DEF telling
      <3> QED BY <1>3, <2>1, GreatestExists
    <2>3. Max(telling) \in 1..Len(ms) /\ HasText(ms[Max(telling)], "mode")
      BY <2>2
    <2>4. ms[Max(telling)] \in Message
      <3> HIDE DEF telling
      <3> QED BY <2>3
    <2>5. texts \in Seq(Text) /\ Known(texts) /\ modes # {}
      <3>1. texts \in Seq(Text)
        BY <2>4, MessageShapes
      <3>2. Known(texts)
        BY <2>3 DEF Fit
      <3>3. modes # {}
        BY <2>3 DEF HasText
      <3> QED BY <3>1, <3>2, <3>3
    <2> HIDE DEF telling, texts
    <2>6. Len(texts) \in Nat /\ modes \in SUBSET (0..Len(texts))
      BY <2>5
    <2>7. Max(modes) \in modes
      <3> HIDE DEF modes
      <3> QED BY <2>5, <2>6, GreatestExists
    <2>8. Max(modes) \in DOMAIN texts /\ texts[Max(modes)].kind = "mode"
      BY <2>7
    <2> HIDE DEF modes
    <2>9. texts[Max(modes)].val \in 0..NumModes
      BY <2>5, <2>8 DEF Known
    <2> QED BY <1>1, <1>3, <2>9
  <1> QED BY <1>2, <1>3

\* What a log of folded messages restores to: a history a run can be started
\* on, with no call and no result that the log has not.
LEMMA RestoredWhole ==
  ASSUME NEW records, Folded(FoldRecords(records))
  PROVE  /\ RestoreOf(Restored(records), FoldRecords(records))
         /\ LastAnnounced(Restored(records)) \in 0..NumModes
  <1> DEFINE r == Restored(records)
  <1>1. RestoreOf(r, FoldRecords(records))
    BY RepairedWhole, UndraftedWhole DEF Restored, Repaired
  <1>2. r \in Seq(Message) /\ Fit(r)
    BY <1>1 DEF RestoreOf
  <1> HIDE DEF r
  <1>3. LastAnnounced(r) \in 0..NumModes
    BY <1>2, AnnouncesMode
  <1> QED BY <1>1, <1>3 DEF r

\* So the log restores, when the ids in its messages were handed out before.
LEMMA FoldedRestores ==
  ASSUME Folded(FoldRecords(log)), HandedOut(FoldRecords(log)), minted \in Nat
  PROVE  RestoredIsResumable
  <1> DEFINE r == Restored(log)
             ms == FoldRecords(log)
  <1>1. RestoreOf(r, ms) /\ LastAnnounced(r) \in 0..NumModes
    BY RestoredWhole
  <1>2. HandedOut(r)
    <2> SUFFICES ASSUME NEW i \in 1..Len(r), NEW id \in r[i].uses
                 PROVE  id <= minted
      BY DEF HandedOut
    <2>1. PICK j \in 1..Len(ms) : r[i].uses \subseteq ms[j].uses
      BY <1>1 DEF RestoreOf, Stems
    <2> HIDE DEF r, ms
    <2>2. id \in ms[j].uses
      BY <2>1
    <2> QED BY <2>2 DEF HandedOut, ms
  <1> QED BY <1>1, <1>2 DEF RestoreOf, RestoredIsResumable

-----------------------------------------------------------------------------
(* One entry of the log more                                                *)

\* No call of ms has a number above n.
CallsUpTo(ms, n) == \A i \in 1..Len(ms) : \A id \in ms[i].uses : id <= n

\* A message behind folded messages: an answer needs a turn to answer, results
\* the calls of the message before.
LEMMA AppendFolded ==
  ASSUME NEW ms, Folded(ms), NEW m \in Message, Known(m.texts),
         m.role = "assistant" => ms # <<>> /\ Welcomes(ms, Len(ms)),
         m.results # {} => ms # <<>> /\ IdsOf(m.results) \subseteq ms[Len(ms)].uses,
         \A r, s \in m.results : r.id = s.id => r = s,
         \A i \in 1..Len(ms) : m.uses \cap ms[i].uses = {}
  PROVE  /\ Folded(Append(ms, m)) /\ Len(Append(ms, m)) = Len(ms) + 1 /\ Len(ms) \in Nat
         /\ Append(ms, m)[Len(ms) + 1] = m /\ Append(ms, m) # <<>>
         /\ \A i \in 1..Len(ms) : Append(ms, m)[i] = ms[i]
         /\ \A k : CallsUpTo(ms, k) /\ (\A id \in m.uses : id <= k) => CallsUpTo(Append(ms, m), k)
  <1> DEFINE new == Append(ms, m)
  <1>1. ms \in Seq(Message)
    BY DEF Folded
  <1>2. /\ new \in Seq(Message) /\ Len(new) = Len(ms) + 1 /\ new[Len(ms) + 1] = m
        /\ \A i \in 1..Len(ms) : new[i] = ms[i]
        /\ Len(ms) \in Nat /\ new # <<>> /\ (ms # <<>> => Len(ms) \in 1..Len(ms))
    <2> HIDE DEF Message
    <2>1. /\ new \in Seq(Message) /\ Len(new) = Len(ms) + 1 /\ new[Len(ms) + 1] = m
          /\ \A i \in 1..Len(ms) : new[i] = ms[i]
      BY <1>1
    <2> HIDE DEF new
    <2>2. Len(ms) \in Nat /\ (ms # <<>> => Len(ms) \in 1..Len(ms))
      BY <1>1
    <2>3. new # <<>>
      BY <2>1, <2>2
    <2> QED BY <2>1, <2>2, <2>3
  <1> HIDE DEF new
  <1>3. \A i \in 1..Len(new) : i = Len(ms) + 1 \/ i \in 1..Len(ms)
    BY <1>2
  <1>4. \A i \in 2..Len(new) : i - 1 \in 1..Len(ms) /\ new[i-1] = ms[i-1]
    <2> TAKE i \in 2..Len(new)
    <2>1. i - 1 \in 1..Len(ms)
      BY <1>2
    <2> QED BY <1>2, <2>1
  <1>5. ResultsAnswer(new)
    <2> SUFFICES ASSUME NEW i \in 1..Len(new)
                 PROVE  /\ new[i].results # {} =>
                              i > 1 /\ IdsOf(new[i].results) \subseteq new[i-1].uses
                        /\ \A r, s \in new[i].results : r.id = s.id => r = s
      BY DEF ResultsAnswer
    <2>1. CASE i = Len(ms) + 1
      <3>1. new[i] = m /\ \A r, s \in new[i].results : r.id = s.id => r = s
        BY <1>2, <2>1
      <3>2. ASSUME m.results # {}
            PROVE  i > 1 /\ IdsOf(m.results) \subseteq new[i-1].uses
        <4>1. Len(ms) \in 1..Len(ms) /\ i - 1 = Len(ms) /\ i > 1
          BY <1>2, <2>1, <3>2
        <4> QED BY <1>2, <3>2, <4>1
      <3> QED BY <3>1, <3>2
    <2>2. CASE i \in 1..Len(ms)
      <3>1. new[i] = ms[i] /\ (i > 1 => new[i-1] = ms[i-1])
        BY <1>2, <1>4, <2>2
      <3>2. /\ ms[i].results # {} => i > 1 /\ IdsOf(ms[i].results) \subseteq ms[i-1].uses
            /\ \A r, s \in ms[i].results : r.id = s.id => r = s
        BY <2>2 DEF Folded, ResultsAnswer
      <3> QED BY <3>1, <3>2
    <2> QED BY <1>3, <2>1, <2>2
  <1>6. DistinctCalls(new)
    <2> SUFFICES ASSUME NEW i \in 1..Len(new), NEW k \in 1..Len(new), i # k
                 PROVE  new[i].uses \cap new[k].uses = {}
      BY DEF DistinctCalls
    <2>1. CASE i = Len(ms) + 1
      BY <1>2, <1>3, <2>1
    <2>2. CASE k = Len(ms) + 1
      BY <1>2, <1>3, <2>2
    <2>3. CASE i \in 1..Len(ms) /\ k \in 1..Len(ms)
      BY <1>2, <2>3 DEF Folded, DistinctCalls
    <2> QED BY <1>3, <2>1, <2>2, <2>3
  <1>7. \A i \in 1..Len(new) : Known(new[i].texts)
    BY <1>2, <1>3 DEF Folded
  <1>8. \A i \in 1..Len(ms) : Welcomes(ms, i) => Welcomes(new, i)
    <2> TAKE i \in 1..Len(ms)
    <2>1. new[i] = ms[i] /\ (i > 1 => new[i-1] = ms[i-1])
      BY <1>2, <1>4
    <2> QED BY <2>1 DEF Welcomes
  <1>9. ASSUME NEW i \in 1..Len(new), new[i].role = "assistant"
        PROVE  i > 1 /\ Welcomes(new, i - 1)
    <2>1. CASE i = Len(ms) + 1
      <3>1. m.role = "assistant" /\ Len(ms) \in 1..Len(ms) /\ i - 1 = Len(ms) /\ i > 1
        BY <1>2, <1>9, <2>1
      <3> QED BY <1>8, <3>1
    <2>2. CASE i \in 1..Len(ms)
      <3>1. i > 1 /\ Welcomes(ms, i - 1)
        BY <1>2, <1>9, <2>2 DEF Folded
      <3>2. i - 1 \in 1..Len(ms)
        BY <1>2, <2>2, <3>1
      <3> QED BY <1>8, <3>1, <3>2
    <2> QED BY <1>3, <2>1, <2>2
  <1>10. \A k : CallsUpTo(ms, k) /\ (\A id \in m.uses : id <= k) => CallsUpTo(new, k)
    BY <1>2, <1>3 DEF CallsUpTo
  <1> QED BY <1>2, <1>5, <1>6, <1>7, <1>9, <1>10 DEF Folded, new

\* More results in the last message, of calls of the message before.
LEMMA GrowFolded ==
  ASSUME NEW ms, Folded(ms), Len(ms) > 1, ms[Len(ms)].role = "user", NEW m \in UserMessage,
         m.texts = ms[Len(ms)].texts, m.uses = {},
         IdsOf(m.results) \subseteq ms[Len(ms) - 1].uses,
         \A r, s \in m.results : r.id = s.id => r = s
  PROVE  LET new == [ms EXCEPT ![Len(ms)] = m]
         IN /\ Folded(new) /\ Len(new) = Len(ms) /\ Len(ms) \in Nat /\ new[Len(ms)] = m
            /\ \A i \in 1..Len(ms) - 1 : new[i] = ms[i]
            /\ \A k : CallsUpTo(ms, k) => CallsUpTo(new, k)
  <1> DEFINE n == Len(ms)
             new == [ms EXCEPT ![n] = m]
  <1>1. ms \in Seq(Message) /\ n \in Nat /\ n \in 1..n /\ n - 1 \in 1..n
    <2>1. ms \in Seq(Message)
      BY DEF Folded
    <2> HIDE DEF Message
    <2>2. n \in Nat
      BY <2>1
    <2> QED BY <2>1, <2>2
  <1>2. m \in Message /\ ms[n].uses = {} /\ m.role = "user"
    <2>1. ms[n] \in Message
      BY <1>1
    <2> QED BY <2>1, MessageShapes DEF Message, UserMessage
  <1>3. /\ new \in Seq(Message) /\ Len(new) = n
        /\ \A i \in 1..n : new[i] = IF i = n THEN m ELSE ms[i]
    <2> HIDE DEF Message
    <2> QED BY <1>1, <1>2
  <1> HIDE DEF new, n
  <1>4. \A i \in 1..n : /\ new[i].role = ms[i].role /\ new[i].uses = ms[i].uses
                        /\ new[i].texts = ms[i].texts
    BY <1>1, <1>2, <1>3 DEF n
  <1>5. \A i \in 1..n - 1 : new[i] = ms[i]
    <2> TAKE i \in 1..n - 1
    <2>1. i \in 1..n /\ i # n
      BY <1>1
    <2> QED BY <1>3, <2>1
  <1>6. \A i \in 1..n : i > 1 => i - 1 \in 1..n /\ i - 1 \in 1..n - 1
    BY <1>1
  <1>7. ResultsAnswer(new)
    <2> SUFFICES ASSUME NEW i \in 1..n
                 PROVE  /\ new[i].results # {} =>
                              i > 1 /\ IdsOf(new[i].results) \subseteq new[i-1].uses
                        /\ \A r, s \in new[i].results : r.id = s.id => r = s
      BY <1>3 DEF ResultsAnswer
    <2>1. CASE i = n
      <3>1. new[i] = m /\ i > 1 /\ new[i-1] = ms[i-1]
        BY <1>1, <1>3, <1>5, <1>6, <2>1 DEF n
      <3> QED BY <2>1, <3>1 DEF n
    <2>2. CASE i # n
      <3>1. new[i] = ms[i] /\ (i > 1 => new[i-1] = ms[i-1])
        BY <1>3, <1>5, <1>6, <2>2
      <3>2. /\ ms[i].results # {} => i > 1 /\ IdsOf(ms[i].results) \subseteq ms[i-1].uses
            /\ \A r, s \in ms[i].results : r.id = s.id => r = s
        BY DEF Folded, ResultsAnswer, n
      <3> QED BY <3>1, <3>2
    <2> QED BY <2>1, <2>2
  <1>8. DistinctCalls(new) /\ \A k : CallsUpTo(ms, k) => CallsUpTo(new, k)
    BY <1>3, <1>4 DEF Folded, DistinctCalls, CallsUpTo, n
  <1>9. \A i \in 1..Len(new) : Known(new[i].texts)
    BY <1>3, <1>4 DEF Folded, n
  <1>10. ASSUME NEW i \in 1..n, new[i].role = "assistant"
         PROVE  i > 1 /\ Welcomes(new, i - 1)
    <2>1. ms[i].role = "assistant" /\ i # n
      BY <1>4, <1>10 DEF n
    <2>2. i > 1 /\ Welcomes(ms, i - 1)
      BY <2>1 DEF Folded, n
    <2>3. i - 1 \in 1..n - 1 /\ i - 1 \in 1..n
      BY <1>6, <2>2
    <2>4. new[i-1] = ms[i-1] /\ (i - 1 > 1 => new[(i-1)-1] = ms[(i-1)-1])
      BY <1>5, <1>6, <2>3
    <2> QED BY <2>2, <2>4 DEF Welcomes
  <1> QED BY <1>1, <1>3, <1>5, <1>7, <1>8, <1>9, <1>10 DEF Folded, new, n

\* The round in hand is at the end of ms: its answer, and the results so far.
RoundAt(ms, rs, open) ==
    /\ IdsOf(rs) \cup open # {}
    /\ \E a \in 1..Len(ms) :
          /\ ms[a].role = "assistant" /\ ms[a].uses = IdsOf(rs) \cup open
          /\ IF rs = {} THEN a = Len(ms)
             ELSE a + 1 = Len(ms) /\ ms[a+1].role = "user" /\ ms[a+1].results = rs

\* What the log folds into, at every instant.
Fold == FoldRecords(log)

FoldInv ==
    /\ Folded(Fold) /\ CallsUpTo(Fold, minted)
    /\ pc \in Asking => Fold # <<>> /\ Welcomes(Fold, Len(Fold))
    /\ pc \in InRound => RoundAt(Fold, results, todo)

\* What one more entry of the log makes of the messages it folds into.
LEMMA FoldSteps ==
  ASSUME NEW X, log \in Seq(X), Record \subseteq X
  PROVE  /\ log \o <<>> = log
         /\ \A m \in Message : /\ log \o <<m>> = Append(log, m)
                               /\ FoldRecords(Append(log, m)) = Append(Fold, m)
         /\ \A m, u \in Message :
               FoldRecords(log \o (<<m>> \o <<u>>)) = Append(Append(Fold, m), u)
         /\ \A r \in Result : FoldRecords(Append(log, ResultRecord(r)))
                                 = AppendUserTurn(Fold, {r}, <<>>)
  <1>1. /\ \A m \in Message : m \in X /\ m.role # "result" /\ m.role # "compact"
        /\ \A r \in Result : ResultRecord(r) \in X
    BY MessageShapes DEF Record, ResultRecord
  <1>2. /\ log \o <<>> = log
        /\ \A m \in X : log \o <<m>> = Append(log, m) /\ Append(log, m) \in Seq(X)
        /\ \A m, u \in X : log \o (<<m>> \o <<u>>) = Append(Append(log, m), u)
    OBVIOUS
  <1>3. \A m \in Message : FoldRecords(Append(log, m)) = Append(Fold, m)
    BY <1>1, FoldsOn DEF FoldRecord, Fold
  <1>4. \A m, u \in Message :
           FoldRecords(Append(Append(log, m), u)) = Append(Append(Fold, m), u)
    <2> TAKE m, u \in Message
    <2>1. Append(log, m) \in Seq(X) /\ u \in X
      BY <1>1, <1>2
    <2>2. FoldRecords(Append(Append(log, m), u)) = FoldRecord(FoldRecords(Append(log, m)), u)
      BY <2>1, FoldsOn
    <2>3. FoldRecord(FoldRecords(Append(log, m)), u) = Append(FoldRecords(Append(log, m)), u)
      BY <1>1 DEF FoldRecord
    <2> QED BY <1>3, <2>2, <2>3
  <1>5. \A r \in Result : FoldRecords(Append(log, ResultRecord(r)))
                             = AppendUserTurn(Fold, {r}, <<>>)
    <2> TAKE r \in Result
    <2>1. FoldRecords(Append(log, ResultRecord(r))) = FoldRecord(Fold, ResultRecord(r))
      BY <1>1, FoldsOn DEF Fold
    <2>2. ResultRecord(r).role = "result" /\ ResultRecord(r).results = {r}
      BY DEF ResultRecord
    <2> QED BY <2>1, <2>2 DEF FoldRecord
  <1> QED BY <1>1, <1>2, <1>3, <1>4, <1>5

\* A turn behind folded messages asks the model for something.
LEMMA AsksFolded ==
  ASSUME NEW ms, Folded(ms), NEW u \in UserMessage, Asks(u)
  PROVE  /\ Folded(Append(ms, u)) /\ Append(ms, u) # <<>>
         /\ Welcomes(Append(ms, u), Len(Append(ms, u)))
         /\ \A k : CallsUpTo(ms, k) => CallsUpTo(Append(ms, u), k)
  <1>1. u \in Message /\ u.role = "user" /\ u.uses = {}
    BY DEF Message, UserMessage
  <1>2. u.results = {} /\ u.texts # <<>> /\ Known(u.texts)
    BY DEF Asks
  <1> DEFINE new == Append(ms, u)
  <1>3. /\ Folded(new) /\ Len(new) = Len(ms) + 1 /\ new[Len(ms) + 1] = u /\ new # <<>>
        /\ \A k : CallsUpTo(ms, k) /\ (\A id \in u.uses : id <= k) => CallsUpTo(new, k)
    BY <1>1, <1>2, AppendFolded
  <1> HIDE DEF new
  <1>4. Welcomes(new, Len(new))
    BY <1>1, <1>2, <1>3 DEF Welcomes
  <1> QED BY <1>1, <1>3, <1>4 DEF new

\* An answer behind a turn that welcomes it.
LEMMA AnswerFolded ==
  ASSUME NEW ms, Folded(ms), ms # <<>>, Welcomes(ms, Len(ms)), NEW m \in AssistantMessage,
         Known(m.texts), NEW k \in Nat, CallsUpTo(ms, k), \A id \in m.uses : k < id
  PROVE  /\ Folded(Append(ms, m)) /\ Len(Append(ms, m)) \in 1..Len(Append(ms, m))
         /\ Append(ms, m)[Len(Append(ms, m))] = m
         /\ \A n \in Nat : k <= n /\ (\A id \in m.uses : id <= n) => CallsUpTo(Append(ms, m), n)
  <1>1. m \in Message /\ m.role = "assistant" /\ m.results = {} /\ m.uses \in SUBSET Nat
    BY DEF Message, AssistantMessage
  <1> DEFINE new == Append(ms, m)
  <1>2. \A i \in 1..Len(ms) : \A id \in ms[i].uses : id \in Nat /\ id <= k
    <2>1. \A i \in 1..Len(ms) : ms[i] \in Message
      BY DEF Folded
    <2> QED BY <2>1, MessageShapes DEF CallsUpTo
  <1>3. \A i \in 1..Len(ms) : m.uses \cap ms[i].uses = {}
    BY <1>1, <1>2
  <1>4. /\ Folded(new) /\ Len(new) = Len(ms) + 1 /\ new[Len(ms) + 1] = m /\ Len(ms) \in Nat
        /\ \A n : CallsUpTo(ms, n) /\ (\A id \in m.uses : id <= n) => CallsUpTo(new, n)
    BY <1>1, <1>3, AppendFolded
  <1> HIDE DEF new
  <1>5. \A n \in Nat : k <= n => CallsUpTo(ms, n)
    BY <1>2 DEF CallsUpTo
  <1>6. Len(new) \in 1..Len(new)
    BY <1>4
  <1> QED BY <1>4, <1>5, <1>6 DEF new

\* A result joins its round at the end of folded messages.
LEMMA ResultFolded ==
  ASSUME NEW ms, Folded(ms), NEW rs \in SUBSET Result, NEW open, RoundAt(ms, rs, open),
         NEW r \in Result, r.id \in open, IdsOf(rs) \cap open = {},
         \A p, q \in rs : p.id = q.id => p = q
  PROVE  LET new == AppendUserTurn(ms, {r}, <<>>)
         IN /\ Folded(new) /\ RoundAt(new, rs \cup {r}, open \ {r.id})
            /\ \A k : CallsUpTo(ms, k) => CallsUpTo(new, k)
  <1> DEFINE new == AppendUserTurn(ms, {r}, <<>>)
             all == rs \cup {r}
             left == open \ {r.id}
  <1>1. PICK a \in 1..Len(ms) :
           /\ ms[a].role = "assistant" /\ ms[a].uses = IdsOf(rs) \cup open
           /\ IF rs = {} THEN a = Len(ms)
              ELSE a + 1 = Len(ms) /\ ms[a+1].role = "user" /\ ms[a+1].results = rs
    BY DEF RoundAt
  <1>2. ms \in Seq(Message) /\ Len(ms) \in Nat
    BY DEF Folded
  <1>3. /\ IdsOf(all) = IdsOf(rs) \cup {r.id} /\ IdsOf(all) \cup left = IdsOf(rs) \cup open
        /\ IdsOf(all) \subseteq ms[a].uses /\ IdsOf(all) \cup left # {} /\ all # {}
        /\ IdsOf({r}) = {r.id}
    BY <1>1 DEF IdsOf
  <1>4. \A p, q \in all : p.id = q.id => p = q
    BY DEF IdsOf
  <1> HIDE DEF all, left
  <1>5. CASE rs = {}
    <2> DEFINE u == UserMsg({r}, <<>>)
    <2>1. a = Len(ms) /\ ms # <<>> /\ ~ EndsInUser(ms)
      BY <1>1, <1>2, <1>5 DEF EndsInUser
    <2>2. new = Append(ms, u)
      BY <2>1 DEF AppendUserTurn
    <2>3. /\ u \in Message /\ u.role = "user" /\ u.uses = {} /\ u.results = {r}
          /\ Known(u.texts)
      BY MessageTypes, TextTypes, TextsKnown DEF Message, UserMsg
    <2> HIDE DEF u, new
    <2>4. IdsOf(u.results) \subseteq ms[Len(ms)].uses /\ \A p, q \in u.results : p.id = q.id => p = q
      BY <1>1, <1>3, <2>1, <2>3
    <2>5. /\ Folded(new) /\ Len(new) = Len(ms) + 1 /\ new[Len(ms) + 1] = u
          /\ \A i \in 1..Len(ms) : new[i] = ms[i]
          /\ \A k : CallsUpTo(ms, k) /\ (\A id \in u.uses : id <= k) => CallsUpTo(new, k)
      BY <2>1, <2>2, <2>3, <2>4, AppendFolded
    <2>6. all = {r}
      BY <1>5 DEF all
    <2>7. a \in 1..Len(new) /\ new[a] = ms[a] /\ a + 1 = Len(new) /\ new[a + 1] = u
      BY <1>2, <2>1, <2>5
    <2>8. RoundAt(new, all, left)
      BY <1>1, <1>3, <2>3, <2>6, <2>7 DEF RoundAt
    <2> QED BY <2>3, <2>5, <2>8 DEF new, all, left
  <1>6. CASE rs # {}
    <2> DEFINE last == ms[Len(ms)]
               u == UserMsg(last.results \cup {r}, last.texts \o <<>>)
    <2>1. a + 1 = Len(ms) /\ last.role = "user" /\ last.results = rs /\ ms # <<>>
          /\ EndsInUser(ms) /\ Len(ms) > 1 /\ Len(ms) - 1 = a /\ last \in Message
      BY <1>1, <1>2, <1>6 DEF EndsInUser
    <2>2. new = [ms EXCEPT ![Len(ms)] = u]
      BY <2>1 DEF AppendUserTurn
    <2>3. last.texts \in Seq(Text) /\ last.results \cup {r} \in SUBSET Result
      BY <2>1, MessageShapes
    <2> HIDE DEF last
    <2>4. last.texts \o <<>> = last.texts
      <3> HIDE DEF Text
      <3> QED BY <2>3
    <2>5. /\ u \in UserMessage /\ u.role = "user" /\ u.uses = {} /\ u.texts = last.texts
          /\ u.results = all
      BY <2>1, <2>3, <2>4, MessageTypes DEF UserMsg, all
    <2> HIDE DEF u, new
    <2>6. IdsOf(u.results) \subseteq ms[Len(ms) - 1].uses
      BY <1>3, <2>1, <2>5
    <2>7. /\ Folded(new) /\ Len(new) = Len(ms) /\ new[Len(ms)] = u
          /\ \A i \in 1..Len(ms) - 1 : new[i] = ms[i]
          /\ \A k : CallsUpTo(ms, k) => CallsUpTo(new, k)
      <3>1. ms[Len(ms)].role = "user" /\ u.texts = ms[Len(ms)].texts
        BY <2>1, <2>5 DEF last
      <3>2. \A p, q \in u.results : p.id = q.id => p = q
        BY <1>4, <2>5
      <3>3. Folded(ms) /\ u \in UserMessage /\ u.uses = {} /\ Len(ms) > 1
        BY <2>1, <2>5
      <3>4. LET grown == [ms EXCEPT ![Len(ms)] = u]
            IN /\ Folded(grown) /\ Len(grown) = Len(ms) /\ Len(ms) \in Nat /\ grown[Len(ms)] = u
               /\ \A i \in 1..Len(ms) - 1 : grown[i] = ms[i]
               /\ \A k : CallsUpTo(ms, k) => CallsUpTo(grown, k)
        BY <2>6, <3>1, <3>2, <3>3, GrowFolded
      <3> QED BY <2>2, <3>4
    <2>8. a \in 1..Len(new) /\ new[a] = ms[a] /\ a + 1 = Len(new) /\ new[a + 1] = u
      BY <1>2, <2>1, <2>7
    <2>9. RoundAt(new, all, left)
      BY <1>1, <1>3, <2>5, <2>8 DEF RoundAt
    <2> QED BY <2>7, <2>9 DEF new, all, left
  <1> QED BY <1>5, <1>6

\* A call of the messages is below any later number too.
LEMMA CallsOlder ==
  ASSUME NEW ms \in Seq(Message), NEW k \in Nat, NEW n \in Nat, k <= n, CallsUpTo(ms, k)
  PROVE  CallsUpTo(ms, n)
  <1> SUFFICES ASSUME NEW i \in 1..Len(ms), NEW id \in ms[i].uses PROVE id <= n
    BY DEF CallsUpTo
  <1>1. ms[i] \in Message
    OBVIOUS
  <1>2. id \in Nat
    BY <1>1, MessageShapes
  <1>3. id <= k
    BY DEF CallsUpTo
  <1> QED BY <1>2, <1>3

\* A round without an open call at the end of the messages welcomes an answer.
LEMMA RoundWelcomes ==
  ASSUME NEW ms, ms \in Seq(Message), NEW rs, RoundAt(ms, rs, {})
  PROVE  ms # <<>> /\ Welcomes(ms, Len(ms))
  <1>1. PICK a \in 1..Len(ms) :
           /\ ms[a].role = "assistant" /\ ms[a].uses = IdsOf(rs) \cup {}
           /\ IF rs = {} THEN a = Len(ms)
              ELSE a + 1 = Len(ms) /\ ms[a+1].role = "user" /\ ms[a+1].results = rs
    BY DEF RoundAt
  <1>2. IdsOf(rs) # {} /\ ms[a].uses = IdsOf(rs)
    BY <1>1 DEF RoundAt
  <1>3. rs # {}
    BY <1>2 DEF IdsOf
  <1>4. Len(ms) \in Nat /\ ms # <<>> /\ Len(ms) > 1 /\ Len(ms) - 1 = a
    <2> HIDE DEF Message
    <2> QED BY <1>1, <1>3
  <1>5. ms[Len(ms)].role = "user" /\ ms[Len(ms)].results = rs
    BY <1>1, <1>3
  <1> QED BY <1>2, <1>4, <1>5 DEF Welcomes

\* Every step of the loop keeps what the log folds into fit to be restored.
LEMMA FoldKept ==
  ASSUME NEW X, log \in Seq(X), Record \subseteq X, IInv, FoldInv, LogGrows,
         minted' \in Nat, minted <= minted'
  PROVE  FoldInv'
  <1>1. /\ minted \in Nat /\ Folded(Fold) /\ CallsUpTo(Fold, minted) /\ Fold \in Seq(Message)
        /\ results \in SUBSET Result
    BY Numbers DEF IInv, LoopTypes, FoldInv, Folded
  <1>2. CallsUpTo(Fold, minted')
    BY <1>1, CallsOlder
  <1>3. /\ log \o <<>> = log
        /\ \A m \in Message : /\ log \o <<m>> = Append(log, m)
                              /\ FoldRecords(Append(log, m)) = Append(Fold, m)
        /\ \A m, u \in Message :
              FoldRecords(log \o (<<m>> \o <<u>>)) = Append(Append(Fold, m), u)
        /\ \A r \in Result : FoldRecords(Append(log, ResultRecord(r)))
                                = AppendUserTurn(Fold, {r}, <<>>)
    BY FoldSteps
  <1>4. UserMessage \subseteq Message /\ AssistantMessage \subseteq Message
    BY DEF Message
  <1>5. Fold' = FoldRecords(log')
    BY DEF Fold
  <1>6. pc \in Asking => Fold # <<>> /\ Welcomes(Fold, Len(Fold))
    BY DEF FoldInv
  <1>7. Asking \cap InRound = {} /\ "top" \notin InRound /\ "tools" \notin Asking
        /\ "unwinding" \notin Asking \cup InRound
    BY DEF Asking, InRound
  <1>a. ASSUME log' = log \/ log' = log \o <<>>,
               pc' \in Asking => pc \in Asking \cup {"gate"},
               pc' \in InRound => pc' = pc /\ UNCHANGED <<todo, results>>
        PROVE  FoldInv'
    <2>1. Fold' = Fold
      BY <1>3, <1>a DEF Fold
    <2>2. CASE pc' \in Asking
      <3>1. CASE pc \in Asking
        BY <1>1, <1>2, <1>6, <1>7, <2>1, <2>2, <3>1 DEF FoldInv
      <3>2. CASE pc = "gate"
        <4>1. RoundAt(Fold, results, {})
          BY <3>2 DEF FoldInv, IInv, InRound
        <4>2. Fold # <<>> /\ Welcomes(Fold, Len(Fold))
          BY <1>1, <4>1, RoundWelcomes
        <4> QED BY <1>1, <1>2, <1>7, <2>1, <2>2, <4>2 DEF FoldInv
      <3> QED BY <1>a, <2>2, <3>1, <3>2
    <2>3. CASE pc' \in InRound
      <3>1. pc \in InRound /\ todo' = todo /\ results' = results
        BY <1>a, <2>3
      <3>2. RoundAt(Fold, results, todo)
        BY <3>1 DEF FoldInv
      <3> QED BY <1>1, <1>2, <1>7, <2>1, <2>3, <3>1, <3>2 DEF FoldInv
    <2>4. CASE pc' \notin Asking \cup InRound
      BY <1>1, <1>2, <2>1, <2>4 DEF FoldInv
    <2> QED BY <2>2, <2>3, <2>4
  <1>b. ASSUME NEW u \in UserMessage, log' = Append(log, u) \/ log' = log \o <<u>>,
               Asks(u), pc' = "top"
        PROVE  FoldInv'
    <2>1. Fold' = Append(Fold, u)
      BY <1>3, <1>4, <1>5, <1>b
    <2>2. /\ Folded(Append(Fold, u)) /\ Append(Fold, u) # <<>>
          /\ Welcomes(Append(Fold, u), Len(Append(Fold, u)))
          /\ CallsUpTo(Append(Fold, u), minted')
      BY <1>1, <1>2, <1>b, AsksFolded
    <2> HIDE DEF Fold
    <2> QED BY <1>7, <1>b, <2>1, <2>2 DEF FoldInv
  <1>c. ASSUME NEW m \in AssistantMessage, m.uses = {}, Known(m.texts), pc \in Asking
        PROVE  /\ Folded(Append(Fold, m)) /\ CallsUpTo(Append(Fold, m), minted')
               /\ m \in Message
    <2>1. \A id \in m.uses : minted < id /\ id <= minted'
      BY <1>c
    <2> QED BY <1>1, <1>4, <1>6, <1>c, <2>1, AnswerFolded
  <1>d. ASSUME NEW m \in AssistantMessage, log' = log \o <<m>>, m.uses = {}, Known(m.texts),
               pc \in Asking, pc' = "unwinding"
        PROVE  FoldInv'
    <2>1. Fold' = Append(Fold, m)
      BY <1>3, <1>4, <1>5, <1>d
    <2>2. Folded(Append(Fold, m)) /\ CallsUpTo(Append(Fold, m), minted')
      BY <1>c, <1>d
    <2> QED BY <1>7, <1>d, <2>1, <2>2 DEF FoldInv
  <1>e. ASSUME NEW m \in AssistantMessage, NEW u \in UserMessage,
               log' = log \o (<<m>> \o <<u>>), m.uses = {}, Known(m.texts), Asks(u),
               pc \in Asking, pc' = "top"
        PROVE  FoldInv'
    <2> DEFINE new == Append(Fold, m)
    <2>1. Fold' = Append(new, u)
      BY <1>3, <1>4, <1>5, <1>e
    <2>2. Folded(new) /\ CallsUpTo(new, minted')
      BY <1>c, <1>e
    <2> HIDE DEF new
    <2>3. /\ Folded(Append(new, u)) /\ Append(new, u) # <<>>
          /\ Welcomes(Append(new, u), Len(Append(new, u)))
          /\ CallsUpTo(Append(new, u), minted')
      BY <1>e, <2>2, AsksFolded
    <2> QED BY <1>7, <1>e, <2>1, <2>3 DEF FoldInv
  <1>f. ASSUME NEW m \in AssistantMessage, log' = log \o <<m>>, m.uses = todo', results' = {},
               Known(m.texts), m.uses # {}, \A id \in m.uses : minted < id /\ id <= minted',
               pc \in Asking, pc' = "tools"
        PROVE  FoldInv'
    <2> DEFINE new == Append(Fold, m)
    <2>1. Fold' = new
      BY <1>3, <1>4, <1>5, <1>f
    <2>2. /\ Folded(new) /\ Len(new) \in 1..Len(new) /\ new[Len(new)] = m
          /\ CallsUpTo(new, minted')
      BY <1>1, <1>6, <1>f, AnswerFolded
    <2> HIDE DEF new
    <2>3. m.role = "assistant" /\ IdsOf({}) = {}
      BY DEF AssistantMessage, IdsOf
    <2>4. RoundAt(new, results', todo')
      BY <1>f, <2>2, <2>3 DEF RoundAt
    <2> QED BY <1>7, <1>f, <2>1, <2>2, <2>4 DEF FoldInv
  <1>g. ASSUME NEW r \in Result, pc = "tools", r.id \in todo, log' = Append(log, ResultRecord(r)),
               pc' \in InRound, results' = results \cup {r}, todo' = todo \ {r.id}
        PROVE  FoldInv'
    <2> DEFINE new == AppendUserTurn(Fold, {r}, <<>>)
    <2>1. Fold' = new
      BY <1>3, <1>5, <1>g
    <2>2. RoundAt(Fold, results, todo)
      BY <1>g DEF FoldInv, InRound
    <2>3. IdsOf(results) \cap todo = {} /\ \A p, q \in results : p.id = q.id => p = q
      BY <1>g DEF IInv, RoundInv
    <2>4. /\ Folded(new) /\ RoundAt(new, results \cup {r}, todo \ {r.id})
          /\ \A k : CallsUpTo(Fold, k) => CallsUpTo(new, k)
      BY <1>1, <1>g, <2>2, <2>3, ResultFolded
    <2> HIDE DEF new
    <2> QED BY <1>2, <1>7, <1>g, <2>1, <2>4 DEF FoldInv
  <1> QED BY <1>a, <1>b, <1>d, <1>e, <1>f, <1>g DEF LogGrows

\* No result of the messages the log folds into is a synthetic one.
FoldTrue == \A i \in 1..Len(Fold) : NoneAborted(Fold[i].results)

\* No result of the restored history is a synthetic one.
RestoredIsTrue == \A i \in 1..Len(Restored(log)) : NoneAborted(Restored(log)[i].results)

\* What happens between two entries of the log leaves the fold as it is.
LEMMA FoldStands ==
  ASSUME FoldInv, log' = log, minted' = minted, pc' \in Asking => pc \in Asking,
         pc' \in InRound => pc \in InRound /\ UNCHANGED <<todo, results>>
  PROVE  FoldInv'
  BY DEF FoldInv, Fold

\* An empty log folds into nothing.
LEMMA NothingFolds ==
  ASSUME log = <<>>, pc = "idle"
  PROVE  FoldInv /\ FoldTrue
  <1>1. Fold = <<>>
    <2>1. <<>> \in Seq({0}) /\ 0 \in {0}
      OBVIOUS
    <2>2. FoldRecords(<<>>) = <<>>
      BY <2>1, FoldsOn
    <2> QED BY <2>2 DEF Fold
  <1>2. <<>> \in Seq(Message)
    OBVIOUS
  <1>3. pc \notin Asking \cup InRound
    BY DEF Asking, InRound
  <1> QED BY <1>1, <1>2, <1>3
          DEF FoldInv, FoldTrue, Folded, ResultsAnswer, DistinctCalls, CallsUpTo

\* The loop logs no synthetic result.
LEMMA FoldTrueKept ==
  ASSUME NEW X, log \in Seq(X), Record \subseteq X, Fold \in Seq(Message), FoldTrue, LogGrows
  PROVE  FoldTrue'
  <1>1. /\ log \o <<>> = log
        /\ \A m \in Message : /\ log \o <<m>> = Append(log, m)
                              /\ FoldRecords(Append(log, m)) = Append(Fold, m)
        /\ \A m, u \in Message :
              FoldRecords(log \o (<<m>> \o <<u>>)) = Append(Append(Fold, m), u)
        /\ \A r \in Result : FoldRecords(Append(log, ResultRecord(r)))
                                = AppendUserTurn(Fold, {r}, <<>>)
    BY FoldSteps
  <1>2. /\ \A m \in AssistantMessage : m \in Message /\ NoneAborted(m.results)
        /\ \A u \in UserMessage : u \in Message /\ (Asks(u) => NoneAborted(u.results))
    BY DEF Message, AssistantMessage, UserMessage, NoneAborted, Asks
  <1>3. Fold' = FoldRecords(log')
    BY DEF Fold
  <1>4. ASSUME NEW ms \in Seq(Message), NEW m \in Message, NoneAborted(m.results),
               \A i \in 1..Len(ms) : NoneAborted(ms[i].results)
        PROVE  /\ Append(ms, m) \in Seq(Message)
               /\ \A i \in 1..Len(Append(ms, m)) : NoneAborted(Append(ms, m)[i].results)
    <2> DEFINE new == Append(ms, m)
    <2> HIDE DEF Message
    <2>1. /\ new \in Seq(Message)
          /\ \A i \in 1..Len(new) : (i \in 1..Len(ms) /\ new[i] = ms[i]) \/ new[i] = m
      OBVIOUS
    <2> HIDE DEF new
    <2>2. \A i \in 1..Len(new) : NoneAborted(new[i].results)
      BY <1>4, <2>1
    <2> QED BY <2>1, <2>2 DEF new
  <1>5. \A i \in 1..Len(Fold) : NoneAborted(Fold[i].results)
    BY DEF FoldTrue
  <1>6. FoldTrue' <=> \A i \in 1..Len(Fold') : NoneAborted(Fold'[i].results)
    BY DEF FoldTrue
  <1> HIDE DEF Fold, FoldTrue
  <1>a. CASE log' = log \/ log' = log \o <<>>
    <2>1. Fold' = Fold
      BY <1>1, <1>3, <1>a DEF Fold
    <2> QED BY <1>5, <1>6, <2>1
  <1>b. CASE \E u \in UserMessage : (log' = Append(log, u) \/ log' = log \o <<u>>) /\ Asks(u)
    <2>1. PICK u \in UserMessage : Fold' = Append(Fold, u) /\ Asks(u)
      BY <1>1, <1>2, <1>3, <1>b
    <2> QED BY <1>2, <1>4, <1>5, <1>6, <2>1
  <1>c. CASE \E m \in AssistantMessage : log' = log \o <<m>>
    <2>1. PICK m \in AssistantMessage : Fold' = Append(Fold, m)
      BY <1>1, <1>2, <1>3, <1>c
    <2> QED BY <1>2, <1>4, <1>5, <1>6, <2>1
  <1>d. CASE \E m \in AssistantMessage, u \in UserMessage :
                log' = log \o (<<m>> \o <<u>>) /\ Asks(u)
    <2>1. PICK m \in AssistantMessage, u \in UserMessage :
             Fold' = Append(Append(Fold, m), u) /\ Asks(u)
      BY <1>1, <1>2, <1>3, <1>d
    <2>2. /\ Append(Fold, m) \in Seq(Message)
          /\ \A i \in 1..Len(Append(Fold, m)) : NoneAborted(Append(Fold, m)[i].results)
      BY <1>2, <1>4, <1>5
    <2> QED BY <1>2, <1>4, <1>6, <2>1, <2>2
  <1>e. CASE \E r \in Result : r.outcome # "aborted" /\ log' = Append(log, ResultRecord(r))
    <2>1. PICK r \in Result :
             r.outcome # "aborted" /\ Fold' = AppendUserTurn(Fold, {r}, <<>>)
      BY <1>1, <1>3, <1>e
    <2>2. {r} \in SUBSET Result /\ NoneAborted({r})
      BY <2>1 DEF NoneAborted
    <2>3. <<>> \in Seq(Text)
      OBVIOUS
    <2>4. LET new == AppendUserTurn(Fold, {r}, <<>>)
          IN \A i \in 1..Len(new) : NoneAborted(new[i].results)
      BY <1>5, <2>2, <2>3, UserTurnWhole
    <2> QED BY <1>6, <2>1, <2>4
  <1> QED BY <1>a, <1>b, <1>c, <1>d, <1>e DEF LogGrows

\* What the log restores to, of a fold fit for it.
LEMMA FoldInvRestores ==
  ASSUME FoldInv, minted \in Nat
  PROVE  /\ RestoredIsResumable /\ Fit(Restored(log))
         /\ FoldTrue => RestoredIsTrue
  <1>1. Folded(FoldRecords(log)) /\ HandedOut(FoldRecords(log))
    BY DEF FoldInv, Fold, CallsUpTo, HandedOut
  <1>2. RestoredIsResumable
    BY <1>1, FoldedRestores
  <1>3. RestoreOf(Restored(log), FoldRecords(log))
    BY <1>1, RestoredWhole
  <1>4. Fit(Restored(log))
    BY <1>3 DEF RestoreOf
  <1>5. ASSUME FoldTrue, NEW i \in 1..Len(Restored(log))
        PROVE  NoneAborted(Restored(log)[i].results)
    <2> DEFINE r == Restored(log)
    <2>1. PICK j \in 1..Len(Fold) : r[i].results \subseteq Fold[j].results
      BY <1>3 DEF RestoreOf, Stems, Fold
    <2> HIDE DEF r
    <2>2. NoneAborted(r[i].results)
      BY <1>5, <2>1 DEF FoldTrue, NoneAborted
    <2> QED BY <2>2 DEF r
  <1> QED BY <1>2, <1>4, <1>5 DEF RestoredIsTrue

-----------------------------------------------------------------------------
(* A process that dies and is resumed                                       *)

\* A dead process has no history, which may be resumed.
LEMMA CrashInv ==
  ASSUME IInv, Crash
  PROVE  IInv'
  <1>1. messages' = <<>> /\ pc' = "down"
    BY DEF Crash
  <1>2. <<>> \in Seq(Message) /\ Resumable(<<>>)
    BY DEF Resumable, CallsAnswered, ResultsAnswer, AnswersFollowUsers
  <1>3. active' \in 0..NumModes
    BY BoundsAssumption DEF Crash
  <1>5. LoopTypes'
    <2>1. /\ ResetLoop /\ outcome' = "ok" /\ aborted' = "none" /\ marker' = "none"
          /\ UNCHANGED <<minted, runs, toggles>> /\ advertised' = 0
      BY DEF Crash
    <2>2. LoopTypes
      BY DEF IInv
    <2> QED BY <1>1, <1>2, <1>3, <2>1, <2>2, ResetTypes DEF LoopTypes, Places
  <1> QED BY <1>1, <1>2, <1>5 DEF IInv

\* What the restore hands over may be resumed.
LEMMA RestartInv ==
  ASSUME IInv, Restart, RestoredIsResumable
  PROVE  IInv'
  <1> DEFINE ms == Restored(log)
  <1>1. /\ ms \in Seq(Message) /\ LastAnnounced(ms) \in 0..NumModes
        /\ CallsAnswered(ms, Len(ms)) /\ ResultsAnswer(ms) /\ AnswersFollowUsers(ms)
    BY DEF RestoredIsResumable, Alternates
  <1>2. /\ messages' = ms /\ advertised' = LastAnnounced(ms) /\ pc' = "idle"
        /\ UNCHANGED <<content, todo, results, salvage, rounds, cutStreak, fullStreak,
                       outcome, aborted, marker, active, toggles, minted, runs>>
    BY DEF Restart, loop
  <1> HIDE DEF ms
  <1>3. Resumable(ms)
    <2>1. Len(ms) \in Nat
      BY <1>1
    <2> QED BY <1>1, <2>1 DEF Resumable, CallsAnswered
  <1>4. advertised' \in Nat
    BY <1>1, <1>2, Numbers
  <1>5. LoopTypes'
    BY <1>1, <1>2, <1>4 DEF IInv, LoopTypes, Places
  <1> QED BY <1>1, <1>2, <1>3, <1>5 DEF IInv

\* Every step of a session preserves the loop's invariant.
LEMMA SessionInv ==
  ASSUME IInv, pc = "down" => RestoredIsResumable, [SessionNext]_sessionVars
  PROVE  IInv'
  <1>1. CASE [Next]_vars
    BY <1>1, NextInv
  <1>2. CASE Crash
    BY <1>2, CrashInv
  <1>3. CASE Restart
    BY <1>3, RestartInv DEF Restart
  <1> QED BY <1>1, <1>2, <1>3 DEF SessionNext, sessionVars

\* Every step of a session preserves the invariants of the loop, of its log, and
\* of what the log folds into; so the log of a dead process restores.
LEMMA SessionStepInv ==
  ASSUME IInv, LogInv, FoldInv, [SessionNext]_sessionVars
  PROVE  IInv' /\ LogInv' /\ FoldInv'
  <1>1. IInv'
    <2>1. RestoredIsResumable
      BY FoldInvRestores DEF IInv, LoopTypes
    <2> QED BY <2>1, SessionInv
  <1>2. log \in Seq(Record) /\ Record \subseteq Record
    BY DEF LogInv
  <1>3. CASE [Next]_vars
    <2>1. LogInv'
      BY <1>3, LogKept
    <2>2. minted' \in Nat /\ minted <= minted' /\ LogGrows
      BY <1>1, <1>3, StepGrows, StepPlaces DEF IInv, LoopTypes
    <2>3. FoldInv'
      BY <1>2, <2>2, FoldKept
    <2> QED BY <1>1, <2>1, <2>3
  <1>4. CASE Crash \/ Restart
    <2>1. /\ log' = log /\ minted' = minted /\ pc' \notin Asking \cup InRound
      BY <1>4 DEF Crash, Restart, Asking, InRound
    <2>2. FoldInv'
      BY <2>1, FoldStands
    <2>3. LogInv'
      BY <2>1 DEF LogInv, RoundIsLogged, InRound
    <2> QED BY <1>1, <2>2, <2>3
  <1> QED BY <1>3, <1>4 DEF SessionNext, sessionVars

\* The invariants of a session hold, however often its process dies.
LEMMA SessionInvariance == SessionSpec => [](IInv /\ LogInv /\ FoldInv)
  <1>1. SessionInit => IInv /\ LogInv /\ FoldInv
    BY InitInv, NothingFolds DEF SessionInit, Init, LogInv, Ordered, RoundIsLogged
  <1>2. IInv /\ LogInv /\ FoldInv /\ [SessionNext]_sessionVars => IInv' /\ LogInv' /\ FoldInv'
    BY SessionStepInv
  <1> QED BY <1>1, <1>2, PTL DEF SessionSpec

\* Whenever the process dies, what its log restores to is a history a run can
\* be started on: no answer with an open call, no stray result, no call twice
\* or still to be handed out, roles alternating.
THEOREM SessionRestores == SessionSpec => []RestoredIsResumable
  <1>1. IInv /\ FoldInv => RestoredIsResumable
    BY FoldInvRestores DEF IInv, LoopTypes
  <1> QED BY <1>1, SessionInvariance, PTL

\* However often the process dies, no request of the session is invalid.
THEOREM SessionSendValid == SessionSpec => []SendIsValid
  <1>1. IInv => SendIsValid
    BY ResumableSendable DEF IInv, LoopTypes, SendIsValid
  <1> QED BY <1>1, SessionInvariance, PTL

\* However often the process dies, each result in the session's log follows
\* its answer with only other results of that answer between.
THEOREM SessionLogOrdered == SessionSpec => []LogIsOrdered
  <1>1. LogInv => LogIsOrdered
    BY DEF LogInv, Ordered, Follows, LogIsOrdered
  <1> QED BY <1>1, SessionInvariance, PTL

-----------------------------------------------------------------------------
(* What sliceTail keeps                                                     *)

\* t is the part of ms behind its first n messages, or the start of that part.
Slice(t, ms, n) ==
    /\ t \in Seq(Message) /\ n \in Nat /\ n + Len(t) <= Len(ms)
    /\ \A i \in 1..Len(t) : t[i] = ms[n + i]

\* Nothing is cut off the end.
ToEnd(t, ms, n) == n + Len(t) = Len(ms)

\* A subsequence is a slice.
LEMMA SubSeqSlice ==
  ASSUME NEW ms \in Seq(Message), NEW a \in 1..Len(ms) + 1, NEW b \in 0..Len(ms), a - 1 <= b
  PROVE  Slice(SubSeq(ms, a, b), ms, a - 1) /\ Len(SubSeq(ms, a, b)) = b - (a - 1)
  <1> HIDE DEF Message
  <1> DEFINE t == SubSeq(ms, a, b)
  <1>1. /\ t \in Seq(Message) /\ Len(t) = b - (a - 1) /\ a - 1 \in Nat
        /\ (a - 1) + Len(t) <= Len(ms)
    OBVIOUS
  <1>2. \A i \in 1..Len(t) : t[i] = ms[(a - 1) + i]
    OBVIOUS
  <1> HIDE DEF t
  <1>3. Slice(t, ms, a - 1)
    BY <1>1, <1>2 DEF Slice
  <1> QED BY <1>1, <1>3 DEF t

\* A slice of a slice is a slice.
LEMMA SliceSlice ==
  ASSUME NEW ms \in Seq(Message), NEW s, NEW t, NEW m, NEW n, Slice(s, ms, m), Slice(t, s, n)
  PROVE  Slice(t, ms, m + n)
  <1>1. /\ s \in Seq(Message) /\ m \in Nat /\ m + Len(s) <= Len(ms)
        /\ t \in Seq(Message) /\ n \in Nat /\ n + Len(t) <= Len(s)
        /\ Len(s) \in Nat /\ Len(t) \in Nat /\ Len(ms) \in Nat
    BY DEF Slice
  <1>2. m + n \in Nat /\ (m + n) + Len(t) <= Len(ms)
    BY <1>1
  <1>3. ASSUME NEW i \in 1..Len(t) PROVE t[i] = ms[(m + n) + i]
    <2>1. n + i \in 1..Len(s) /\ m + (n + i) = (m + n) + i
      BY <1>1
    <2>2. t[i] = s[n + i] /\ s[n + i] = ms[m + (n + i)]
      BY <2>1 DEF Slice
    <2> QED BY <2>1, <2>2
  <1> QED BY <1>1, <1>2, <1>3 DEF Slice

\* The last n messages are a slice to the end.
LEMMA LastOfSlice ==
  ASSUME NEW ms \in Seq(Message), NEW n \in Nat
  PROVE  \E a \in Nat : Slice(LastOf(ms, n), ms, a) /\ ToEnd(LastOf(ms, n), ms, a)
  <1> DEFINE k == Len(ms) - n + 1
             a == IF k > 1 THEN k ELSE 1
  <1>1. Len(ms) \in Nat
    OBVIOUS
  <1>2. a \in 1..Len(ms) + 1 /\ a \in {1, k} /\ a >= 1 /\ a >= k
    BY <1>1
  <1>3. \A x \in {1, k} : (x >= 1 /\ x >= k) => x = a
    BY <1>1
  <1> HIDE DEF a
  <1>4. Max({1, k}) = a
    BY <1>2, <1>3 DEF Max
  <1>5. LastOf(ms, n) = SubSeq(ms, a, Len(ms))
    BY <1>4 DEF LastOf
  <1>6. a - 1 \in Nat /\ a - 1 <= Len(ms) /\ Len(ms) \in 0..Len(ms)
    BY <1>1, <1>2
  <1>7. /\ Slice(LastOf(ms, n), ms, a - 1)
        /\ Len(LastOf(ms, n)) = Len(ms) - (a - 1)
    BY <1>2, <1>5, <1>6, SubSeqSlice
  <1>8. ToEnd(LastOf(ms, n), ms, a - 1)
    BY <1>1, <1>6, <1>7 DEF ToEnd
  <1> QED BY <1>6, <1>7, <1>8

\* What is left without the open end is a slice from the start, and everything
\* if the last message calls nothing.
LEMMA WithoutOpenEndSlice ==
  ASSUME NEW ms \in Seq(Message)
  PROVE  /\ Slice(WithoutOpenEnd(ms), ms, 0)
         /\ (ms # <<>> => ms[Len(ms)].uses = {}) => ToEnd(WithoutOpenEnd(ms), ms, 0)
  <1> DEFINE S == {0} \cup {n \in DOMAIN ms : ms[n].uses \subseteq ResultsIn(ms)}
             b == Max(S)
  <1>0. Len(ms) \in Nat
    OBVIOUS
  <1>1. Len(ms) \in Nat /\ DOMAIN ms = 1..Len(ms)
    OBVIOUS
  <1>2. S \in SUBSET (0..Len(ms)) /\ S # {}
    BY <1>1
  <1>3. ms # <<>> /\ ms[Len(ms)].uses = {} => Len(ms) \in S
    <2>1. ms # <<>> => Len(ms) \in DOMAIN ms
      BY <1>1
    <2> QED BY <2>1
  <1>4. ms = <<>> => Len(ms) \in S
    BY <1>1
  <1> HIDE DEF S
  <1>5. b \in S /\ \A y \in S : y <= b
    BY <1>1, <1>2, GreatestExists
  <1>7. WithoutOpenEnd(ms) = SubSeq(ms, 1, b)
    BY DEF WithoutOpenEnd, S
  <1> HIDE DEF b
  <1>6. b \in 0..Len(ms) /\ (Len(ms) \in S => b = Len(ms))
    <2>1. b \in 0..Len(ms)
      BY <1>2, <1>5
    <2>2. Len(ms) \in S => Len(ms) <= b
      BY <1>5
    <2> QED BY <1>0, <2>1, <2>2
  <1>8. /\ Slice(WithoutOpenEnd(ms), ms, 1 - 1)
        /\ Len(WithoutOpenEnd(ms)) = b - (1 - 1)
    <2>1. 1 \in 1..Len(ms) + 1 /\ 1 - 1 <= b
      BY <1>0, <1>6
    <2> QED BY <1>6, <1>7, <2>1, SubSeqSlice
  <1>9. Slice(WithoutOpenEnd(ms), ms, 0) /\ Len(WithoutOpenEnd(ms)) = b
    BY <1>6, <1>8
  <1>10. Len(ms) \in S => ToEnd(WithoutOpenEnd(ms), ms, 0)
    BY <1>0, <1>6, <1>9 DEF ToEnd
  <1> QED BY <1>3, <1>4, <1>9, <1>10

\* What is whole from its start is a slice to the end, or empty, and its first
\* message has its counterpart in it.
LEMMA WholeFromStartSlice ==
  ASSUME NEW ms \in Seq(Message)
  PROVE  \E a \in Nat :
            /\ Slice(WholeFromStart(ms), ms, a)
            /\ WholeFromStart(ms) # <<>> =>
                  /\ ToEnd(WholeFromStart(ms), ms, a)
                  /\ Paired(WholeFromStart(ms)[1], WholeFromStart(ms))
  <1> DEFINE starts == {n \in DOMAIN ms : Paired(ms[n], SubSeq(ms, n, Len(ms)))}
             a == Min(starts)
             t == SubSeq(ms, a, Len(ms))
  <1>1. Len(ms) \in Nat /\ DOMAIN ms = 1..Len(ms)
    OBVIOUS
  <1>2. CASE starts = {}
    <2>1. WholeFromStart(ms) = <<>>
      BY <1>2 DEF WholeFromStart
    <2>2. Slice(<<>>, ms, 0)
      BY <1>1 DEF Slice
    <2> QED BY <2>1, <2>2
  <1>3. CASE starts # {}
    <2>1. WholeFromStart(ms) = t
      BY <1>3 DEF WholeFromStart
    <2>2. starts \in SUBSET Nat
      BY <1>1
    <2>3. a \in starts
      BY <1>3, <2>2, LeastExists
    <2>4. a \in 1..Len(ms) /\ Paired(ms[a], t)
      BY <1>1, <2>3
    <2> HIDE DEF a, starts
    <2>5. /\ a \in 1..Len(ms) + 1 /\ a - 1 <= Len(ms) /\ Len(ms) \in 0..Len(ms)
          /\ a - 1 \in Nat
      BY <1>1, <2>4
    <2>6. Slice(t, ms, a - 1) /\ Len(t) = Len(ms) - (a - 1)
      BY <2>5, SubSeqSlice
    <2> HIDE DEF t
    <2>7. ToEnd(t, ms, a - 1)
      BY <1>1, <2>5, <2>6 DEF ToEnd
    <2>8. t[1] = ms[a]
      <3>1. 1 \in 1..Len(t) /\ (a - 1) + 1 = a
        BY <1>1, <2>4, <2>6
      <3> QED BY <2>6, <3>1 DEF Slice
    <2> QED BY <2>1, <2>4, <2>5, <2>6, <2>7, <2>8
  <1> QED BY <1>2, <1>3

\* A slice keeps what every message, and every two neighbours, are known for.
LEMMA SliceFacts ==
  ASSUME NEW ms \in Seq(Message), NEW t, NEW n, Slice(t, ms, n)
  PROVE  /\ t \in Seq(Message) /\ Len(t) \in Nat /\ n \in Nat
         /\ \A i \in 1..Len(t) : n + i \in 1..Len(ms) /\ t[i] = ms[n + i]
         /\ \A i \in 2..Len(t) : /\ n + i \in 1..Len(ms) /\ n + i > 1
                                 /\ t[i-1] = ms[(n + i) - 1]
         /\ \A i \in 1..Len(t) - 1 : /\ n + i \in 1..Len(ms) - 1
                                     /\ t[i+1] = ms[(n + i) + 1]
         /\ t # <<>> /\ ToEnd(t, ms, n) => t[Len(t)] = ms[Len(ms)] /\ ms # <<>>
  <1>1. /\ t \in Seq(Message) /\ n \in Nat /\ n + Len(t) <= Len(ms)
        /\ Len(t) \in Nat /\ Len(ms) \in Nat
    BY DEF Slice
  <1>2. \A i \in 1..Len(t) : n + i \in 1..Len(ms) /\ t[i] = ms[n + i]
    BY <1>1 DEF Slice
  <1>3. ASSUME NEW i \in 2..Len(t)
        PROVE  n + i \in 1..Len(ms) /\ n + i > 1 /\ t[i-1] = ms[(n + i) - 1]
    <2>1. i - 1 \in 1..Len(t) /\ n + (i - 1) = (n + i) - 1 /\ n + i > 1 /\ i \in 1..Len(t)
      BY <1>1
    <2> QED BY <1>2, <2>1
  <1>4. ASSUME NEW i \in 1..Len(t) - 1
        PROVE  n + i \in 1..Len(ms) - 1 /\ t[i+1] = ms[(n + i) + 1]
    <2>1. i + 1 \in 1..Len(t) /\ n + (i + 1) = (n + i) + 1 /\ n + i \in 1..Len(ms) - 1
      BY <1>1
    <2> QED BY <1>2, <2>1
  <1>5. ASSUME t # <<>>, ToEnd(t, ms, n) PROVE t[Len(t)] = ms[Len(ms)] /\ ms # <<>>
    <2>1. Len(t) > 0
      <3> HIDE DEF Message
      <3> QED BY <1>1, <1>5
    <2>2. Len(t) \in 1..Len(t) /\ n + Len(t) = Len(ms) /\ Len(ms) > 0
      BY <1>1, <1>5, <2>1 DEF ToEnd
    <2> QED BY <1>2, <2>2
  <1> QED BY <1>1, <1>2, <1>3, <1>4, <1>5

\* The tail of a history that may be resumed starts without results, and goes
\* to the end if the history's last message calls nothing.
LEMMA SliceTailSlice ==
  ASSUME NEW ms \in Seq(Message), Resumable(ms), DistinctCalls(ms), NEW keep \in Nat
  PROVE  \E n \in Nat :
            /\ Slice(SliceTail(ms, keep), ms, n)
            /\ SliceTail(ms, keep) # <<>> =>
                  /\ SliceTail(ms, keep)[1].results = {}
                  /\ (ms # <<>> => ms[Len(ms)].uses = {}) => ToEnd(SliceTail(ms, keep), ms, n)
  <1> DEFINE s == LastOf(ms, keep)
             w == WithoutOpenEnd(s)
             t == WholeFromStart(w)
  <1>1. PICK a \in Nat : Slice(s, ms, a) /\ ToEnd(s, ms, a)
    BY LastOfSlice
  <1> HIDE DEF s
  <1>2. s \in Seq(Message)
    BY <1>1 DEF Slice
  <1>3. Slice(w, s, 0) /\ ((s # <<>> => s[Len(s)].uses = {}) => ToEnd(w, s, 0))
    BY <1>2, WithoutOpenEndSlice
  <1> HIDE DEF w
  <1>4. w \in Seq(Message)
    BY <1>3 DEF Slice
  <1>5. PICK b \in Nat : /\ Slice(t, w, b)
                         /\ t # <<>> => ToEnd(t, w, b) /\ Paired(t[1], t)
    BY <1>4, WholeFromStartSlice
  <1> HIDE DEF t
  <1>6. SliceTail(ms, keep) = t
    BY DEF SliceTail, s, w, t
  <1>7. Slice(t, s, 0 + b)
    BY <1>2, <1>3, <1>5, SliceSlice
  <1>8. Slice(t, ms, a + (0 + b))
    BY <1>1, <1>7, SliceSlice
  <1> DEFINE n == a + (0 + b)
  <1>9. n \in Nat /\ n = a + b
    OBVIOUS
  <1> HIDE DEF n
  <1>10. Slice(t, ms, n)
    BY <1>8 DEF n
  <1>11. ASSUME t # <<>>, ms # <<>> => ms[Len(ms)].uses = {}
         PROVE  ToEnd(t, ms, n)
    <2>1. s # <<>> => s[Len(s)].uses = {}
      BY <1>1, <1>11, SliceFacts
    <2>2. ToEnd(w, s, 0) /\ ToEnd(t, w, b)
      BY <1>3, <1>5, <1>11, <2>1
    <2>3. Len(t) \in Nat /\ Len(w) \in Nat /\ Len(s) \in Nat /\ Len(ms) \in Nat
      BY <1>2, <1>4, <1>5 DEF Slice
    <2> QED BY <1>1, <1>9, <2>2, <2>3 DEF ToEnd
  <1>12. \A i \in 1..Len(t) : n + i \in 1..Len(ms) /\ t[i] = ms[n + i]
    BY <1>10, SliceFacts
  <1>13. ASSUME t # <<>> PROVE t[1].results = {}
    <2> SUFFICES ASSUME NEW r \in t[1].results PROVE FALSE
      OBVIOUS
    <2>1. t \in Seq(Message) /\ Len(t) \in Nat /\ Len(t) > 0
      <3>1. t \in Seq(Message)
        BY <1>10 DEF Slice
      <3> HIDE DEF Message
      <3> QED BY <1>13, <3>1
    <2>2. n + 1 \in 1..Len(ms) /\ t[1] = ms[n + 1]
      <3>1. 1 \in 1..Len(t)
        BY <2>1
      <3> QED BY <1>12, <3>1
    <2>3. n + 1 > 1 /\ IdsOf(ms[n + 1].results) \subseteq ms[(n + 1) - 1].uses
      BY <2>2 DEF Resumable, ResultsAnswer
    <2>4. r.id \in ms[n].uses /\ n \in 1..Len(ms)
      <3>1. r.id \in IdsOf(ms[n + 1].results)
        BY <2>2 DEF IdsOf
      <3>2. (n + 1) - 1 = n /\ n \in 1..Len(ms)
        BY <1>9, <2>2, <2>3
      <3> QED BY <2>3, <3>1, <3>2
    <2>5. r.id \in CallsIn(t)
      BY <1>5, <1>13 DEF Paired, IdsOf
    <2>6. PICK i \in 1..Len(t) : r.id \in t[i].uses
      BY <2>1, <2>5 DEF CallsIn
    <2>7. n + i \in 1..Len(ms) /\ t[i] = ms[n + i]
      BY <1>12
    <2>8. n + i # n
      BY <1>9, <2>1
    <2> QED BY <2>4, <2>6, <2>7, <2>8 DEF DistinctCalls
  <1> QED BY <1>6, <1>9, <1>10, <1>11, <1>13

\* The checkpoint's message is a user message.
LEMMA CheckpointTypes ==
  ASSUME NEW n \in Nat
  PROVE  /\ UserMsg({}, <<Checkpoint(n)>>) \in UserMessage
         /\ UserMsg({}, <<Checkpoint(n)>>) \in Message
         /\ UserMsg({}, <<Checkpoint(n)>>).role = "user"
         /\ UserMsg({}, <<Checkpoint(n)>>).uses = {}
         /\ UserMsg({}, <<Checkpoint(n)>>).results = {}
  <1>1. <<Checkpoint(n)>> \in Seq(Text)
    BY DEF Checkpoint, Text, TextKinds
  <1>2. UserMsg({}, <<Checkpoint(n)>>) \in UserMessage
    BY <1>1, MessageTypes
  <1> QED BY <1>2 DEF Message, UserMsg

\* Checkpoints are numbered.
LEMMA CheckpointsTypes ==
  ASSUME log \in Seq(Record \cup CompactRecords)
  PROVE  Checkpoints + 1 \in Nat
  <1> DEFINE S == {i \in DOMAIN log : log[i].role = "compact"}
  <1>1. DOMAIN log = 1..Len(log) /\ Len(log) \in Nat
    OBVIOUS
  <1>2. IsFiniteSet(1..Len(log)) /\ S \subseteq 1..Len(log)
    BY <1>1, FS_Interval
  <1> HIDE DEF S
  <1>3. Cardinality(S) \in Nat
    BY <1>2, FS_Subset, FS_CardinalityType
  <1> QED BY <1>3 DEF Checkpoints, S

\* A slice without results at its start may follow a user message without any.
LEMMA PrependResumable ==
  ASSUME NEW ms \in Seq(Message), Resumable(ms), NEW t, NEW n, Slice(t, ms, n),
         t # <<>> => t[1].results = {}, NEW c \in UserMessage, c.results = {}
  PROVE  /\ <<c>> \o t \in Seq(Message) /\ Resumable(<<c>> \o t)
         /\ Len(<<c>> \o t) = Len(t) + 1 /\ (<<c>> \o t)[1] = c
         /\ \A i \in 1..Len(t) : (<<c>> \o t)[i + 1] = t[i]
  <1> DEFINE new == <<c>> \o t
  <1>1. /\ t \in Seq(Message) /\ Len(t) \in Nat
        /\ c \in Message /\ c.role = "user" /\ c.uses = {}
    BY DEF Slice, Message, UserMessage
  <1>2. /\ new \in Seq(Message) /\ Len(new) = Len(t) + 1 /\ new[1] = c
        /\ \A i \in 1..Len(t) : new[i + 1] = t[i]
    <2> HIDE DEF Message, UserMessage
    <2> QED BY <1>1
  <1> HIDE DEF new
  <1>3. \A i \in 2..Len(new) : i - 1 \in 1..Len(t) /\ new[i] = t[i - 1]
    <2> TAKE i \in 2..Len(new)
    <2>1. i - 1 \in 1..Len(t) /\ (i - 1) + 1 = i
      BY <1>1, <1>2
    <2> QED BY <1>2, <2>1
  <1>4. CallsAnswered(new, Len(new) - 1)
    <2> SUFFICES ASSUME NEW i \in 1..Len(new) - 1, new[i].uses # {}
                 PROVE  /\ i < Len(new) /\ new[i+1].role = "user"
                        /\ new[i].uses \subseteq IdsOf(new[i+1].results)
      BY DEF CallsAnswered
    <2>1. i # 1
      BY <1>1, <1>2
    <2>2. i \in 2..Len(new) /\ i - 1 \in 1..Len(t) - 1 /\ i < Len(new) /\ (i - 1) + 1 = i
      BY <1>1, <1>2, <2>1
    <2>3. new[i] = t[i - 1] /\ new[i+1] = t[i]
      BY <1>2, <1>3, <2>2
    <2>4. /\ n + (i - 1) \in 1..Len(ms) - 1
          /\ t[i - 1] = ms[n + (i - 1)] /\ t[i] = ms[(n + (i - 1)) + 1]
      <3>1. i - 1 \in 1..Len(t)
        BY <1>3, <2>2
      <3> QED BY <2>2, <3>1, SliceFacts
    <2>5. /\ ms[(n + (i - 1)) + 1].role = "user"
          /\ ms[n + (i - 1)].uses \subseteq IdsOf(ms[(n + (i - 1)) + 1].results)
      BY <2>3, <2>4 DEF Resumable, CallsAnswered
    <2> QED BY <2>2, <2>3, <2>4, <2>5
  <1>5. \A i \in 2..Len(t) :
           /\ n + i \in 1..Len(ms) /\ n + i > 1
           /\ t[i] = ms[n + i] /\ t[i - 1] = ms[(n + i) - 1]
    <2> TAKE i \in 2..Len(t)
    <2>1. i \in 1..Len(t)
      BY <1>1
    <2> QED BY <2>1, SliceFacts
  <1>6. ResultsAnswer(new)
    <2> SUFFICES ASSUME NEW i \in 1..Len(new)
                 PROVE  /\ new[i].results # {} =>
                              i > 1 /\ IdsOf(new[i].results) \subseteq new[i-1].uses
                        /\ \A r, s \in new[i].results : r.id = s.id => r = s
      BY DEF ResultsAnswer
    <2>1. CASE i = 1
      BY <1>2, <2>1
    <2>2. CASE i = 2
      <3>1. Len(t) > 0 /\ i - 1 = 1 /\ i \in 2..Len(new)
        BY <1>1, <1>2, <2>2
      <3>2. t # <<>>
        BY <3>1
      <3>3. new[i] = t[1]
        BY <1>3, <3>1
      <3> QED BY <3>2, <3>3
    <2>3. CASE i \in 3..Len(new)
      <3>1. i - 1 \in 2..Len(t) /\ i \in 2..Len(new) /\ i - 1 \in 2..Len(new) /\ i > 1
        BY <1>1, <1>2, <2>3
      <3> DEFINE j == n + (i - 1)
      <3>2. /\ new[i] = ms[j] /\ new[i - 1] = ms[j - 1] /\ j \in 1..Len(ms)
        BY <1>3, <1>5, <3>1
      <3> HIDE DEF j
      <3>3. /\ ms[j].results # {} => j > 1 /\ IdsOf(ms[j].results) \subseteq ms[j-1].uses
            /\ \A r, s \in ms[j].results : r.id = s.id => r = s
        BY <3>2 DEF Resumable, ResultsAnswer
      <3> QED BY <3>1, <3>2, <3>3
    <2>4. i = 1 \/ i = 2 \/ i \in 3..Len(new)
      BY <1>1, <1>2
    <2> QED BY <2>1, <2>2, <2>3, <2>4
  <1>7. AnswersFollowUsers(new)
    <2> SUFFICES ASSUME NEW i \in 1..Len(new), new[i].role = "assistant"
                 PROVE  i > 1 /\ new[i-1].role = "user"
      BY DEF AnswersFollowUsers
    <2>1. CASE i = 1
      BY <1>1, <1>2, <2>1
    <2>2. CASE i = 2
      <3>1. i - 1 = 1 /\ i > 1
        BY <2>2
      <3> QED BY <1>1, <1>2, <3>1
    <2>3. CASE i \in 3..Len(new)
      <3>1. i - 1 \in 2..Len(t) /\ i \in 2..Len(new) /\ i - 1 \in 2..Len(new) /\ i > 1
        BY <1>1, <1>2, <2>3
      <3> DEFINE j == n + (i - 1)
      <3>2. /\ new[i] = ms[j] /\ new[i - 1] = ms[j - 1] /\ j \in 1..Len(ms)
        BY <1>3, <1>5, <3>1
      <3> HIDE DEF j
      <3> QED BY <3>1, <3>2 DEF Resumable, AnswersFollowUsers
    <2>4. i = 1 \/ i = 2 \/ i \in 3..Len(new)
      BY <1>1, <1>2
    <2> QED BY <2>1, <2>2, <2>3, <2>4
  <1> QED BY <1>2, <1>4, <1>6, <1>7 DEF Resumable, new

\* The replacement of a history that may be resumed may be resumed; it ends in
\* a user turn if the history did, and makes up no call and no result.
LEMMA CompactedResumable ==
  ASSUME NEW ms \in Seq(Message), Resumable(ms), DistinctCalls(ms), NEW keep \in Nat,
         log \in Seq(Record \cup CompactRecords)
  PROVE  LET new == Compacted(ms, keep)
         IN /\ new \in Seq(Message) /\ Resumable(new)
            /\ EndsInUser(ms) => EndsInUser(new)
            /\ DistinctCalls(new)
            /\ HandedOut(ms) => HandedOut(new)
            /\ Fit(ms) => Fit(new)
            /\ Orphans(ms) = {} => Orphans(new) = {}
            /\ (\A i \in 1..Len(ms) : NoneAborted(ms[i].results))
                  => \A i \in 1..Len(new) : NoneAborted(new[i].results)
  <1> DEFINE c == UserMsg({}, <<Checkpoint(Checkpoints + 1)>>)
             t == SliceTail(ms, keep)
             new == Compacted(ms, keep)
  <1>1. c \in UserMessage /\ c \in Message /\ c.role = "user" /\ c.uses = {} /\ c.results = {}
    BY CheckpointsTypes, CheckpointTypes
  <1>2. PICK n \in Nat :
            /\ Slice(t, ms, n)
            /\ t # <<>> => /\ t[1].results = {}
                           /\ (ms # <<>> => ms[Len(ms)].uses = {}) => ToEnd(t, ms, n)
    BY SliceTailSlice
  <1>3. new = <<c>> \o t
    BY DEF Compacted
  <1> HIDE DEF c, t, new
  <1>4. /\ new \in Seq(Message) /\ Resumable(new)
        /\ Len(new) = Len(t) + 1 /\ new[1] = c /\ \A i \in 1..Len(t) : new[i + 1] = t[i]
    <2>1. Slice(t, ms, n) /\ (t # <<>> => t[1].results = {})
      BY <1>2
    <2>2. /\ <<c>> \o t \in Seq(Message) /\ Resumable(<<c>> \o t)
          /\ Len(<<c>> \o t) = Len(t) + 1 /\ (<<c>> \o t)[1] = c
          /\ \A i \in 1..Len(t) : (<<c>> \o t)[i + 1] = t[i]
      BY <1>1, <2>1, PrependResumable
    <2> QED BY <1>3, <2>2
  <1>5. Len(t) \in Nat /\ t \in Seq(Message)
    BY <1>2 DEF Slice
  <1>6. \A i \in 2..Len(new) : n + (i - 1) \in 1..Len(ms) /\ new[i] = ms[n + (i - 1)]
    <2> TAKE i \in 2..Len(new)
    <2>1. i - 1 \in 1..Len(t) /\ (i - 1) + 1 = i
      BY <1>4, <1>5
    <2>2. new[i] = t[i - 1]
      BY <1>4, <2>1
    <2>3. \A k \in 1..Len(t) : n + k \in 1..Len(ms) /\ t[k] = ms[n + k]
      BY <1>2, SliceFacts
    <2> QED BY <2>1, <2>2, <2>3
  <1>7. \A i \in 1..Len(new) : i = 1 \/ i \in 2..Len(new)
    BY <1>4, <1>5
  <1>8. /\ new # <<>>
        /\ t = <<>> => new[Len(new)] = c
        /\ t # <<>> => new[Len(new)] = t[Len(t)]
    <2> HIDE DEF Message
    <2>1. new # <<>>
      BY <1>4, <1>5
    <2>2. t = <<>> => Len(new) = 1
      BY <1>4
    <2>3. t # <<>> => Len(t) \in 1..Len(t)
      BY <1>5
    <2> QED BY <1>4, <2>1, <2>2, <2>3
  <1>9. (ms # <<>> => ms[Len(ms)].uses = {}) =>
            new[Len(new)] = c \/ (ms # <<>> /\ new[Len(new)] = ms[Len(ms)])
    BY <1>2, <1>8, SliceFacts
  <1>10. ms # <<>> => ms[Len(ms)] \in Message
    OBVIOUS
  <1>11. EndsInUser(ms) => EndsInUser(new)
    BY <1>1, <1>8, <1>9, <1>10, MessageShapes DEF EndsInUser
  <1>12. Orphans(ms) = {} => Orphans(new) = {}
    <2>1. Orphans(ms) = {} => (ms # <<>> => ms[Len(ms)].uses = {})
      BY <1>10, MessageShapes DEF Orphans
    <2> QED BY <1>1, <1>8, <1>9, <2>1 DEF Orphans
  <1>13. DistinctCalls(new)
    <2> SUFFICES ASSUME NEW i \in 1..Len(new), NEW k \in 1..Len(new), i # k
                 PROVE  new[i].uses \cap new[k].uses = {}
      BY DEF DistinctCalls
    <2>1. CASE i = 1 \/ k = 1
      BY <1>1, <1>4, <2>1
    <2>2. CASE i \in 2..Len(new) /\ k \in 2..Len(new)
      <3>1. n + (i - 1) # n + (k - 1)
        BY <2>2
      <3> QED BY <1>6, <2>2, <3>1 DEF DistinctCalls
    <2> QED BY <1>7, <2>1, <2>2
  <1>14. HandedOut(ms) => HandedOut(new)
    <2> SUFFICES ASSUME HandedOut(ms), NEW i \in 1..Len(new), NEW id \in new[i].uses
                 PROVE  id <= minted
      BY DEF HandedOut
    <2>1. i \in 2..Len(new)
      BY <1>1, <1>4, <1>7
    <2> QED BY <1>6, <2>1 DEF HandedOut
  <1>15. ASSUME \A i \in 1..Len(ms) : NoneAborted(ms[i].results), NEW i \in 1..Len(new)
         PROVE  NoneAborted(new[i].results)
    <2>1. CASE i = 1
      BY <1>1, <1>4, <2>1 DEF NoneAborted
    <2>2. CASE i \in 2..Len(new)
      BY <1>6, <1>15, <2>2
    <2> QED BY <1>7, <2>1, <2>2
  <1>16. Fit(ms) => Fit(new)
    <2> SUFFICES ASSUME Fit(ms), NEW i \in 1..Len(new)
                 PROVE  Says(new[i]) /\ Known(new[i].texts)
      BY DEF Fit
    <2>1. CASE i = 1
      <3>1. Says(c) /\ Known(c.texts)
        BY DEF c, UserMsg, Says, Known, Checkpoint
      <3> QED BY <1>4, <2>1, <3>1
    <2>2. CASE i \in 2..Len(new)
      BY <1>6, <2>2 DEF Fit
    <2> QED BY <1>7, <2>1, <2>2
  <1> QED BY <1>4, <1>11, <1>12, <1>13, <1>14, <1>15, <1>16 DEF new

-----------------------------------------------------------------------------
(* The loop between compactions                                             *)

\* What an appended message and an appended user turn leave of the calls.
LEMMA AppendCalls ==
  ASSUME NEW ms \in Seq(Message), NEW m \in Message
  PROVE  /\ Append(ms, m) \in Seq(Message) /\ Len(ms) + 1 \in Nat
         /\ \A i \in 1..Len(Append(ms, m)) :
               \/ i \in 1..Len(ms) /\ Append(ms, m)[i] = ms[i]
               \/ i = Len(ms) + 1 /\ Append(ms, m)[i] = m
  <1> HIDE DEF Message
  <1> QED OBVIOUS

LEMMA UserTurnCalls ==
  ASSUME NEW ms \in Seq(Message), NEW rs \in SUBSET Result, NEW ts \in Seq(Text)
  PROVE  LET new == AppendUserTurn(ms, rs, ts)
         IN \A i \in 1..Len(new) :
               (i \in 1..Len(ms) /\ new[i].uses = ms[i].uses) \/ new[i].uses = {}
  <1> DEFINE new == AppendUserTurn(ms, rs, ts)
  <1>1. CASE ~ EndsInUser(ms)
    <2> DEFINE m == UserMsg(rs, ts)
    <2>1. m \in Message /\ m.uses = {}
      BY MessageTypes DEF Message, UserMsg
    <2>2. new = Append(ms, m)
      BY <1>1 DEF AppendUserTurn
    <2> HIDE DEF m, new
    <2>3. \A i \in 1..Len(new) :
             (i \in 1..Len(ms) /\ new[i].uses = ms[i].uses) \/ new[i].uses = {}
      BY <2>1, <2>2, AppendCalls
    <2> QED BY <2>3 DEF new
  <1>2. CASE EndsInUser(ms)
    <2> DEFINE m == UserMsg(ms[Len(ms)].results \cup rs, ms[Len(ms)].texts \o ts)
    <2>1. new = [ms EXCEPT ![Len(ms)] = m]
      BY <1>2 DEF AppendUserTurn
    <2>2. m.uses = {}
      BY DEF UserMsg
    <2> HIDE DEF m, new, Message
    <2>3. Len(new) = Len(ms)
          /\ \A i \in 1..Len(ms) : new[i] = IF i = Len(ms) THEN m ELSE ms[i]
      BY <2>1
    <2>4. \A i \in 1..Len(new) :
             (i \in 1..Len(ms) /\ new[i].uses = ms[i].uses) \/ new[i].uses = {}
      BY <2>2, <2>3
    <2> QED BY <2>4 DEF new
  <1> QED BY <1>1, <1>2

\* The calls of the history stay distinct, their numbers handed out before.
LEMMA CallsKept ==
  ASSUME IInv, DistinctCalls(messages), HandedOut(messages), [Next]_vars
  PROVE  DistinctCalls(messages') /\ HandedOut(messages)'
  \* Every message of a new history is an old one, makes new calls, or none.
  <1> DEFINE Extends(new) ==
                \E last \in Nat : \A i \in 1..Len(new) :
                   \/ i \in 1..Len(messages) /\ new[i].uses = messages[i].uses
                   \/ i = last /\ \A id \in new[i].uses : minted < id /\ id <= minted'
                   \/ new[i].uses = {}
  <1>1. /\ HistoryGrows /\ messages \in Seq(Message) /\ minted \in Nat /\ minted' \in Nat
        /\ minted <= minted' /\ results \in SUBSET Result
    BY StepGrows, StepPlaces, NextInv, Numbers DEF IInv, LoopTypes
  <1>2. \A i \in 1..Len(messages) : /\ messages[i].uses \in SUBSET Nat
                                   /\ \A id \in messages[i].uses : id <= minted
    <2>1. \A i \in 1..Len(messages) : messages[i] \in Message
      BY <1>1
    <2> QED BY <2>1, MessageShapes DEF HandedOut
  <1>3. \A i \in 1..Len(messages) : \A id \in messages[i].uses : id <= minted'
    <2> SUFFICES ASSUME NEW i \in 1..Len(messages), NEW id \in messages[i].uses
                 PROVE  id <= minted'
      OBVIOUS
    <2>1. id \in Nat /\ id <= minted
      BY <1>2
    <2> QED BY <1>1, <2>1
  <1>4. ASSUME Extends(messages') PROVE DistinctCalls(messages') /\ HandedOut(messages)'
    <2> DEFINE new == messages'
    <2>0. PICK last \in Nat : \A i \in 1..Len(new) :
             \/ i \in 1..Len(messages) /\ new[i].uses = messages[i].uses
             \/ i = last /\ \A id \in new[i].uses : minted < id /\ id <= minted'
             \/ new[i].uses = {}
      BY <1>4
    <2>1. ASSUME NEW i \in 1..Len(new), NEW id \in new[i].uses PROVE id <= minted'
      BY <1>3, <2>0
    <2>2. ASSUME NEW i \in 1..Len(new), NEW k \in 1..Len(new), i # k,
                 NEW id \in new[i].uses, id \in new[k].uses
          PROVE  FALSE
      <3>1. CASE /\ i \in 1..Len(messages) /\ new[i].uses = messages[i].uses
                 /\ k \in 1..Len(messages) /\ new[k].uses = messages[k].uses
        BY <2>2, <3>1 DEF DistinctCalls
      <3>2. ASSUME NEW x \in 1..Len(messages), id \in messages[x].uses, minted < id
            PROVE  FALSE
        <4>1. id \in Nat /\ id <= minted
          BY <1>2, <3>2
        <4> QED BY <1>1, <3>2, <4>1
      <3>3. CASE i = last /\ minted < id
        BY <2>0, <2>2, <3>2, <3>3
      <3>4. CASE k = last /\ minted < id
        BY <2>0, <2>2, <3>2, <3>4
      <3> QED BY <2>0, <2>2, <3>1, <3>3, <3>4
    <2> QED BY <2>1, <2>2 DEF DistinctCalls, HandedOut
  <1> SUFFICES Extends(messages')
    BY <1>4
  <1>5. CASE messages' = messages
    BY <1>5
  <1>6. CASE messages' = RollbackPendingTurn(messages)
    <2>1. /\ Len(messages') \in 0..Len(messages)
          /\ \A i \in 1..Len(messages') : messages'[i] = messages[i]
      BY <1>1, <1>6, RollbackKeeps
    <2>2. \A i \in 1..Len(messages') :
             i \in 1..Len(messages) /\ messages'[i].uses = messages[i].uses
      BY <2>1
    <2> QED BY <2>2
  <1>7. CASE \E ts \in Seq(Text) : \/ messages' = AppendUserTurn(messages, OrphanResults, ts)
                                   \/ messages' = AppendUserTurn(messages, {}, ts)
    <2>1. OrphanResults \in SUBSET Result
      BY <1>1, OrphansAnswerLast DEF OrphanResults
    <2>2. \A i \in 1..Len(messages') :
             \/ i \in 1..Len(messages) /\ messages'[i].uses = messages[i].uses
             \/ messages'[i].uses = {}
      BY <1>1, <1>7, <2>1, UserTurnCalls
    <2> QED BY <2>2
  <1>8. CASE \E m \in AssistantMessage : /\ \A id \in m.uses : minted < id /\ id <= minted'
                                         /\ messages' = Append(messages, m)
    <2>1. PICK m \in AssistantMessage : /\ \A id \in m.uses : minted < id /\ id <= minted'
                                        /\ messages' = Append(messages, m)
      BY <1>8
    <2>2. m \in Message
      BY DEF Message
    <2>3. /\ Len(messages) + 1 \in Nat
          /\ \A i \in 1..Len(messages') :
                \/ i \in 1..Len(messages) /\ messages'[i] = messages[i]
                \/ i = Len(messages) + 1 /\ messages'[i] = m
      BY <1>1, <2>1, <2>2, AppendCalls
    <2> QED BY <2>1, <2>3
  <1>9. CASE \E u \in UserMessage : messages' = Append(messages, u)
    <2>1. PICK u \in UserMessage : messages' = Append(messages, u)
      BY <1>9
    <2>2. u \in Message /\ u.uses = {}
      BY DEF Message, UserMessage
    <2>3. \A i \in 1..Len(messages') :
             \/ i \in 1..Len(messages) /\ messages'[i] = messages[i]
             \/ messages'[i] = u
      BY <1>1, <2>1, <2>2, AppendCalls
    <2> QED BY <2>2, <2>3
  <1>10. CASE \E m \in AssistantMessage, u \in UserMessage :
                 m.uses = {} /\ messages' = Append(Append(messages, m), u)
    <2>1. PICK m \in AssistantMessage, u \in UserMessage :
             m.uses = {} /\ messages' = Append(Append(messages, m), u)
      BY <1>10
    <2>2. u \in Message /\ u.uses = {} /\ m \in Message
      BY DEF Message, UserMessage
    <2> DEFINE mid == Append(messages, m)
    <2>3. /\ mid \in Seq(Message)
          /\ \A i \in 1..Len(mid) :
                \/ i \in 1..Len(messages) /\ mid[i] = messages[i]
                \/ mid[i] = m
      BY <1>1, <2>2, AppendCalls
    <2> HIDE DEF mid
    <2>4. \A i \in 1..Len(messages') :
             \/ i \in 1..Len(mid) /\ messages'[i] = mid[i]
             \/ messages'[i] = u
      <3>1. messages' = Append(mid, u)
        BY <2>1 DEF mid
      <3> QED BY <2>2, <2>3, <3>1, AppendCalls
    <2> QED BY <2>1, <2>2, <2>3, <2>4
  <1> QED BY <1>1, <1>5, <1>6, <1>7, <1>8, <1>9, <1>10 DEF HistoryGrows

\* A history that may be resumed is fit to be folded into.
LEMMA ResumableFolds ==
  ASSUME NEW ms \in Seq(Message), Resumable(ms), DistinctCalls(ms), Fit(ms)
  PROVE  Folded(ms) /\ (EndsInUser(ms) => ms # <<>> /\ Welcomes(ms, Len(ms)))
  <1>1. /\ CallsAnswered(ms, Len(ms) - 1) /\ ResultsAnswer(ms) /\ AnswersFollowUsers(ms)
        /\ Len(ms) \in Nat
    BY DEF Resumable
  <1>2. ASSUME NEW i \in 1..Len(ms), ms[i].role = "user"
        PROVE  Welcomes(ms, i)
    <2>1. CASE ms[i].texts # <<>>
      BY <1>2, <2>1 DEF Welcomes
    <2>2. CASE ms[i].texts = <<>>
      <3>1. ms[i].results # {}
        BY <1>2, <2>2 DEF Fit, Says
      <3>2. i > 1 /\ IdsOf(ms[i].results) \subseteq ms[i-1].uses
        BY <1>1, <3>1 DEF ResultsAnswer
      <3>3. ms[i-1].uses # {}
        BY <3>1, <3>2 DEF IdsOf
      <3>4. i - 1 \in 1..Len(ms) - 1 /\ (i - 1) + 1 = i
        BY <1>1, <3>2
      <3>5. ms[i-1].uses \subseteq IdsOf(ms[i].results)
        BY <1>1, <3>3, <3>4 DEF CallsAnswered
      <3> QED BY <1>2, <3>2, <3>3, <3>5 DEF Welcomes
    <2> QED BY <2>1, <2>2
  <1>3. ASSUME NEW i \in 1..Len(ms), ms[i].role = "assistant"
        PROVE  i > 1 /\ Welcomes(ms, i - 1)
    <2>1. i > 1 /\ ms[i-1].role = "user"
      BY <1>1, <1>3 DEF AnswersFollowUsers
    <2>2. i - 1 \in 1..Len(ms)
      BY <1>1, <2>1
    <2> QED BY <1>2, <2>1, <2>2
  <1>4. \A i \in 1..Len(ms) : Known(ms[i].texts)
    BY DEF Fit
  <1>5. ASSUME EndsInUser(ms) PROVE ms # <<>> /\ Welcomes(ms, Len(ms))
    <2>1. ms # <<>> /\ ms[Len(ms)].role = "user"
      BY <1>5 DEF EndsInUser
    <2>2. Len(ms) \in 1..Len(ms)
      <3> HIDE DEF Message
      <3> QED BY <2>1
    <2> QED BY <1>2, <2>1, <2>2
  <1> QED BY <1>1, <1>3, <1>4, <1>5 DEF Folded

\* Every message of the history says something, whatever the step.
LEMMA FitKept ==
  ASSUME IInv, Fit(messages), HistoryGrows
  PROVE  Fit(messages')
  <1>1. /\ messages \in Seq(Message) /\ results \in SUBSET Result
        /\ pc = "gate" => results # {}
    <2>1. IdsOf({}) = {}
      BY DEF IdsOf
    <2> QED BY <2>1 DEF IInv, LoopTypes, RoundInv
  <1>2. ASSUME NEW ms \in Seq(Message), Fit(ms), NEW m \in Message, Says(m), Known(m.texts)
        PROVE  Append(ms, m) \in Seq(Message) /\ Fit(Append(ms, m))
    <2> DEFINE new == Append(ms, m)
    <2> HIDE DEF Message
    <2>1. /\ new \in Seq(Message)
          /\ \A i \in 1..Len(new) : (i \in 1..Len(ms) /\ new[i] = ms[i]) \/ new[i] = m
      OBVIOUS
    <2> HIDE DEF new
    <2>2. Fit(new)
      BY <1>2, <2>1 DEF Fit
    <2> QED BY <2>1, <2>2 DEF new
  <1>3. ASSUME NEW rs \in SUBSET Result, NEW ts \in Seq(Text), ts # <<>>, Known(ts)
        PROVE  Fit(AppendUserTurn(messages, rs, ts))
    <2> DEFINE last == messages[Len(messages)]
               u == UserMsg(last.results \cup rs, last.texts \o ts)
               new == AppendUserTurn(messages, rs, ts)
    <2>1. CASE ~ EndsInUser(messages)
      <3> DEFINE m == UserMsg(rs, ts)
      <3>1. m \in Message /\ Says(m) /\ Known(m.texts)
        BY <1>3, MessageTypes DEF Message, UserMsg, Says
      <3>2. new = Append(messages, m)
        BY <2>1 DEF AppendUserTurn
      <3> QED BY <1>1, <1>2, <3>1, <3>2
    <2>2. CASE EndsInUser(messages)
      <3>1. messages # <<>> /\ new = [messages EXCEPT ![Len(messages)] = u]
        BY <2>2 DEF AppendUserTurn, EndsInUser
      <3>2. Len(messages) \in 1..Len(messages)
        <4> HIDE DEF Message
        <4> QED BY <1>1, <3>1
      <3>3. last \in Message /\ Known(last.texts)
        BY <1>1, <3>2 DEF Fit
      <3> HIDE DEF last
      <3>4. last.texts \in Seq(Text)
        BY <3>3, MessageShapes
      <3>5. Known(last.texts \o ts) /\ last.texts \o ts # <<>>
        BY <1>3, <3>3, <3>4, KnownJoin
      <3>6. Says(u) /\ Known(u.texts)
        BY <3>5 DEF UserMsg, Says
      <3> HIDE DEF u, new
      <3>7. Len(new) = Len(messages)
            /\ \A i \in 1..Len(new) : i \in 1..Len(messages) /\ (new[i] = u \/ new[i] = messages[i])
        <4> HIDE DEF Message
        <4> QED BY <1>1, <3>1
      <3>8. Fit(new)
        BY <3>6, <3>7 DEF Fit
      <3> QED BY <3>8 DEF new
    <2> QED BY <2>1, <2>2
  <1>4. \A m \in AssistantMessage : m \in Message /\ Says(m)
    BY DEF Message, AssistantMessage, Says
  <1>5. \A u \in UserMessage : u \in Message /\ (Asks(u) => Says(u) /\ Known(u.texts))
    BY DEF Message, Asks, Says
  <1>6. CASE messages' = messages
    BY <1>6
  <1>7. CASE messages' = RollbackPendingTurn(messages)
    <2>1. /\ Len(messages') \in 0..Len(messages)
          /\ \A i \in 1..Len(messages') : messages'[i] = messages[i]
      BY <1>1, <1>7, RollbackKeeps
    <2>2. \A i \in 1..Len(messages') : i \in 1..Len(messages)
      BY <2>1
    <2> QED BY <2>1, <2>2 DEF Fit
  <1>8. CASE \E ts \in Seq(Text) :
                /\ ts # <<>> /\ Known(ts)
                /\ \/ messages' = AppendUserTurn(messages, OrphanResults, ts)
                   \/ messages' = AppendUserTurn(messages, {}, ts)
    <2>1. OrphanResults \in SUBSET Result
      BY <1>1, OrphansAnswerLast DEF OrphanResults
    <2> QED BY <1>3, <1>8, <2>1
  <1>9. CASE \E m \in AssistantMessage : Known(m.texts) /\ messages' = Append(messages, m)
    BY <1>1, <1>2, <1>4, <1>9
  <1>10. CASE \E m \in AssistantMessage, u \in UserMessage :
                 Known(m.texts) /\ Asks(u) /\ messages' = Append(Append(messages, m), u)
    <2>1. PICK m \in AssistantMessage, u \in UserMessage :
             Known(m.texts) /\ Asks(u) /\ messages' = Append(Append(messages, m), u)
      BY <1>10
    <2>2. Append(messages, m) \in Seq(Message) /\ Fit(Append(messages, m))
      BY <1>1, <1>2, <1>4, <2>1
    <2> QED BY <1>2, <1>5, <2>1, <2>2
  <1>11. CASE \E u \in UserMessage : Asks(u) /\ messages' = Append(messages, u)
    BY <1>1, <1>2, <1>5, <1>11
  <1>12. CASE \E u \in UserMessage : /\ pc = "gate" /\ u.results = results /\ Known(u.texts)
                                     /\ messages' = Append(messages, u)
    BY <1>1, <1>2, <1>5, <1>12 DEF Says
  <1> QED BY <1>6, <1>7, <1>8, <1>9, <1>10, <1>11, <1>12 DEF HistoryGrows

-----------------------------------------------------------------------------
(* Compactions                                                              *)

\* While the loop compacts it stands at its head, on the history it handed in;
\* the user's compaction took its history before the round that runs now.
JobInv ==
    /\ LoopWaits => pc = "top" /\ messages = job.snapshot
    /\ job.by = "user" => /\ HandedOut(job.snapshot)
                          /\ pc \in {"tools", "gate"} => messages # job.snapshot

CompactTypes ==
    /\ log \in Seq(Record \cup CompactRecords)
    /\ job \in Jobs \cup {NoJob} /\ asked \in Requests \cup {NoRequest}

CompactInv ==
    /\ IInv /\ CompactTypes
    /\ DistinctCalls(messages) /\ HandedOut(messages)
    /\ JobInv

\* A log of records and compactions takes what the loop logs.
LEMMA LogGrowsTypes ==
  ASSUME log \in Seq(Record \cup CompactRecords), LogGrows
  PROVE  log' \in Seq(Record \cup CompactRecords)
  <1> DEFINE R == Record \cup CompactRecords
  <1>1. /\ \A m \in Message : m \in R
        /\ AssistantMessage \subseteq Message /\ UserMessage \subseteq Message
        /\ \A r \in Result : ResultRecord(r) \in R
    BY DEF Record, Message, ResultRecord
  <1>2. log \in Seq(R)
    OBVIOUS
  <1> HIDE DEF R
  <1>3. \A m \in R : Append(log, m) \in Seq(R) /\ log \o <<m>> \in Seq(R)
    BY <1>2
  <1>4. \A m, u \in R : log \o (<<m>> \o <<u>>) \in Seq(R)
    BY <1>2
  <1>5. log \o <<>> \in Seq(R)
    BY <1>2
  <1>6. log' \in Seq(R)
    BY <1>1, <1>2, <1>3, <1>4, <1>5 DEF LogGrows
  <1> QED BY <1>6 DEF R

\* A record of a history is a compaction's record.
LEMMA CommitTypes ==
  ASSUME log \in Seq(Record \cup CompactRecords), NEW ms \in Seq(Message), Commit(ms)
  PROVE  log' \in Seq(Record \cup CompactRecords) /\ messages' = ms
  <1>1. CompactRecord(ms) \in CompactRecords
    BY DEF CompactRecord, CompactRecords
  <1> HIDE DEF CompactRecords, Record
  <1> QED BY <1>1 DEF Commit

\* What a job is made of.
LEMMA JobTypes ==
  ASSUME CompactTypes
  PROVE  /\ job.by \in {"user", "loop"} =>
               job.keep \in Nat /\ job.keep \in Keeps /\ job.snapshot \in Seq(Message)
         /\ asked # NoRequest => asked.keep \in Keeps
         /\ NoJob.by \notin {"user", "loop"}
  <1>1. NoJob.by \notin {"user", "loop"}
    BY DEF NoJob
  <1>2. ASSUME job.by \in {"user", "loop"}
        PROVE  job.keep \in Keeps /\ job.snapshot \in Seq(Message)
    <2>1. job \in Jobs
      BY <1>1, <1>2 DEF CompactTypes
    <2> HIDE DEF Message
    <2> QED BY <2>1 DEF Jobs
  <1>3. asked # NoRequest => asked.keep \in Keeps
    <2>1. asked # NoRequest => asked \in Requests
      BY DEF CompactTypes
    <2> QED BY <2>1 DEF Requests
  <1> QED BY <1>1, <1>2, <1>3, KeepsAssumption

\* A step of the loop that stands still while the loop compacts.
LEMMA LoopStepInv ==
  ASSUME CompactInv, [Next]_vars, LoopWaits => pc' = pc, UNCHANGED <<job, asked>>
  PROVE  CompactInv'
  <1>1. IInv' /\ DistinctCalls(messages') /\ HandedOut(messages)'
    BY NextInv, CallsKept DEF CompactInv
  <1>2. CompactTypes'
    BY StepGrows, LogGrowsTypes DEF CompactInv, CompactTypes
  <1>3. /\ minted \in Nat /\ minted' \in Nat /\ minted <= minted'
        /\ pc' = pc => messages' = messages
        /\ pc' \in {"tools", "gate"} =>
               \/ pc \in {"tools", "gate"} /\ messages' = messages
               \/ /\ messages' # <<>>
                  /\ \E id \in messages'[Len(messages')].uses : minted < id
    <2>1. IInv /\ minted \in Nat /\ minted' \in Nat
      BY <1>1 DEF CompactInv, IInv, LoopTypes
    <2> QED BY <2>1, StepPlaces
  <1>4. LoopWaits' => pc' = "top" /\ messages' = job'.snapshot
    BY <1>3 DEF CompactInv, JobInv, LoopWaits
  <1>5. ASSUME job.by = "user"
        PROVE  /\ HandedOut(job.snapshot)'
               /\ pc' \in {"tools", "gate"} => messages' # job'.snapshot
    <2> DEFINE ms == job.snapshot
    <2>1. ms \in Seq(Message) /\ HandedOut(ms) /\ job' = job
      BY <1>5, JobTypes DEF CompactInv, JobInv
    <2> HIDE DEF ms
    <2>2. \A i \in 1..Len(ms) : \A id \in ms[i].uses : id \in Nat /\ id <= minted
      <3>1. \A i \in 1..Len(ms) : ms[i] \in Message
        BY <2>1
      <3> QED BY <2>1, <3>1, MessageShapes DEF HandedOut
    <2>3. \A id \in Nat : id <= minted => id <= minted' /\ ~ (minted < id)
      BY <1>3
    <2>4. \A i \in 1..Len(ms) : \A id \in ms[i].uses : id <= minted'
      BY <2>2, <2>3
    <2>5. ASSUME messages' = ms, pc' \in {"tools", "gate"},
                 ~ (pc \in {"tools", "gate"} /\ messages' = messages)
          PROVE  FALSE
      <3>1. ms # <<>> /\ \E id \in ms[Len(ms)].uses : minted < id
        BY <1>3, <2>5
      <3>2. Len(ms) \in 1..Len(ms)
        <4> HIDE DEF Message
        <4> QED BY <2>1, <3>1
      <3> QED BY <2>2, <2>3, <3>1, <3>2
    <2>6. pc \in {"tools", "gate"} => messages # ms
      BY <1>5 DEF CompactInv, JobInv, ms
    <2> QED BY <2>1, <2>4, <2>5, <2>6 DEF HandedOut, ms
  <1>6. JobInv'
    BY <1>4, <1>5 DEF JobInv
  <1> QED BY <1>1, <1>2, <1>6 DEF CompactInv

\* A history is replaced while no tool runs.
LEMMA ReplaceInv ==
  ASSUME CompactInv, NEW keep \in Nat, Commit(Compacted(messages, keep)),
         pc \notin {"tools", "gate"}, pc' \notin {"tools", "gate"},
         pc' \in {"top", "model", "wrapup"} => pc \in {"top", "model", "wrapup"},
         pc' \in Places, rounds' \in Nat, outcome' \in {"ok", "abort", "error"},
         pc' = "resolving" => pc = "resolving" /\ content.results = {},
         UNCHANGED <<content, todo, results, salvage, cutStreak, fullStreak, aborted, marker,
                     active, advertised, toggles, minted, runs>>
  PROVE  /\ IInv' /\ log' \in Seq(Record \cup CompactRecords)
         /\ DistinctCalls(messages') /\ HandedOut(messages)'
  <1> DEFINE new == Compacted(messages, keep)
  <1>1. /\ messages \in Seq(Message) /\ Resumable(messages) /\ DistinctCalls(messages)
        /\ HandedOut(messages) /\ log \in Seq(Record \cup CompactRecords) /\ LoopTypes
    BY DEF CompactInv, CompactTypes, IInv, LoopTypes
  <1>2. /\ new \in Seq(Message) /\ Resumable(new) /\ DistinctCalls(new) /\ HandedOut(new)
        /\ EndsInUser(messages) => EndsInUser(new)
        /\ Orphans(messages) = {} => Orphans(new) = {}
    BY <1>1, CompactedResumable
  <1>3. log' \in Seq(Record \cup CompactRecords) /\ messages' = new
    BY <1>1, <1>2, CommitTypes
  <1> HIDE DEF new
  <1>4. LoopTypes'
    BY <1>1, <1>2, <1>3 DEF LoopTypes
  <1>5. pc' \in {"top", "model", "wrapup"} => EndsInUser(messages')
    BY <1>2, <1>3 DEF CompactInv, IInv
  <1>7. ASSUME pc' = "resolving" PROVE ContentInv'
    <2>1. ContentInv /\ content.results = {} /\ content' = content
      BY <1>7 DEF CompactInv, IInv
    <2>2. Orphans(messages) = {}
      BY <2>1 DEF ContentInv, OrphanResults
    <2>3. OrphanResults' = {}
      BY <1>2, <1>3, <2>2 DEF OrphanResults
    <2> QED BY <2>1, <2>3 DEF ContentInv
  <1>6. IInv'
    BY <1>2, <1>3, <1>4, <1>5, <1>7 DEF IInv
  <1> QED BY <1>2, <1>3, <1>6 DEF HandedOut

\* The user's compaction takes its history, and replaces it if it still stands.
LEMMA UserCompactsInv ==
  ASSUME ~ CompactMidTools, CompactInv, NEW keep \in Keeps, UserCompacts(keep)
  PROVE  CompactInv'
  <1>1. /\ pc \notin {"tools", "gate"} /\ UNCHANGED sessionVars /\ asked' = asked
        /\ job' = [by |-> "user", keep |-> keep, snapshot |-> messages]
    BY DEF UserCompacts
  <1>2. IInv' /\ DistinctCalls(messages') /\ HandedOut(messages)' /\ pc' = pc
        /\ messages' = messages /\ log' = log
    <2>1. UNCHANGED vars
      BY <1>1 DEF sessionVars
    <2>2. IInv'
      BY <2>1, NextInv DEF CompactInv
    <2> QED BY <2>1, <2>2 DEF CompactInv, HandedOut, vars
  <1>3. job' \in Jobs
    BY <1>1 DEF CompactInv, IInv, LoopTypes, Jobs
  <1>4. CompactTypes'
    BY <1>1, <1>2, <1>3 DEF CompactInv, CompactTypes
  <1>5. job'.by = "user" /\ job'.snapshot = messages'
    BY <1>1, <1>2
  <1>6. JobInv'
    BY <1>1, <1>2, <1>5 DEF JobInv, LoopWaits, HandedOut
  <1> QED BY <1>2, <1>4, <1>6 DEF CompactInv

LEMMA UserCompactEndsInv ==
  ASSUME ~ CompactMidRepair, CompactInv, UserCompactEnds
  PROVE  CompactInv'
  <1>1. /\ job.by = "user" /\ job' = NoJob /\ asked' = asked /\ pc' = pc
        /\ UNCHANGED <<content, todo, results, salvage, rounds, cutStreak, fullStreak,
                       outcome, aborted, marker, active, advertised, toggles, minted, runs>>
    BY DEF UserCompactEnds, loop, mode
  <1>2. NoJob.by # "user" /\ NoJob.by # "loop"
    BY DEF NoJob
  <1>3. JobInv'
    BY <1>1, <1>2 DEF JobInv, LoopWaits
  <1>4. IInv' /\ log' \in Seq(Record \cup CompactRecords)
        /\ DistinctCalls(messages') /\ HandedOut(messages)'
    <2>1. CASE messages = job.snapshot
      <3>1. pc \notin {"tools", "gate"}
        BY <1>1, <2>1 DEF CompactInv, JobInv
      <3>2. Commit(Compacted(messages, job.keep))
        BY <2>1 DEF UserCompactEnds
      <3>3. job.keep \in Nat
        BY <1>1, JobTypes DEF CompactInv
      <3>4. pc' \in Places /\ rounds' \in Nat /\ outcome' \in {"ok", "abort", "error"}
        BY <1>1 DEF CompactInv, IInv, LoopTypes
      <3>5. pc' = "resolving" => pc = "resolving" /\ content.results = {}
        BY <1>1 DEF UserCompactEnds
      <3> QED BY <1>1, <3>1, <3>2, <3>3, <3>4, <3>5, ReplaceInv
    <2>2. CASE messages # job.snapshot
      <3>1. messages' = messages /\ log' = log
        BY <2>2 DEF UserCompactEnds
      <3>2. UNCHANGED vars
        BY <1>1, <3>1 DEF vars, loop, mode
      <3>3. IInv'
        BY <3>2, NextInv DEF CompactInv
      <3> QED BY <1>1, <3>1, <3>3 DEF CompactInv, CompactTypes, HandedOut
    <2> QED BY <2>1, <2>2
  <1>5. CompactTypes'
    BY <1>1, <1>4 DEF CompactInv, CompactTypes
  <1> QED BY <1>3, <1>4, <1>5 DEF CompactInv

\* The loop takes a request, and replaces the history it stands on.
LEMMA LoopCompactsInv ==
  ASSUME CompactInv, LoopCompacts
  PROVE  CompactInv'
  <1>1. /\ pc = "top" /\ asked # NoRequest /\ asked' = NoRequest /\ ~ LoopWaits
        /\ messages' = messages /\ log' = log
        /\ UNCHANGED <<content, todo, results, salvage, rounds, cutStreak, fullStreak,
                       aborted, marker, active, advertised, toggles, minted, runs>>
    BY DEF LoopCompacts, MustDrain, loop, mode
  <1>2. \/ pc' = "unwinding" /\ outcome' = "error" /\ job' = job
        \/ /\ pc' = pc /\ outcome' = outcome
           /\ job' = [by |-> "loop", keep |-> asked.keep, snapshot |-> messages]
    BY DEF LoopCompacts, Finish
  <1>3. LoopTypes'
    <2>1. pc' \in Places /\ outcome' \in {"ok", "abort", "error"}
      BY <1>1, <1>2 DEF CompactInv, IInv, LoopTypes, Places
    <2> QED BY <1>1, <2>1 DEF CompactInv, IInv, LoopTypes
  <1>4. IInv'
    BY <1>1, <1>2, <1>3, KeepsHistory DEF CompactInv
  <1>5. job' \in Jobs \cup {NoJob}
    <2>1. asked.keep \in Keeps /\ messages \in Seq(Message)
      BY <1>1, JobTypes DEF CompactInv, IInv, LoopTypes
    <2>2. [by |-> "loop", keep |-> asked.keep, snapshot |-> messages] \in Jobs
      <3> HIDE DEF Message
      <3> QED BY <2>1 DEF Jobs
    <2> QED BY <1>2, <2>2 DEF CompactInv, CompactTypes
  <1>6. CompactTypes'
    BY <1>1, <1>5 DEF CompactInv, CompactTypes
  <1>7. JobInv'
    <2>1. CASE pc' = "unwinding" /\ job' = job
      BY <1>1, <2>1 DEF CompactInv, JobInv, LoopWaits, HandedOut
    <2>2. CASE /\ pc' = pc
               /\ job' = [by |-> "loop", keep |-> asked.keep, snapshot |-> messages]
      <3>1. job'.by = "loop" /\ job'.snapshot = messages
        BY <2>2
      <3> QED BY <1>1, <2>2, <3>1 DEF JobInv
    <2> QED BY <1>2, <2>1, <2>2
  <1> QED BY <1>1, <1>4, <1>6, <1>7 DEF CompactInv, HandedOut

LEMMA LoopCompactEndsInv ==
  ASSUME CompactInv, LoopCompactEnds
  PROVE  CompactInv'
  <1>1. /\ job.by = "loop" /\ job' = NoJob /\ asked' = asked /\ rounds' = rounds + 1
        /\ Commit(Compacted(messages, job.keep))
        /\ \/ pc' = "model" /\ outcome' = outcome
           \/ pc' = "unwinding" /\ outcome' = "abort"
        /\ UNCHANGED <<content, todo, results, salvage, cutStreak, fullStreak, aborted,
                       marker, active, advertised, toggles, minted, runs>>
    BY DEF LoopCompactEnds, LoopWaits, Finish, mode
  <1>2. pc = "top"
    BY <1>1 DEF CompactInv, JobInv, LoopWaits
  <1>3. job.keep \in Nat
    BY <1>1, JobTypes DEF CompactInv
  <1>4. pc' \in Places /\ rounds' \in Nat /\ outcome' \in {"ok", "abort", "error"}
    <2>1. rounds \in Nat
      BY Numbers DEF CompactInv, IInv
    <2>2. outcome' \in {"ok", "abort", "error"}
      BY <1>1 DEF CompactInv, IInv, LoopTypes
    <2> QED BY <1>1, <2>1, <2>2 DEF Places
  <1>5. IInv' /\ log' \in Seq(Record \cup CompactRecords)
        /\ DistinctCalls(messages') /\ HandedOut(messages)'
    BY <1>1, <1>2, <1>3, <1>4, ReplaceInv
  <1>6. NoJob.by # "user" /\ NoJob.by # "loop"
    BY DEF NoJob
  <1>7. JobInv'
    BY <1>1, <1>6 DEF JobInv, LoopWaits
  <1>8. CompactTypes'
    BY <1>1, <1>5 DEF CompactInv, CompactTypes
  <1> QED BY <1>5, <1>7, <1>8 DEF CompactInv

\* The death and the resume of the process, and a plugin's request.
LEMMA RestInv ==
  ASSUME CompactInv, pc = "down" => RestoredIsResumable,
         \/ CompactCrash
         \/ Restart /\ UNCHANGED <<job, asked, compacts>>
         \/ \E request \in Requests : PluginAsks(request)
  PROVE  CompactInv'
  <1>1. CASE CompactCrash
    <2>1. IInv' /\ messages' = <<>> /\ log' = log /\ job' = NoJob /\ asked' = NoRequest
      BY <1>1, CrashInv DEF CompactInv, CompactCrash, Crash
    <2>2. DistinctCalls(messages') /\ HandedOut(messages)'
      BY <2>1 DEF DistinctCalls, HandedOut
    <2>3. NoJob.by # "user" /\ NoJob.by # "loop"
      BY DEF NoJob
    <2> QED BY <2>1, <2>2, <2>3 DEF CompactInv, CompactTypes, JobInv, LoopWaits
  <1>2. CASE Restart /\ UNCHANGED <<job, asked, compacts>>
    <2>1. pc = "down" /\ pc' = "idle" /\ messages' = Restored(log) /\ log' = log
          /\ minted' = minted /\ job' = job /\ asked' = asked
      BY <1>2 DEF Restart
    <2>2. IInv'
      BY <1>2, <2>1, RestartInv DEF CompactInv
    <2>3. DistinctCalls(messages') /\ HandedOut(messages)'
      BY <2>1 DEF RestoredIsResumable, HandedOut
    <2>4. JobInv'
      BY <2>1 DEF CompactInv, JobInv, LoopWaits, HandedOut
    <2> QED BY <2>1, <2>2, <2>3, <2>4 DEF CompactInv, CompactTypes
  <1>3. CASE \E request \in Requests : PluginAsks(request)
    <2>1. PICK request \in Requests : PluginAsks(request)
      BY <1>3
    <2>2. UNCHANGED vars /\ job' = job /\ asked' = request
      BY <2>1 DEF PluginAsks, sessionVars
    <2>3. IInv'
      BY <2>2, NextInv DEF CompactInv
    <2>4. messages' = messages /\ pc' = pc /\ log' = log /\ minted' = minted
      BY <2>2 DEF vars
    <2> QED BY <2>2, <2>3, <2>4
            DEF CompactInv, CompactTypes, JobInv, LoopWaits, HandedOut
  <1> QED BY <1>1, <1>2, <1>3

\* Every step preserves the invariant, if tools do not run under a /compact.
LEMMA CompactStepInv ==
  ASSUME ~ CompactMidTools, ~ CompactMidRepair, CompactInv,
         pc = "down" => RestoredIsResumable, [CompactNext]_compactVars
  PROVE  CompactInv'
  <1>1. CASE /\ Next /\ (MustDrain \/ LoopWaits => pc' = pc)
             /\ UNCHANGED <<crashes, job, asked, compacts>>
    BY <1>1, LoopStepInv
  <1>2. CASE \E keep \in Keeps : UserCompacts(keep)
    BY <1>2, UserCompactsInv
  <1>3. CASE UNCHANGED compactVars
    <2>1. [Next]_vars /\ UNCHANGED <<job, asked>>
      BY <1>3 DEF compactVars, sessionVars
    <2>2. LoopWaits => pc' = pc
      BY <1>3 DEF compactVars, sessionVars, vars
    <2> QED BY <2>1, <2>2, LoopStepInv
  <1> QED BY <1>1, <1>2, <1>3, UserCompactEndsInv, LoopCompactsInv, LoopCompactEndsInv,
             RestInv DEF CompactNext

\* A session starts with nothing to compact.
LEMMA CompactInitInv ==
  ASSUME Initial = {<<>>}, CompactInit
  PROVE  CompactInv
  <1>1. IInv /\ messages = <<>> /\ log = <<>> /\ job = NoJob /\ asked = NoRequest
    BY InitInv DEF CompactInit, SessionInit, Init
  <1>2. NoJob.by # "user" /\ NoJob.by # "loop"
    BY DEF NoJob
  <1>3. DistinctCalls(<<>>) /\ HandedOut(<<>>)
    BY DEF DistinctCalls, HandedOut
  <1>4. CompactTypes
    BY <1>1 DEF CompactTypes
  <1>5. JobInv
    BY <1>1, <1>2 DEF JobInv, LoopWaits
  <1> QED BY <1>1, <1>3, <1>4, <1>5 DEF CompactInv

\* The invariant implies the types, and that requests are valid.
LEMMA CompactInvImplies == CompactInv => CompactTypeOK /\ SendIsValid
  <1> SUFFICES ASSUME CompactInv PROVE CompactTypeOK /\ SendIsValid
    OBVIOUS
  <1>1. CompactTypeOK
    BY DEF CompactInv, CompactTypes, JobInv, IInv, LoopTypes, CompactTypeOK
  <1>2. SendIsValid
    BY ResumableSendable DEF CompactInv, IInv, LoopTypes, SendIsValid
  <1> QED BY <1>1, <1>2

\* The log of a compaction folds into the history it puts in place.
LEMMA CommitFolds ==
  ASSUME CompactInv, FoldInv, Fit(messages), NEW keep \in Nat,
         Commit(Compacted(messages, keep)), pc' \notin InRound,
         pc' \in Asking => pc \in Asking, minted' = minted
  PROVE  /\ FoldInv' /\ Fit(messages') /\ Fold' = messages'
  <1> DEFINE new == Compacted(messages, keep)
             X == Record \cup CompactRecords
  <1>1. /\ messages \in Seq(Message) /\ Resumable(messages) /\ DistinctCalls(messages)
        /\ HandedOut(messages) /\ log \in Seq(X)
        /\ pc \in Asking => EndsInUser(messages)
    BY DEF CompactInv, CompactTypes, IInv, LoopTypes, Asking
  <1>2. /\ new \in Seq(Message) /\ Resumable(new) /\ DistinctCalls(new) /\ HandedOut(new)
        /\ Fit(new) /\ (EndsInUser(messages) => EndsInUser(new))
    BY <1>1, CompactedResumable
  <1>3. messages' = new /\ log' = Append(log, CompactRecord(new))
    BY DEF Commit
  <1> HIDE DEF new
  <1>4. Fold' = new
    <2>1. CompactRecord(new) \in X
      BY <1>2 DEF CompactRecord, CompactRecords
    <2> HIDE DEF X
    <2>2. FoldRecords(Append(log, CompactRecord(new))) = FoldRecord(Fold, CompactRecord(new))
      BY <1>1, <2>1, FoldsOn DEF Fold
    <2>3. CompactRecord(new).role = "compact" /\ CompactRecord(new).replaced = new
      BY DEF CompactRecord
    <2>4. Fold' = FoldRecords(log')
      BY DEF Fold
    <2> QED BY <1>3, <2>2, <2>3, <2>4 DEF FoldRecord
  <1>5. Folded(new) /\ (EndsInUser(new) => new # <<>> /\ Welcomes(new, Len(new)))
    BY <1>2, ResumableFolds
  <1>6. CallsUpTo(new, minted')
    BY <1>2 DEF HandedOut, CallsUpTo
  <1> QED BY <1>1, <1>2, <1>3, <1>4, <1>5, <1>6 DEF FoldInv

\* Where neither the history nor the log changes.
LEMMA NothingCommitted ==
  ASSUME CompactInv, FoldInv, Fit(messages),
         \/ LoopCompacts
         \/ UserCompactEnds /\ messages # job.snapshot
         \/ \E keep \in Keeps : UserCompacts(keep)
         \/ \E request \in Requests : PluginAsks(request)
  PROVE  FoldInv' /\ Fit(messages') /\ Fold' = Fold /\ messages' = messages
  <1>1. messages' = messages /\ log' = log /\ minted' = minted /\ UNCHANGED <<todo, results>>
    BY DEF LoopCompacts, UserCompactEnds, UserCompacts, PluginAsks, sessionVars, vars, loop
  <1>2. pc' = pc \/ pc' = "unwinding"
    BY DEF LoopCompacts, Finish, UserCompactEnds, UserCompacts, PluginAsks, sessionVars, vars
  <1>3. "unwinding" \notin Asking \cup InRound
    BY DEF Asking, InRound
  <1> QED BY <1>1, <1>2, <1>3, FoldStands DEF Fold

\* The compactions that do replace a history.
LEMMA Committed ==
  ASSUME CompactInv, FoldInv, Fit(messages),
         LoopCompactEnds \/ (UserCompactEnds /\ messages = job.snapshot)
  PROVE  /\ FoldInv' /\ Fit(messages') /\ Fold' = messages'
         /\ pc \notin InRound /\ pc' \notin InRound /\ results' = results
         /\ \E keep \in Nat : Commit(Compacted(messages, keep))
  <1>1. CASE UserCompactEnds /\ messages = job.snapshot
    <2>1. /\ job.by = "user" /\ pc' = pc /\ minted' = minted /\ results' = results
          /\ Commit(Compacted(messages, job.keep))
      BY <1>1 DEF UserCompactEnds, loop
    <2>2. pc \notin InRound
      BY <1>1, <2>1 DEF CompactInv, JobInv, InRound
    <2>3. job.keep \in Nat
      BY <2>1, JobTypes DEF CompactInv
    <2>4. FoldInv' /\ Fit(messages') /\ Fold' = messages'
      BY <2>1, <2>2, <2>3, CommitFolds
    <2> QED BY <2>1, <2>2, <2>3, <2>4
  <1>2. CASE LoopCompactEnds
    <2>1. /\ job.by = "loop" /\ pc' \in {"model", "unwinding"} /\ minted' = minted
          /\ results' = results /\ Commit(Compacted(messages, job.keep))
      BY <1>2 DEF LoopCompactEnds, LoopWaits, Finish
    <2>2. pc = "top"
      BY <2>1 DEF CompactInv, JobInv, LoopWaits
    <2>3. job.keep \in Nat
      BY <2>1, JobTypes DEF CompactInv
    <2>4. pc \notin InRound /\ pc' \notin InRound /\ (pc' \in Asking => pc \in Asking)
      BY <2>1, <2>2 DEF Asking, InRound
    <2>5. FoldInv' /\ Fit(messages') /\ Fold' = messages'
      BY <2>1, <2>3, <2>4, CommitFolds
    <2> QED BY <2>1, <2>3, <2>4, <2>5
  <1> QED BY <1>1, <1>2

\* A step of the loop.
LEMMA LoopStepFolds ==
  ASSUME CompactInv, FoldInv, Fit(messages), [Next]_vars
  PROVE  FoldInv' /\ Fit(messages')
  <1>1. /\ IInv /\ LogGrows /\ HistoryGrows /\ minted' \in Nat /\ minted <= minted'
        /\ log \in Seq(Record \cup CompactRecords)
    BY StepGrows, StepPlaces, NextInv DEF CompactInv, CompactTypes, IInv, LoopTypes
  <1>2. Record \subseteq Record \cup CompactRecords
    OBVIOUS
  <1>3. FoldInv'
    BY <1>1, <1>2, FoldKept
  <1>4. Fit(messages')
    BY <1>1, FitKept
  <1> QED BY <1>3, <1>4

\* Every step keeps what the log folds into fit to be restored.
LEMMA CompactFoldKept ==
  ASSUME CompactInv, FoldInv, Fit(messages), [CompactNext]_compactVars
  PROVE  FoldInv' /\ Fit(messages')
  <1>1. CASE [Next]_vars
    BY <1>1, LoopStepFolds
  <1>2. CASE CompactCrash
    <2>1. /\ log' = log /\ minted' = minted /\ pc' = "down" /\ messages' = <<>>
      BY <1>2 DEF CompactCrash, Crash
    <2>2. FoldInv'
      BY <2>1, FoldStands DEF Asking, InRound
    <2> QED BY <2>1, <2>2 DEF Fit
  <1>3. CASE Restart
    <2>1. /\ log' = log /\ minted' = minted /\ pc' = "idle" /\ messages' = Restored(log)
      BY <1>3 DEF Restart
    <2>2. FoldInv'
      BY <2>1, FoldStands DEF Asking, InRound
    <2>3. Fit(Restored(log))
      BY FoldInvRestores DEF CompactInv, IInv, LoopTypes
    <2> QED BY <2>1, <2>2, <2>3
  <1>4. CASE LoopCompactEnds \/ UserCompactEnds
    BY <1>4, Committed, NothingCommitted
  <1>5. CASE \/ LoopCompacts
             \/ \E keep \in Keeps : UserCompacts(keep)
             \/ \E request \in Requests : PluginAsks(request)
    BY <1>5, NothingCommitted
  <1> QED BY <1>1, <1>2, <1>3, <1>4, <1>5 DEF CompactNext, compactVars, sessionVars

\* The invariants of a session with compactions and crashes hold.
LEMMA CompactInvariance ==
  ASSUME Initial = {<<>>}, ~ CompactMidTools, ~ CompactMidRepair
  PROVE  CompactSpec => [](CompactInv /\ FoldInv /\ Fit(messages))
  <1>1. CompactInit => CompactInv /\ FoldInv /\ Fit(messages)
    <2>1. CompactInit => log = <<>> /\ pc = "idle" /\ messages = <<>>
      BY DEF CompactInit, SessionInit, Init
    <2>2. Fit(<<>>)
      BY DEF Fit
    <2> QED BY <2>1, <2>2, CompactInitInv, NothingFolds
  <1>2. CompactInv /\ FoldInv /\ Fit(messages) /\ [CompactNext]_compactVars
        => CompactInv' /\ FoldInv' /\ Fit(messages)'
    <2> SUFFICES ASSUME CompactInv, FoldInv, Fit(messages), [CompactNext]_compactVars
                 PROVE  CompactInv' /\ FoldInv' /\ Fit(messages)'
      OBVIOUS
    <2>1. RestoredIsResumable
      BY FoldInvRestores DEF CompactInv, IInv, LoopTypes
    <2>2. CompactInv'
      BY <2>1, CompactStepInv
    <2>3. FoldInv' /\ Fit(messages')
      BY CompactFoldKept
    <2> QED BY <2>2, <2>3 DEF Fit
  <1> QED BY <1>1, <1>2, PTL DEF CompactSpec

\* With compactions asked for at any time but while tools run, and crashes at
\* any time, every variable keeps its type and the loop's own compaction holds
\* the loop on a history nobody else touches, ...
THEOREM CompactTypeCorrect ==
  ASSUME Initial = {<<>>}, ~ CompactMidTools, ~ CompactMidRepair
  PROVE  CompactSpec => []CompactTypeOK
  <1>1. CompactSpec => [](CompactInv /\ FoldInv /\ Fit(messages))
    BY CompactInvariance
  <1> QED BY <1>1, CompactInvImplies, PTL

\* ... no request is invalid: what replaces the history under the loop is a
\* history that may be sent, ...
THEOREM CompactSendValid ==
  ASSUME Initial = {<<>>}, ~ CompactMidTools, ~ CompactMidRepair
  PROVE  CompactSpec => []SendIsValid
  <1>1. CompactSpec => [](CompactInv /\ FoldInv /\ Fit(messages))
    BY CompactInvariance
  <1> QED BY <1>1, CompactInvImplies, PTL

\* ... and the log, records of compactions included, restores at every instant
\* to a history a run can be started on.
THEOREM CompactRestores ==
  ASSUME Initial = {<<>>}, ~ CompactMidTools, ~ CompactMidRepair
  PROVE  CompactSpec => []RestoredIsResumable
  <1>1. CompactSpec => [](CompactInv /\ FoldInv /\ Fit(messages))
    BY CompactInvariance
  <1>2. CompactInv /\ FoldInv => RestoredIsResumable
    BY FoldInvRestores DEF CompactInv, IInv, LoopTypes
  <1> QED BY <1>1, <1>2, PTL

-----------------------------------------------------------------------------
(* Results under compactions                                                *)

\* A compaction while no tool runs leaves every round whole.
LEMMA ReplaceWhole ==
  ASSUME CompactInv, RoundsEndWhole, NEW keep \in Nat, Commit(Compacted(messages, keep)),
         pc \notin {"tools", "gate"}, results' = results
  PROVE  RoundsEndWhole'
  <1>1. /\ messages \in Seq(Message) /\ Resumable(messages) /\ DistinctCalls(messages)
        /\ log \in Seq(Record \cup CompactRecords)
    BY DEF CompactInv, CompactTypes, IInv, LoopTypes
  <1>2. /\ Orphans(messages) = {}
        /\ \A i \in 1..Len(messages) : NoneAborted(messages[i].results)
    BY DEF RoundsEndWhole
  <1> DEFINE new == Compacted(messages, keep)
  <1>3. Orphans(new) = {} /\ \A i \in 1..Len(new) : NoneAborted(new[i].results)
    BY <1>1, <1>2, CompactedResumable
  <1>4. messages' = new
    BY DEF Commit
  <1> HIDE DEF new
  <1> QED BY <1>3, <1>4 DEF RoundsEndWhole

\* Every step leaves every round whole.
LEMMA CompactRoundsKept ==
  ASSUME ~ HooksDeny, ~ ToolsMayThrow, CompactInv, RoundsEndWhole,
         pc = "down" => RestoredIsResumable /\ RestoredIsTrue, [CompactNext]_compactVars
  PROVE  RoundsEndWhole'
  <1>1. CASE [Next]_vars
    BY <1>1, RoundsKept DEF CompactInv
  <1>2. CASE CompactCrash
    <2>1. messages' = <<>> /\ results' = {}
      BY <1>2 DEF CompactCrash, Crash, ResetLoop
    <2> QED BY <2>1 DEF RoundsEndWhole, NoneAborted, Orphans
  <1>3. CASE Restart
    <2> DEFINE ms == Restored(log)
    <2>1. messages' = ms /\ results' = results
      BY <1>3 DEF Restart, loop
    <2>2. /\ ms \in Seq(Message) /\ CallsAnswered(ms, Len(ms))
          /\ \A i \in 1..Len(ms) : NoneAborted(ms[i].results)
      BY <1>3 DEF Restart, RestoredIsResumable, RestoredIsTrue
    <2> HIDE DEF ms
    <2>3. ms # <<>> => Len(ms) \in 1..Len(ms) /\ ~ (Len(ms) < Len(ms))
      <3> HIDE DEF Message
      <3> QED BY <2>2
    <2>4. Orphans(ms) = {}
      BY <2>2, <2>3 DEF CallsAnswered, Orphans
    <2> QED BY <2>1, <2>2, <2>4 DEF RoundsEndWhole
  <1>4. CASE UserCompactEnds
    <2>1. job.by = "user" /\ results' = results /\ pc' = pc
      BY <1>4 DEF UserCompactEnds, loop
    <2>2. CASE messages = job.snapshot
      <3>1. pc \notin {"tools", "gate"}
        BY <2>1, <2>2 DEF CompactInv, JobInv
      <3>2. Commit(Compacted(messages, job.keep))
        BY <1>4, <2>2 DEF UserCompactEnds
      <3>3. job.keep \in Nat
        BY <2>1, JobTypes DEF CompactInv
      <3> QED BY <2>1, <3>1, <3>2, <3>3, ReplaceWhole
    <2>3. CASE messages # job.snapshot
      <3>1. messages' = messages
        BY <1>4, <2>3 DEF UserCompactEnds
      <3> QED BY <2>1, <3>1 DEF RoundsEndWhole
    <2> QED BY <2>2, <2>3
  <1>5. CASE LoopCompactEnds
    <2>1. /\ job.by = "loop" /\ results' = results
          /\ Commit(Compacted(messages, job.keep))
      BY <1>5 DEF LoopCompactEnds, LoopWaits
    <2>2. pc \notin {"tools", "gate"}
      BY <2>1 DEF CompactInv, JobInv, LoopWaits
    <2>3. job.keep \in Nat
      BY <2>1, JobTypes DEF CompactInv
    <2> QED BY <2>1, <2>2, <2>3, ReplaceWhole
  <1>6. CASE \/ LoopCompacts
             \/ \E keep \in Keeps : UserCompacts(keep)
             \/ \E request \in Requests : PluginAsks(request)
    <2>1. messages' = messages /\ results' = results
      BY <1>6 DEF LoopCompacts, UserCompacts, PluginAsks, sessionVars, vars, loop
    <2>2. pc \in {"tools", "gate"} => pc' = pc
      BY <1>6 DEF LoopCompacts, MustDrain, UserCompacts, PluginAsks, sessionVars, vars
    <2> QED BY <2>1, <2>2 DEF RoundsEndWhole
  <1> QED BY <1>1, <1>2, <1>3, <1>4, <1>5, <1>6 DEF CompactNext, compactVars, sessionVars

\* Nor does any step log a synthetic result.
LEMMA CompactFoldTrueKept ==
  ASSUME CompactInv, FoldInv, Fit(messages), RoundsEndWhole, FoldTrue,
         [CompactNext]_compactVars
  PROVE  FoldTrue'
  <1>1. CASE [Next]_vars
    <2>1. LogGrows /\ log \in Seq(Record \cup CompactRecords) /\ Fold \in Seq(Message)
      BY <1>1, StepGrows DEF CompactInv, CompactTypes, FoldInv, Folded
    <2>2. Record \subseteq Record \cup CompactRecords
      OBVIOUS
    <2> QED BY <2>1, <2>2, FoldTrueKept
  <1>2. CASE CompactCrash \/ Restart
    <2>1. log' = log
      BY <1>2 DEF CompactCrash, Crash, Restart
    <2> QED BY <2>1 DEF FoldTrue, Fold
  <1>3. CASE LoopCompactEnds \/ (UserCompactEnds /\ messages = job.snapshot)
    <2>1. /\ Fold' = messages' /\ pc \notin InRound /\ results' = results
          /\ \E keep \in Nat : Commit(Compacted(messages, keep))
      BY <1>3, Committed
    <2>2. RoundsEndWhole'
      BY <2>1, ReplaceWhole DEF InRound
    <2> QED BY <2>1, <2>2 DEF RoundsEndWhole, FoldTrue
  <1>4. CASE \/ LoopCompacts
             \/ UserCompactEnds /\ messages # job.snapshot
             \/ \E keep \in Keeps : UserCompacts(keep)
             \/ \E request \in Requests : PluginAsks(request)
    <2>1. Fold' = Fold
      BY <1>4, NothingCommitted
    <2> QED BY <2>1 DEF FoldTrue
  <1> QED BY <1>1, <1>2, <1>3, <1>4 DEF CompactNext, compactVars, sessionVars

\* With compactions and crashes too, no call the log records as run is shown
\* as aborted, when no hook stops a round and no tool throws.
THEOREM CompactResultsTrue ==
  ASSUME Initial = {<<>>}, ~ CompactMidTools, ~ CompactMidRepair, ~ HooksDeny,
         ~ ToolsMayThrow
  PROVE  CompactSpec => []ResultsAreTrue
  <1>1. CompactSpec => [](CompactInv /\ FoldInv /\ Fit(messages))
    BY CompactInvariance
  <1>2. CompactInit => RoundsEndWhole /\ FoldTrue
    <2>1. CompactInit => RoundsEndWhole
      BY DEF CompactInit, SessionInit, Init, RoundsEndWhole, NoneAborted, Orphans
    <2>2. CompactInit => FoldTrue
      BY NothingFolds DEF CompactInit, SessionInit, Init
    <2> QED BY <2>1, <2>2
  <1>3. /\ CompactInv /\ FoldInv /\ Fit(messages) /\ RoundsEndWhole /\ FoldTrue
        /\ [CompactNext]_compactVars
        => RoundsEndWhole' /\ FoldTrue'
    <2> SUFFICES ASSUME CompactInv, FoldInv, Fit(messages), RoundsEndWhole, FoldTrue,
                        [CompactNext]_compactVars
                 PROVE  RoundsEndWhole' /\ FoldTrue'
      OBVIOUS
    <2>1. RestoredIsResumable /\ RestoredIsTrue
      BY FoldInvRestores DEF CompactInv, IInv, LoopTypes
    <2>2. RoundsEndWhole'
      BY <2>1, CompactRoundsKept
    <2> QED BY <2>2, CompactFoldTrueKept
  <1>4. RoundsEndWhole => ResultsAreTrue
    BY DEF RoundsEndWhole, NoneAborted, ResultsAreTrue
  <1> QED BY <1>1, <1>2, <1>3, <1>4, PTL DEF CompactSpec

-----------------------------------------------------------------------------
(* The answers a log restores                                               *)

\* The message, if it is an answer.
IfAnswer(m) == {x \in {m} : x.role = "assistant"}

\* The answers of ms whose calls the next message answers in full.
Closed(ms) ==
    {ms[i] : i \in {k \in 1..Len(ms) : ms[k].role = "assistant" /\ k \notin Unanswered(ms)}}

\* What the answers of a history are.
LEMMA AnswersOf ==
  ASSUME NEW ms, NEW a
  PROVE  a \in Answers(ms) <=> \E i \in 1..Len(ms) : ms[i] = a /\ a.role = "assistant"
  BY DEF Answers

\* A message behind the others.
LEMMA AnswersAppend ==
  ASSUME NEW ms \in Seq(Message), NEW m \in Message
  PROVE  Answers(Append(ms, m)) = Answers(ms) \cup IfAnswer(m)
  <1> DEFINE new == Append(ms, m)
  <1>1. /\ Len(ms) \in Nat /\ Len(new) = Len(ms) + 1 /\ new[Len(ms) + 1] = m
        /\ \A i \in 1..Len(ms) : new[i] = ms[i]
    <2> HIDE DEF Message
    <2> QED OBVIOUS
  <1> HIDE DEF new
  <1>2. /\ \A i \in 1..Len(new) : i = Len(ms) + 1 \/ i \in 1..Len(ms)
        /\ Len(ms) + 1 \in 1..Len(new) /\ \A i \in 1..Len(ms) : i \in 1..Len(new)
    BY <1>1
  <1>3. ASSUME NEW a PROVE a \in Answers(new) <=> a \in Answers(ms) \cup IfAnswer(m)
    BY <1>1, <1>2, AnswersOf DEF IfAnswer
  <1> QED BY <1>3 DEF new

\* A message in front of the others.
LEMMA AnswersFront ==
  ASSUME NEW ms \in Seq(Message), NEW m \in Message
  PROVE  Answers(<<m>> \o ms) = Answers(ms) \cup IfAnswer(m)
  <1> DEFINE new == <<m>> \o ms
  <1>1. /\ Len(ms) \in Nat /\ Len(new) = Len(ms) + 1 /\ new[1] = m
        /\ \A i \in 1..Len(ms) : new[i + 1] = ms[i]
        /\ \A i \in 2..Len(ms) + 1 : new[i] = ms[i - 1]
    BY FrontFacts
  <1> HIDE DEF new
  <1>2. /\ \A i \in 1..Len(new) : i = 1 \/ (i \in 2..Len(ms) + 1 /\ i - 1 \in 1..Len(ms))
        /\ 1 \in 1..Len(new) /\ \A i \in 1..Len(ms) : i + 1 \in 1..Len(new)
    BY <1>1
  <1>3. ASSUME NEW a PROVE a \in Answers(new) <=> a \in Answers(ms) \cup IfAnswer(m)
    <2>1. ASSUME a \in Answers(new) PROVE a \in Answers(ms) \cup IfAnswer(m)
      <3>1. PICK i \in 1..Len(new) : new[i] = a /\ a.role = "assistant"
        BY <2>1, AnswersOf
      <3> QED BY <1>1, <1>2, <3>1, AnswersOf DEF IfAnswer
    <2>2. ASSUME a \in Answers(ms) PROVE a \in Answers(new)
      <3>1. PICK i \in 1..Len(ms) : ms[i] = a /\ a.role = "assistant"
        BY <2>2, AnswersOf
      <3> QED BY <1>1, <1>2, <3>1, AnswersOf
    <2>3. ASSUME a \in IfAnswer(m) PROVE a \in Answers(new)
      BY <1>1, <1>2, <2>3, AnswersOf DEF IfAnswer
    <2> QED BY <2>1, <2>2, <2>3
  <1> QED BY <1>3 DEF new

\* Step 3 keeps the closed answers as they are, and no other.
LEMMA CleanedAnswers ==
  ASSUME NEW ms \in Seq(Message)
  PROVE  Cleaned(ms) \in Seq(Message) /\ Answers(Cleaned(ms)) = Closed(ms)
  <1> DEFINE n == Len(ms)
             Upto(k) == {ms[i] : i \in {j \in 1..k : ms[j].role = "assistant"
                                                     /\ j \notin Unanswered(ms)}}
  <1>1. n \in Nat
    OBVIOUS
  <1>2. PICK f : /\ f[0] = <<>>
                 /\ \A k \in 1..n : f[k] = KeepContent(f[k-1], Stripped(ms, k))
                 /\ Cleaned(ms) = f[n]
    BY <1>1, CleansUp
  <1>3. ASSUME NEW k \in 1..n
        PROVE  /\ Stripped(ms, k) \in Message
               /\ IfAnswer(Stripped(ms, k))
                     = IF k \in Unanswered(ms) THEN {} ELSE IfAnswer(ms[k])
    <2> DEFINE s == Stripped(ms, k)
    <2>1. s \in Message /\ ms[k] \in Message
      BY StrippedShapes
    <2>2. CASE k \in Unanswered(ms)
      <3>1. s.role = "user"
        BY <2>2, StrippedShapes DEF UserMsg
      <3> QED BY <2>1, <2>2, <3>1 DEF IfAnswer
    <2>3. CASE k \notin Unanswered(ms)
      <3>1. /\ s.role = ms[k].role /\ s.uses = ms[k].uses /\ s.texts = ms[k].texts
            /\ s.results = {r \in ms[k].results : r.id \in LiveIds(ms)}
        BY <2>3, StrippedShapes
      <3> HIDE DEF s
      <3>2. ASSUME ms[k].role = "assistant" PROVE s = ms[k]
        <4>1. ms[k] \in AssistantMessage /\ s \in AssistantMessage
          BY <2>1, <3>1, <3>2 DEF Message, UserMessage
        <4>2. s.results = ms[k].results
          BY <4>1 DEF AssistantMessage
        <4>3. ASSUME NEW x \in AssistantMessage
              PROVE  x = [role |-> x.role, uses |-> x.uses, results |-> x.results,
                          texts |-> x.texts]
          BY DEF AssistantMessage
        <4>4. /\ s = [role |-> s.role, uses |-> s.uses, results |-> s.results,
                       texts |-> s.texts]
              /\ ms[k] = [role |-> ms[k].role, uses |-> ms[k].uses,
                           results |-> ms[k].results, texts |-> ms[k].texts]
          BY <4>1, <4>3
        <4> QED BY <3>1, <4>2, <4>4
      <3> QED BY <2>1, <2>3, <3>1, <3>2 DEF IfAnswer, s
    <2> QED BY <2>1, <2>2, <2>3
  <1>4. Upto(0) = {}
    OBVIOUS
  <1>5. ASSUME NEW k \in 1..n
        PROVE  Upto(k) = Upto(k - 1)
                          \cup IF k \in Unanswered(ms) THEN {} ELSE IfAnswer(ms[k])
    <2>1. \A i : i \in 1..k <=> i \in 1..k-1 \/ i = k
      OBVIOUS
    <2> QED BY <2>1 DEF IfAnswer
  <1> HIDE DEF Upto
  <1> DEFINE S == {k \in 0..n : f[k] \in Seq(Message) /\ Answers(f[k]) = Upto(k)}
  <1>6. 0 \in S
    <2>1. <<>> \in Seq(Message) /\ Answers(<<>>) = {}
      BY DEF Answers
    <2> HIDE DEF n
    <2>2. f[0] \in Seq(Message)
      BY <1>2, <2>1, Zenon
    <2>3. Answers(f[0]) = Upto(0)
      BY <1>2, <1>4, <2>1, Zenon
    <2>4. 0 \in 0..n
      BY <1>1
    <2> QED BY <2>2, <2>3, <2>4
  <1>7. ASSUME NEW k \in 1..n, k - 1 \in S PROVE k \in S
    <2> DEFINE m == Stripped(ms, k)
               c == f[k-1]
    <2>1. /\ c \in Seq(Message) /\ Answers(c) = Upto(k - 1) /\ k \in 0..n
          /\ f[k] = KeepContent(c, m)
      BY <1>1, <1>2, <1>7
    <2>2. m \in Message /\ Upto(k) = Upto(k - 1) \cup IfAnswer(m)
      BY <1>3, <1>5
    <2> HIDE DEF m, c
    <2>3. f[k] \in Seq(Message) /\ Answers(f[k]) = Answers(c) \cup IfAnswer(m)
      <3>1. CASE m.role = "assistant" \/ m.results # {} \/ m.texts # <<>>
        <4>1. f[k] = Append(c, m)
          BY <2>1, <3>1 DEF KeepContent
        <4>2. Append(c, m) \in Seq(Message)
          <5> HIDE DEF Message
          <5> QED BY <2>1, <2>2
        <4> QED BY <2>1, <2>2, <4>1, <4>2, AnswersAppend
      <3>2. CASE ~ (m.role = "assistant" \/ m.results # {} \/ m.texts # <<>>)
        <4>1. f[k] = c
          BY <2>1, <3>2 DEF KeepContent
        <4> QED BY <2>1, <3>2, <4>1 DEF IfAnswer
      <3> QED BY <3>1, <3>2
    <2> QED BY <2>1, <2>2, <2>3
  <1>8. n \in S
    <2> HIDE DEF S, n
    <2>1. \A k \in 0..n : k \in S
      BY <1>1, <1>6, <1>7, CountsUp
    <2> QED BY <1>1, <2>1
  <1>9. Upto(n) = Closed(ms)
    BY DEF Upto, Closed
  <1> QED BY <1>2, <1>8, <1>9

\* Step 4 leaves the answers alone.
LEMMA CollapsedAnswers ==
  ASSUME NEW c \in Seq(Message)
  PROVE  CollapseUsers(c) \in Seq(Message) /\ Answers(CollapseUsers(c)) = Answers(c)
  <1> DEFINE n == Len(c)
             After(k) == {c[i] : i \in {j \in k..n : c[j].role = "assistant"}}
  <1>1. n \in Nat
    OBVIOUS
  <1>2. PICK f : /\ f[n + 1] = <<>>
                 /\ \A k \in 1..n : f[k] = AbsorbUser(c[k], f[k+1])
                 /\ CollapseUsers(c) = f[1]
    BY <1>1, CollapsesDown
  <1>3. /\ After(n + 1) = {} /\ After(1) = Answers(c)
        /\ \A k \in 1..n : After(k) = After(k + 1) \cup IfAnswer(c[k])
    <2>1. After(1) = Answers(c)
      BY DEF Answers
    <2>2. \A i : i \notin n+1..n
      BY <1>1
    <2>3. \A k \in 1..n : \A i : i \in k..n <=> i \in k+1..n \/ i = k
      BY <1>1
    <2> QED BY <2>1, <2>2, <2>3 DEF IfAnswer
  <1>4. \A k \in 1..n : c[k] \in Message
    OBVIOUS
  <1> HIDE DEF After, n
  <1> DEFINE S == {i \in 0..n : /\ f[(n + 1) - i] \in Seq(Message)
                                /\ Answers(f[(n + 1) - i]) = After((n + 1) - i)}
  <1>5. 0 \in S
    <2>1. <<>> \in Seq(Message) /\ Answers(<<>>) = {}
      BY DEF Answers
    <2>2. (n + 1) - 0 = n + 1 /\ 0 \in 0..n
      BY <1>1
    <2> QED BY <1>2, <1>3, <2>1, <2>2
  <1>6. ASSUME NEW t \in Seq(Message), NEW m \in Message
        PROVE  /\ AbsorbUser(m, t) \in Seq(Message)
               /\ Answers(AbsorbUser(m, t)) = Answers(t) \cup IfAnswer(m)
    <2>1. CASE Opens(m, t)
      <3> DEFINE h == t[1]
                 rest == Tail(t)
                 kept == IF HasText(m, "checkpoint") THEN m.texts ELSE <<>>
                 u == UserMsg(m.results \cup h.results, kept \o h.texts)
      <3>1. t # <<>> /\ h.role = "user" /\ m.role = "user" /\ Head(t) = h
        BY <2>1 DEF Opens
      <3>2. h \in Message /\ rest \in Seq(Message) /\ t = <<h>> \o rest
        <4> HIDE DEF Message
        <4>1. h \in Message /\ rest \in Seq(Message) /\ Len(t) \in Nat /\ Len(t) > 0
              /\ Len(rest) = Len(t) - 1 /\ \A i \in 1..Len(t)-1 : rest[i] = t[i+1]
          BY <3>1
        <4> HIDE DEF rest, h
        <4> DEFINE q == <<h>> \o rest
        <4>2. /\ q \in Seq(Message) /\ Len(q) = Len(rest) + 1 /\ q[1] = h
              /\ \A i \in 2..Len(rest) + 1 : q[i] = rest[i - 1]
          BY <4>1, FrontFacts
        <4> HIDE DEF q
        <4>3. Len(q) = Len(t)
          BY <4>1, <4>2
        <4>4. ASSUME NEW i \in 1..Len(t) PROVE q[i] = t[i]
          <5>1. CASE i = 1
            BY <4>2, <5>1 DEF h
          <5>2. CASE i # 1
            <6>1. i \in 2..Len(rest) + 1 /\ i - 1 \in 1..Len(t)-1 /\ (i - 1) + 1 = i
              BY <4>1, <5>2
            <6> QED BY <4>1, <4>2, <6>1
          <5> QED BY <5>1, <5>2
        <4>5. q = t
          BY <4>2, <4>3, <4>4
        <4> QED BY <4>1, <4>5 DEF q
      <3>3. u \in Message /\ u.role = "user"
        <4>1. /\ m.results \in SUBSET Result /\ h.results \in SUBSET Result
              /\ m.texts \in Seq(Text) /\ h.texts \in Seq(Text)
          BY <3>2, MessageShapes
        <4>2. kept \in Seq(Text)
          BY <4>1, TextTypes
        <4> HIDE DEF kept, h
        <4>3. kept \o h.texts \in Seq(Text)
          <5> HIDE DEF Text
          <5> QED BY <4>1, <4>2
        <4> QED BY <4>1, <4>3, MessageTypes DEF UserMsg, Message
      <3>4. AbsorbUser(m, t) = <<u>> \o rest
        BY <2>1, <3>1 DEF AbsorbUser
      <3> HIDE DEF u, rest, h
      <3>5. /\ Answers(<<u>> \o rest) = Answers(rest) \cup IfAnswer(u)
            /\ Answers(<<h>> \o rest) = Answers(rest) \cup IfAnswer(h)
            /\ <<u>> \o rest \in Seq(Message)
        BY <3>2, <3>3, AnswersFront, FrontFacts
      <3>6. IfAnswer(u) = {} /\ IfAnswer(h) = {} /\ IfAnswer(m) = {}
        BY <3>1, <3>3 DEF IfAnswer
      <3> QED BY <3>2, <3>4, <3>5, <3>6
    <2>2. CASE ~ Opens(m, t)
      <3>1. AbsorbUser(m, t) = <<m>> \o t
        BY <2>2 DEF AbsorbUser
      <3> QED BY <3>1, AnswersFront, FrontFacts
    <2> QED BY <2>1, <2>2
  <1>7. ASSUME NEW i \in 1..n, i - 1 \in S PROVE i \in S
    <2> DEFINE k == (n + 1) - i
    <2>1. k \in 1..n /\ (n + 1) - (i - 1) = k + 1 /\ i \in 0..n
      BY <1>1
    <2>2. f[k+1] \in Seq(Message) /\ Answers(f[k+1]) = After(k + 1)
      BY <1>7, <2>1
    <2> HIDE DEF k
    <2>3. f[k] \in Seq(Message) /\ Answers(f[k]) = After(k)
      BY <1>2, <1>3, <1>4, <1>6, <2>1, <2>2
    <2> QED BY <2>1, <2>3 DEF k
  <1>8. n \in S
    <2>1. \A k \in 0..n : k \in S
      <3> HIDE DEF S
      <3> QED BY <1>1, <1>5, <1>7, CountsUp
    <2> QED BY <1>1, <2>1
  <1>9. (n + 1) - n = 1
    BY <1>1
  <1> QED BY <1>2, <1>3, <1>8, <1>9

\* A draft is no answer.
LEMMA UndraftedAnswers ==
  ASSUME NEW r \in Seq(Message)
  PROVE  Answers(WithoutDraft(r)) = Answers(r)
  <1> DEFINE n == Len(r)
             last == r[n]
             s == SubSeq(r, 1, n - 1)
  <1>1. CASE PendingDraft(r) = <<>>
    BY <1>1 DEF WithoutDraft
  <1>2. CASE PendingDraft(r) # <<>>
    <2>1. EndsInUser(r)
      BY <1>2 DEF PendingDraft
    <2>2. /\ n \in Nat /\ n > 0 /\ last.role = "user" /\ last \in Message /\ Last(r) = last
          /\ Front(r) = s
      BY <2>1 DEF EndsInUser, Last, Front
    <2>3. s \in Seq(Message) /\ r = Append(s, last)
      <3> DEFINE k == n - 1
                 q == Append(s, last)
      <3>1. k \in Nat /\ k <= Len(r) /\ Len(r) = k + 1
        BY <2>2
      <3> HIDE DEF Message, k
      <3>2. /\ s \in Seq(Message) /\ Len(s) = k
            /\ \A i \in 1..k : s[i] = r[i]
        BY <3>1 DEF k
      <3> HIDE DEF s, last
      <3>3. /\ q \in Seq(Message) /\ Len(q) = k + 1 /\ q[k + 1] = last
            /\ \A i \in 1..k : q[i] = s[i]
        BY <2>2, <3>2
      <3> HIDE DEF q
      <3>4. \A i \in 1..Len(r) : i = k + 1 \/ i \in 1..k
        BY <3>1
      <3>5. last = r[k + 1]
        BY <3>1 DEF last
      <3>6. \A i \in 1..Len(r) : q[i] = r[i]
        BY <3>2, <3>3, <3>4, <3>5
      <3>7. q = r
        BY <3>1, <3>3, <3>6
      <3> QED BY <3>2, <3>7 DEF q
    <2> HIDE DEF s, last
    <2>4. Answers(r) = Answers(s)
      <3>1. IfAnswer(last) = {}
        BY <2>2 DEF IfAnswer
      <3>2. Answers(Append(s, last)) = Answers(s) \cup IfAnswer(last)
        BY <2>2, <2>3, AnswersAppend
      <3> QED BY <2>3, <3>1, <3>2
    <2>5. CASE last.results = {}
      BY <1>2, <2>2, <2>4, <2>5 DEF WithoutDraft
    <2>6. CASE last.results # {}
      <3> DEFINE m == UserMsg(last.results, <<>>)
      <3>1. m \in Message /\ m.role = "user"
        BY <2>2, MessageShapes, MessageTypes, TextTypes DEF UserMsg, Message
      <3>2. WithoutDraft(r) = s \o <<m>>
        BY <1>2, <2>2, <2>6 DEF WithoutDraft
      <3> HIDE DEF m
      <3>3. s \o <<m>> = Append(s, m)
        <4> HIDE DEF Message
        <4> QED BY <2>3, <3>1
      <3>4. Answers(Append(s, m)) = Answers(s) \cup IfAnswer(m)
        BY <2>3, <3>1, AnswersAppend
      <3>5. IfAnswer(m) = {}
        BY <3>1 DEF IfAnswer
      <3> QED BY <2>4, <3>2, <3>3, <3>4, <3>5
    <2> QED BY <2>5, <2>6
  <1> QED BY <1>1, <1>2

\* What a log restores are the closed answers of what it folds into.
LEMMA RestoredAnswers ==
  ASSUME NEW records, FoldRecords(records) \in Seq(Message)
  PROVE  Answers(Restored(records)) = Closed(FoldRecords(records))
  <1> DEFINE ms == FoldRecords(records)
             r == RepairMessages(ms)
  <1>1. r \in Seq(Message) /\ Answers(r) = Closed(ms)
    BY CleanedAnswers, CollapsedAnswers DEF RepairMessages
  <1> HIDE DEF r
  <1> QED BY <1>1, UndraftedAnswers DEF Restored, Repaired, r

-----------------------------------------------------------------------------
(* The answers a step adds                                                  *)

\* What a step logs of answers.
Logged == {log'[i] : i \in {k \in Len(log)+1..Len(log') : log'[k].role = "assistant"}}

\* The answers of entries behind the others, and where they are.
LEMMA AnswersJoin ==
  ASSUME NEW X, NEW l \in Seq(X), NEW es \in Seq(X)
  PROVE  /\ Answers(l \o es) = Answers(l) \cup Answers(es)
         /\ \A a : a \in Answers(es) <=> \E i \in Len(l)+1..Len(l \o es) :
                                           (l \o es)[i] = a /\ a.role = "assistant"
  <1> DEFINE new == l \o es
  <1>1. /\ Len(l) \in Nat /\ Len(es) \in Nat /\ Len(new) = Len(l) + Len(es)
        /\ \A i \in 1..Len(l) : new[i] = l[i]
        /\ \A i \in 1..Len(es) : new[i + Len(l)] = es[i]
    OBVIOUS
  <1> HIDE DEF new
  <1>2. /\ \A i \in 1..Len(new) : i \in 1..Len(l) \/ i \in Len(l)+1..Len(new)
        /\ \A i \in Len(l)+1..Len(new) : /\ i - Len(l) \in 1..Len(es)
                                         /\ (i - Len(l)) + Len(l) = i
                                         /\ i \in 1..Len(new)
        /\ \A i \in 1..Len(l) : i \in 1..Len(new)
        /\ \A i \in 1..Len(es) : i + Len(l) \in Len(l)+1..Len(new)
    BY <1>1
  <1>3. \A i \in Len(l)+1..Len(new) : new[i] = es[i - Len(l)]
    <2> TAKE i \in Len(l)+1..Len(new)
    <2>1. i - Len(l) \in 1..Len(es) /\ (i - Len(l)) + Len(l) = i
      BY <1>2
    <2> QED BY <1>1, <2>1
  <1>4. ASSUME NEW a
        PROVE  /\ a \in Answers(new) <=> a \in Answers(l) \cup Answers(es)
               /\ a \in Answers(es) <=>
                     \E i \in Len(l)+1..Len(new) : new[i] = a /\ a.role = "assistant"
    <2>1. a \in Answers(es) <=>
             \E i \in Len(l)+1..Len(new) : new[i] = a /\ a.role = "assistant"
      <3>1. ASSUME a \in Answers(es)
            PROVE  \E i \in Len(l)+1..Len(new) : new[i] = a /\ a.role = "assistant"
        <4>1. PICK i \in 1..Len(es) : es[i] = a /\ a.role = "assistant"
          BY <3>1, AnswersOf
        <4> QED BY <1>1, <1>2, <4>1
      <3>2. ASSUME NEW i \in Len(l)+1..Len(new), new[i] = a, a.role = "assistant"
            PROVE  a \in Answers(es)
        BY <1>2, <1>3, <3>2, AnswersOf
      <3> QED BY <3>1, <3>2
    <2>2. a \in Answers(l) <=> \E i \in 1..Len(l) : new[i] = a /\ a.role = "assistant"
      BY <1>1, AnswersOf
    <2> QED BY <1>2, <2>1, <2>2, AnswersOf
  <1>5. Answers(new) = Answers(l) \cup Answers(es)
    BY <1>4
  <1> QED BY <1>4, <1>5 DEF new

\* The answers of entries that are logged.
LEMMA LoggedJoin ==
  ASSUME NEW X, log \in Seq(X), NEW es \in Seq(X), log' = log \o es
  PROVE  Logged = Answers(es)
  <1>1. \A a : a \in Answers(es) <=> \E i \in Len(log)+1..Len(log') :
                                         log'[i] = a /\ a.role = "assistant"
    <2>1. \A a : a \in Answers(es) <=> \E i \in Len(log)+1..Len(log \o es) :
                                           (log \o es)[i] = a /\ a.role = "assistant"
      BY AnswersJoin
    <2> QED BY <2>1
  <1>2. \A a : a \in Logged <=> \E i \in Len(log)+1..Len(log') :
                                    log'[i] = a /\ a.role = "assistant"
    BY DEF Logged
  <1> QED BY <1>1, <1>2

\* The answers of one message, or of two.
LEMMA AnswersFew ==
  ASSUME NEW m, NEW u
  PROVE  /\ Answers(<<>>) = {} /\ Answers(<<m>>) = IfAnswer(m)
         /\ Answers(<<m>> \o <<u>>) = IfAnswer(m) \cup IfAnswer(u)
  <1>1. Answers(<<>>) = {} /\ Answers(<<m>>) = IfAnswer(m) /\ Answers(<<u>>) = IfAnswer(u)
    BY DEF Answers, IfAnswer
  <1> DEFINE X == {m, u}
  <1>2. <<m>> \in Seq(X) /\ <<u>> \in Seq(X)
    OBVIOUS
  <1> HIDE DEF X
  <1>3. Answers(<<m>> \o <<u>>) = Answers(<<m>>) \cup Answers(<<u>>)
    BY <1>2, AnswersJoin
  <1> QED BY <1>1, <1>3

\* Coalescing a user turn, and popping trailing ones, touches no answer.
LEMMA UserTurnAnswers ==
  ASSUME NEW ms \in Seq(Message), NEW rs \in SUBSET Result, NEW ts \in Seq(Text)
  PROVE  Answers(AppendUserTurn(ms, rs, ts)) = Answers(ms)
  <1>1. CASE ~ EndsInUser(ms)
    <2> DEFINE m == UserMsg(rs, ts)
    <2>1. m \in Message /\ m.role = "user"
      <3>1. m \in UserMessage
        BY MessageTypes DEF UserMsg
      <3> QED BY <3>1 DEF Message, UserMsg
    <2>3. IfAnswer(m) = {}
      BY <2>1 DEF IfAnswer
    <2>2. AppendUserTurn(ms, rs, ts) = Append(ms, m)
      BY <1>1 DEF AppendUserTurn
    <2> HIDE DEF m
    <2> QED BY <2>1, <2>2, <2>3, AnswersAppend
  <1>2. CASE EndsInUser(ms)
    <2> DEFINE n == Len(ms)
               m == UserMsg(ms[n].results \cup rs, ms[n].texts \o ts)
               new == [ms EXCEPT ![n] = m]
    <2>1. AppendUserTurn(ms, rs, ts) = new /\ ms[n].role = "user" /\ ms # <<>>
      BY <1>2 DEF AppendUserTurn, EndsInUser
    <2>2. m.role = "user"
      BY DEF UserMsg
    <2> HIDE DEF m
    <2>3. Len(new) = n /\ n \in Nat /\ new[n] = m /\ \A i \in 1..n : i # n => new[i] = ms[i]
      <3> HIDE DEF Message
      <3> QED BY <2>1
    <2> HIDE DEF new
    <2>4. ASSUME NEW a PROVE a \in Answers(new) <=> a \in Answers(ms)
      BY <2>1, <2>2, <2>3, AnswersOf
    <2> QED BY <2>1, <2>4
  <1> QED BY <1>1, <1>2

LEMMA RollbackAnswers ==
  ASSUME NEW ms \in Seq(Message)
  PROVE  Answers(RollbackPendingTurn(ms)) = Answers(ms)
  <1> DEFINE n == RollbackPoint(ms)
             new == RollbackPendingTurn(ms)
  <1>1. /\ Len(new) = n /\ n \in 0..Len(ms) /\ Len(ms) \in Nat
        /\ \A i \in 1..n : new[i] = ms[i]
    BY RollbackKeeps
  <1>2. \A i \in 1..Len(ms) : ms[i].role = "assistant" => i <= n
    BY RollbackPointExists DEF LoadBearing
  <1> HIDE DEF n, new
  <1>3. \A i \in 1..n : i \in 1..Len(ms)
    BY <1>1
  <1>4. \A i \in 1..Len(ms) : ms[i].role = "assistant" => i \in 1..n
    BY <1>1, <1>2
  <1>5. ASSUME NEW a PROVE a \in Answers(new) <=> a \in Answers(ms)
    BY <1>1, <1>3, <1>4, AnswersOf
  <1> QED BY <1>5 DEF new

\* A step of the loop loses no answer, and gains those it logs.
LEMMA StepAnswers ==
  ASSUME NEW X, log \in Seq(X), Record \subseteq X, IInv, [Next]_vars
  PROVE  Answers(messages') = Answers(messages) \cup Logged
  <1>0. LoopTypes /\ messages \in Seq(Message) /\ results \in SUBSET Result
    BY DEF IInv, LoopTypes
  <1>1. Message \subseteq X /\ \A r \in Result : ResultRecord(r) \in X
    BY DEF Record, ResultRecord
  <1>2. log' = log => Logged = {}
    <2>1. <<>> \in Seq(X) /\ log \o <<>> = log
      OBVIOUS
    <2>2. log' = log \o <<>> => Logged = Answers(<<>>)
      BY <2>1, LoggedJoin
    <2>3. Answers(<<>>) = {}
      BY DEF Answers
    <2> QED BY <2>1, <2>2, <2>3
  <1>3. ASSUME NEW r \in X, r.role # "assistant", log' = Append(log, r)
        PROVE  Logged = {}
    <2>1. <<r>> \in Seq(X) /\ Append(log, r) = log \o <<r>>
      OBVIOUS
    <2>2. IfAnswer(r) = {}
      BY <1>3 DEF IfAnswer
    <2>3. Logged = Answers(<<r>>)
      BY <1>3, <2>1, LoggedJoin
    <2>4. Answers(<<r>>) = IfAnswer(r)
      BY AnswersFew
    <2> QED BY <2>2, <2>3, <2>4
  <1>4. ASSUME NEW ts \in Seq(Text), log' = LogUser(ts) PROVE Logged = {}
    <2> DEFINE u == UserMsg({}, ts)
    <2>1. u \in Message /\ u.role # "assistant"
      BY MessageTypes DEF Message, UserMsg
    <2> HIDE DEF u
    <2>2. log' = log \/ log' = Append(log, u)
      BY <1>4 DEF LogUser, u
    <2> QED BY <1>1, <1>2, <1>3, <2>1, <2>2
  <1>5. ASSUME NEW es \in Seq(Message), Extend(es)
        PROVE  Answers(messages') = Answers(messages) \cup Logged
    <2>1. messages' = messages \o es /\ log' = log \o es
      BY <1>5 DEF Extend
    <2>2. es \in Seq(X)
      <3>1. \A i \in 1..Len(es) : es[i] \in Message
        OBVIOUS
      <3>2. \A i \in 1..Len(es) : es[i] \in X
        BY <1>1, <3>1
      <3> HIDE DEF Message
      <3>3. Len(es) \in Nat /\ es = [i \in 1..Len(es) |-> es[i]]
        OBVIOUS
      <3> QED BY <3>2, <3>3
    <2>3. Answers(messages \o es) = Answers(messages) \cup Answers(es)
      BY <1>0, AnswersJoin
    <2>4. Logged = Answers(es)
      BY <2>1, <2>2, LoggedJoin
    <2> QED BY <2>1, <2>3, <2>4
  <1>6. ASSUME NEW rs \in SUBSET Result, NEW ts \in Seq(Text), OpenTurn(rs, ts)
        PROVE  Answers(messages') = Answers(messages) \cup Logged
    <2>1. messages' = AppendUserTurn(messages, rs, ts) /\ log' = LogUser(ts)
      BY <1>6 DEF OpenTurn
    <2> QED BY <1>0, <1>4, <1>6, <2>1, UserTurnAnswers
  <1>7. CASE StartRun \/ ContinueRun \/ PromptResolved
    <2>1. CASE StartRun
      <3>1. log' = log /\ messages' = messages
        BY <2>1 DEF StartRun
      <3> QED BY <1>2, <3>1
    <2>2. CASE ContinueRun
      <3>1. OrphanResults \in SUBSET Result
        <4>1. Orphans(messages) \in SUBSET Nat
          <5>1. messages # <<>> => messages[Len(messages)] \in Message
            BY <1>0
          <5> QED BY <5>1, MessageShapes DEF Orphans
        <4> QED BY <4>1 DEF OrphanResults, Result, Outcomes
      <3>2. OpenTurn(OrphanResults, Opening("resumed"))
        BY <2>2 DEF ContinueRun
      <3> QED BY <1>0, <1>6, <3>1, <3>2, ResumedTypes
    <2>3. CASE PromptResolved
      <3>1. /\ content.results \in SUBSET Result /\ content.texts \in Seq(Text)
            /\ OpenTurn(content.results, content.texts)
        BY <1>0, <2>3 DEF PromptResolved, LoopTypes, UserMessage
      <3> QED BY <1>6, <3>1
    <2> QED BY <1>7, <2>1, <2>2, <2>3
  <1>8. CASE Boundary
    <2>1. PICK queued \in BOOLEAN : BatchPasses(IF queued THEN <<Prompt(0)>> ELSE <<>>)
      BY <1>8 DEF Boundary
    <2> DEFINE drained == IF queued THEN <<Prompt(0)>> ELSE <<>>
               head == IF salvage THEN <<Note>> ELSE <<>>
               ts == head \o PendingModeTexts \o drained
               u == UserMsg(results, ts)
    <2>2. drained \in Seq(Text) /\ head \in Seq(Text) /\ PendingModeTexts \in Seq(Text)
      BY <1>0, TextTypes
    <2>3. BatchPasses(drained)
      BY <2>1
    <2> HIDE DEF drained
    <2>4. messages' = Append(messages, u) /\ log' = LogUser(drained)
      BY <2>3 DEF BatchPasses
    <2> HIDE DEF head
    <2>5. ts \in Seq(Text)
      <3> HIDE DEF Text
      <3> QED BY <2>2
    <2> HIDE DEF ts
    <2>6. u \in Message /\ IfAnswer(u) = {}
      <3>1. u \in UserMessage
        BY <1>0, <2>5, MessageTypes
      <3>2. u.role = "user"
        BY DEF UserMsg
      <3> HIDE DEF u
      <3> QED BY <3>1, <3>2 DEF Message, IfAnswer
    <2> HIDE DEF u
    <2>7. Answers(Append(messages, u)) = Answers(messages) \cup IfAnswer(u)
      BY <1>0, <2>6, AnswersAppend
    <2> QED BY <1>4, <2>2, <2>4, <2>6, <2>7
  <1>9. CASE Answer
    <2>1. PICK blank \in BOOLEAN : \/ AnswerCut(blank) \/ AnswerFull(blank)
                                    \/ AnswerEnds(blank) \/ WrapAnswered(blank)
      BY <1>9 DEF Answer
    <2> DEFINE said == Spoken(blank)
               cut == UserMsg({}, <<CutNote>>)
               full == UserMsg({}, <<FullNote>>)
               turn == UserMsg({}, PendingModeTexts)
               stub == AssistantMsg({}, <<Note>>)
               kept == IF said = <<>> THEN <<stub>> ELSE said
    <2>2. cut \in Message /\ full \in Message /\ turn \in Message /\ stub \in Message
      BY <1>0, MessageTypes, TextTypes DEF Message
    <2>3. said \in Seq(Message)
      <3>1. CASE said = <<>>
        BY <3>1
      <3>2. CASE \E m \in AssistantMessage : said = <<m>>
        <4>1. PICK m \in Message : said = <<m>>
          BY <3>2 DEF Message
        <4> QED BY <4>1
      <3> QED BY <1>0, <3>1, <3>2, SpokenTypes
    <2>4. Extend(said) \/ Extend(said \o <<turn>>)
          \/ Extend(kept \o <<cut>>) \/ Extend(kept \o <<full>>)
      BY <2>1 DEF AnswerCut, AnswerFull, AnswerEnds, WrapAnswered, AskToContinue
    <2> HIDE DEF said, cut, full, turn, stub
    <2>5. /\ said \o <<turn>> \in Seq(Message)
          /\ kept \o <<cut>> \in Seq(Message) /\ kept \o <<full>> \in Seq(Message)
      <3> HIDE DEF Message
      <3>1. kept \in Seq(Message)
        BY <2>2, <2>3
      <3> HIDE DEF kept
      <3> QED BY <2>2, <2>3, <3>1
    <2> HIDE DEF kept
    <2> QED BY <1>5, <2>3, <2>4, <2>5
  <1>10. CASE \E n \in 1..MaxTools, cut \in BOOLEAN : AnswerCallsTools(n, cut)
    <2>1. PICK n \in 1..MaxTools, cut \in BOOLEAN : AnswerCallsTools(n, cut)
      BY <1>10
    <2> DEFINE ids == minted+1 .. minted+n
               m == AssistantMsg(ids, <<>>)
    <2>2. ids \in SUBSET Nat
      <3>1. minted \in Nat /\ n \in Nat
        BY <1>0, Numbers
      <3> QED BY <3>1
    <2>3. Extend(<<m>>)
      BY <2>1 DEF AnswerCallsTools
    <2> HIDE DEF ids
    <2>4. m \in Message
      BY <2>2, MessageTypes, TextTypes DEF Message
    <2> HIDE DEF m
    <2>5. <<m>> \in Seq(Message)
      BY <2>4
    <2> QED BY <1>5, <2>3, <2>5
  <1>11. CASE \E id \in todo, how \in {"ran", "canceled"} : ToolReturns(id, how)
    <2>1. PICK id \in todo, how \in {"ran", "canceled"} : ToolReturns(id, how)
      BY <1>11
    <2> DEFINE r == [id |-> id, outcome |-> how]
    <2>2. r \in Result
      BY <1>0 DEF LoopTypes, Result, Outcomes
    <2>3. log' = Append(log, ResultRecord(r)) /\ messages' = messages
      BY <2>1 DEF ToolReturns
    <2> HIDE DEF r
    <2>4. ResultRecord(r) \in X /\ ResultRecord(r).role # "assistant"
      BY <1>1, <2>2 DEF ResultRecord
    <2> QED BY <1>3, <2>3, <2>4
  <1>12. CASE CapReached
    <2>1. <<Note>> \in Seq(Text) /\ {} \in SUBSET Result
      BY TextTypes
    <2>2. log' = log /\ messages' = AppendUserTurn(messages, {}, <<Note>>)
      BY <1>12 DEF CapReached
    <2> QED BY <1>0, <1>2, <2>1, <2>2, UserTurnAnswers
  <1>13. CASE Settle
    BY <1>0, <1>2, <1>13, RollbackAnswers DEF Settle
  <1>14. CASE \/ NextRound \/ StopAtTop \/ SendThrows \/ ToggleMode \/ UNCHANGED vars
              \/ ToolThrows \/ BatchHalted \/ ResolverThrows
              \/ \E who \in {"user", "mode"} : Abort(who)
    <2>1. log' = log /\ messages' = messages
      BY <1>14 DEF NextRound, StopAtTop, SendThrows, ToggleMode, Abort, ToolThrows, BatchHalted,
                   ResolverThrows, vars
    <2> QED BY <1>2, <2>1
  <1> QED BY <1>7, <1>8, <1>9, <1>10, <1>11, <1>12, <1>13, <1>14
          DEF Next, Advance, Environment

-----------------------------------------------------------------------------
(* The answers a log folds into                                             *)

\* A closed answer makes no call, or the next message has all its results.
LEMMA ClosedOf ==
  ASSUME NEW ms \in Seq(Message), NEW a
  PROVE  a \in Closed(ms) <=>
            \E i \in 1..Len(ms) :
               /\ ms[i] = a /\ a.role = "assistant"
               /\ a.uses = {} \/ (i < Len(ms) /\ a.uses \subseteq IdsOf(ms[i+1].results))
  <1>1. DOMAIN ms = 1..Len(ms)
    BY Zenon, SeqDomain
  <1> QED BY <1>1 DEF Closed, Unanswered

\* A message without results behind the others closes no answer but itself.
LEMMA ClosedAppend ==
  ASSUME NEW ms \in Seq(Message), NEW m \in Message, m.results = {}
  PROVE  Closed(Append(ms, m)) \subseteq Closed(ms) \cup IfAnswer(m)
  <1> DEFINE new == Append(ms, m)
  <1>1. /\ new \in Seq(Message) /\ Len(ms) \in Nat /\ Len(new) = Len(ms) + 1
        /\ new[Len(ms) + 1] = m /\ \A i \in 1..Len(ms) : new[i] = ms[i]
    <2> HIDE DEF Message
    <2> QED OBVIOUS
  <1> HIDE DEF new
  <1>2. ASSUME NEW a \in Closed(new) PROVE a \in Closed(ms) \cup IfAnswer(m)
    <2>1. PICK i \in 1..Len(new) :
             /\ new[i] = a /\ a.role = "assistant"
             /\ a.uses = {} \/ (i < Len(new) /\ a.uses \subseteq IdsOf(new[i+1].results))
      BY <1>1, ClosedOf
    <2>2. CASE i = Len(ms) + 1
      BY <1>1, <2>1, <2>2 DEF IfAnswer
    <2>3. CASE i = Len(ms)
      <3>1. new[i+1] = m /\ i \in 1..Len(ms) /\ IdsOf(m.results) = {}
        BY <1>1, <2>1, <2>3 DEF IdsOf
      <3>2. a.uses = {} /\ ms[i] = a
        BY <1>1, <2>1, <3>1
      <3> QED BY <2>1, <3>1, <3>2, ClosedOf
    <2>4. CASE i \in 1..Len(ms) - 1
      <3>1. i \in 1..Len(ms) /\ i + 1 \in 1..Len(ms) /\ i < Len(ms)
        BY <1>1, <2>4
      <3>2. new[i] = ms[i] /\ new[i+1] = ms[i+1]
        BY <1>1, <3>1
      <3> QED BY <2>1, <3>1, <3>2, ClosedOf
    <2>5. i = Len(ms) + 1 \/ i = Len(ms) \/ i \in 1..Len(ms) - 1
      BY <1>1
    <2> QED BY <2>2, <2>3, <2>4, <2>5
  <1> QED BY <1>2 DEF new

\* What changes behind the last answer closes no other.
LEMMA ClosedBehind ==
  ASSUME NEW ms \in Seq(Message), NEW new \in Seq(Message), NEW a \in 1..Len(ms), a <= Len(new),
         \A i \in 1..a : new[i] = ms[i],
         \A i \in 1..Len(ms) : ms[i].role = "assistant" => i <= a,
         \A i \in 1..Len(new) : new[i].role = "assistant" => i <= a
  PROVE  Answers(new) = Answers(ms) /\ Closed(new) \subseteq Closed(ms) \cup {ms[a]}
  <1>1. /\ Len(ms) \in Nat /\ Len(new) \in Nat
        /\ \A i \in 1..a : i \in 1..Len(ms) /\ i \in 1..Len(new)
        /\ \A i \in 1..Len(new) : i <= a => i \in 1..a
        /\ \A i \in 1..Len(ms) : i <= a => i \in 1..a
    <2> HIDE DEF Message
    <2>1. Len(ms) \in Nat /\ Len(new) \in Nat
      OBVIOUS
    <2> QED BY <2>1
  <1>2. ASSUME NEW x PROVE x \in Answers(new) <=> x \in Answers(ms)
    BY <1>1, AnswersOf
  <1>3. ASSUME NEW x \in Closed(new) PROVE x \in Closed(ms) \cup {ms[a]}
    <2>1. PICK i \in 1..Len(new) :
             /\ new[i] = x /\ x.role = "assistant"
             /\ x.uses = {} \/ (i < Len(new) /\ x.uses \subseteq IdsOf(new[i+1].results))
      BY ClosedOf
    <2>2. i \in 1..a
      BY <1>1, <2>1
    <2>3. CASE i = a
      BY <2>1, <2>2, <2>3
    <2>4. CASE i # a
      <3>1. i \in 1..Len(ms) /\ i + 1 \in 1..a /\ i < Len(ms)
        BY <1>1, <2>2, <2>4
      <3>2. ms[i] = x /\ ms[i+1] = new[i+1]
        BY <2>1, <2>2, <3>1
      <3>3. \/ x.uses = {}
            \/ i < Len(ms) /\ x.uses \subseteq IdsOf(ms[i+1].results)
        BY <2>1, <3>1, <3>2
      <3> QED BY <2>1, <3>1, <3>2, <3>3, ClosedOf
    <2> QED BY <2>3, <2>4
  <1> QED BY <1>2, <1>3

\* The answer whose round is in hand.
InHand == {x \in Answers(Fold) : pc \in InRound /\ x.uses = IdsOf(results) \cup todo}

\* A step of the loop adds to the fold the answers it logs, and closes none but
\* those and the one in hand.
LEMMA FoldAnswers ==
  ASSUME NEW X, log \in Seq(X), Record \subseteq X, IInv, FoldInv, LogGrows
  PROVE  /\ Answers(Fold') = Answers(Fold) \cup Logged
         /\ Closed(Fold') \subseteq Closed(Fold) \cup Logged \cup InHand
         /\ InHand' \subseteq InHand \cup Logged
  <1>1. /\ minted \in Nat /\ Folded(Fold) /\ CallsUpTo(Fold, minted) /\ Fold \in Seq(Message)
        /\ results \in SUBSET Result
    BY Numbers DEF IInv, LoopTypes, FoldInv, Folded
  <1>2. /\ log \o <<>> = log
        /\ \A m \in Message : /\ log \o <<m>> = Append(log, m)
                              /\ FoldRecords(Append(log, m)) = Append(Fold, m)
        /\ \A m, u \in Message :
              FoldRecords(log \o (<<m>> \o <<u>>)) = Append(Append(Fold, m), u)
        /\ \A r \in Result : FoldRecords(Append(log, ResultRecord(r)))
                                = AppendUserTurn(Fold, {r}, <<>>)
    BY FoldSteps
  <1>3. /\ UserMessage \subseteq Message /\ AssistantMessage \subseteq Message
        /\ \A u \in UserMessage : IfAnswer(u) = {}
        /\ \A m \in AssistantMessage : IfAnswer(m) = {m} /\ m.results = {}
    BY DEF Message, UserMessage, AssistantMessage, IfAnswer
  <1>4. Fold' = FoldRecords(log')
    BY DEF Fold
  <1>5. InHand' = {x \in Answers(Fold') : pc' \in InRound /\ x.uses = IdsOf(results') \cup todo'}
    BY DEF InHand, IdsOf
  <1>6. /\ \A m \in Message : m \in X /\ <<m>> \in Seq(X)
        /\ \A m, u \in Message : <<m>> \o <<u>> \in Seq(X)
        /\ <<>> \in Seq(X) /\ \A r \in Result : ResultRecord(r) \in X
    <2>1. Message \subseteq X /\ \A r \in Result : ResultRecord(r) \in X
      BY DEF Record, ResultRecord
    <2> HIDE DEF Message, Result
    <2> QED BY <2>1
  <1>7. "top" \notin InRound /\ "unwinding" \notin InRound
    BY DEF InRound
  <1>8. ASSUME NEW m \in Message, log' = log \o <<m>> PROVE Logged = IfAnswer(m)
    <2>1. Logged = Answers(<<m>>)
      BY <1>6, <1>8, LoggedJoin
    <2> QED BY <2>1, AnswersFew
  <1> DEFINE Goal == /\ Answers(Fold') = Answers(Fold) \cup Logged
                     /\ Closed(Fold') \subseteq Closed(Fold) \cup Logged \cup InHand
                     /\ InHand' \subseteq InHand \cup Logged
  <1>a. ASSUME log' = log \/ log' = log \o <<>>,
               pc' \in InRound => pc' = pc /\ UNCHANGED <<todo, results>>
        PROVE  Goal
    <2>1. Fold' = Fold
      BY <1>2, <1>a DEF Fold
    <2>2. Logged = {}
      <3>1. Logged = Answers(<<>>)
        BY <1>2, <1>6, <1>a, LoggedJoin
      <3> QED BY <3>1, AnswersFew
    <2>3. InHand' \subseteq InHand
      BY <1>a, <1>5, <2>1 DEF InHand
    <2> QED BY <2>1, <2>2, <2>3
  <1>b. ASSUME NEW u \in UserMessage, log' = Append(log, u) \/ log' = log \o <<u>>,
               Asks(u), pc' = "top"
        PROVE  Goal
    <2>1. Fold' = Append(Fold, u) /\ log' = log \o <<u>>
      BY <1>2, <1>3, <1>4, <1>b
    <2>2. u \in Message /\ u.results = {} /\ IfAnswer(u) = {}
      BY <1>3, <1>b DEF Asks
    <2>3. Logged = {}
      BY <1>8, <2>1, <2>2
    <2>4. InHand' = {}
      BY <1>5, <1>7, <1>b
    <2>5. /\ Answers(Append(Fold, u)) = Answers(Fold) \cup IfAnswer(u)
          /\ Closed(Append(Fold, u)) \subseteq Closed(Fold) \cup IfAnswer(u)
      BY <1>1, <2>2, AnswersAppend, ClosedAppend
    <2> QED BY <2>1, <2>2, <2>3, <2>4, <2>5
  <1>c. ASSUME NEW m \in AssistantMessage
        PROVE  /\ Answers(Append(Fold, m)) = Answers(Fold) \cup {m}
               /\ Closed(Append(Fold, m)) \subseteq Closed(Fold) \cup {m}
               /\ m \in Message
    <2>1. m \in Message /\ IfAnswer(m) = {m} /\ m.results = {}
      BY <1>3
    <2> QED BY <1>1, <2>1, AnswersAppend, ClosedAppend
  <1>d. ASSUME NEW m \in AssistantMessage, log' = log \o <<m>>, pc' = "unwinding"
        PROVE  Goal
    <2>1. Fold' = Append(Fold, m) /\ Logged = {m}
      BY <1>2, <1>3, <1>4, <1>8, <1>d
    <2>2. InHand' = {}
      BY <1>5, <1>7, <1>d
    <2> QED BY <1>c, <2>1, <2>2
  <1>e. ASSUME NEW m \in AssistantMessage, NEW u \in UserMessage,
               log' = log \o (<<m>> \o <<u>>), Asks(u), pc' = "top"
        PROVE  Goal
    <2> DEFINE new == Append(Fold, m)
    <2>1. Fold' = Append(new, u)
      BY <1>2, <1>3, <1>4, <1>e
    <2>2. u \in Message /\ u.results = {} /\ IfAnswer(u) = {} /\ m \in Message /\ IfAnswer(m) = {m}
      BY <1>3, <1>e DEF Asks
    <2>3. Logged = {m}
      <3>1. Logged = Answers(<<m>> \o <<u>>)
        BY <1>6, <1>e, <2>2, LoggedJoin
      <3>2. Answers(<<m>> \o <<u>>) = IfAnswer(m) \cup IfAnswer(u)
        BY AnswersFew
      <3> QED BY <2>2, <3>1, <3>2
    <2>4. Answers(new) = Answers(Fold) \cup {m} /\ Closed(new) \subseteq Closed(Fold) \cup {m}
      BY <1>c
    <2>5. new \in Seq(Message)
      <3> HIDE DEF Message
      <3> QED BY <1>1, <2>2
    <2> HIDE DEF new
    <2>6. /\ Answers(Append(new, u)) = Answers(new) \cup IfAnswer(u)
          /\ Closed(Append(new, u)) \subseteq Closed(new) \cup IfAnswer(u)
      BY <2>2, <2>5, AnswersAppend, ClosedAppend
    <2>7. InHand' = {}
      BY <1>5, <1>7, <1>e
    <2> QED BY <2>1, <2>2, <2>3, <2>4, <2>6, <2>7
  <1>f. ASSUME NEW m \in AssistantMessage, log' = log \o <<m>>, m.uses = todo', results' = {},
               m.uses # {}, \A id \in m.uses : minted < id /\ id <= minted'
        PROVE  Goal
    <2>1. Fold' = Append(Fold, m) /\ Logged = {m}
      BY <1>2, <1>3, <1>4, <1>8, <1>f
    <2>2. ASSUME NEW x \in InHand' PROVE x = m
      <3>0. IdsOf({}) = {} /\ Answers(Fold') = Answers(Fold) \cup {m}
        BY <1>c, <2>1 DEF IdsOf
      <3>4. x \in Answers(Fold') /\ x.uses = IdsOf(results') \cup todo'
        BY <1>5, <2>2
      <3>1. x \in Answers(Fold) \cup {m} /\ x.uses = m.uses
        BY <1>f, <3>0, <3>4
      <3>2. ASSUME x \in Answers(Fold) PROVE FALSE
        <4>1. PICK i \in 1..Len(Fold) : Fold[i] = x
          BY <3>2, AnswersOf
        <4>2. PICK id \in m.uses : TRUE
          BY <1>f
        <4>3. id \in Nat /\ id <= minted /\ minted < id
          <5>1. Fold[i] \in Message
            BY <1>1
          <5>2. id \in Fold[i].uses
            BY <3>1, <4>1
          <5>3. id \in Nat
            BY <5>1, <5>2, MessageShapes
          <5> QED BY <1>1, <1>f, <5>2, <5>3 DEF CallsUpTo
        <4> QED BY <1>1, <4>3
      <3> QED BY <3>1, <3>2
    <2> QED BY <1>c, <2>1, <2>2
  <1>g. ASSUME NEW r \in Result, pc = "tools", r.id \in todo, log' = Append(log, ResultRecord(r)),
               results' = results \cup {r}, todo' = todo \ {r.id}
        PROVE  Goal
    <2> DEFINE new == AppendUserTurn(Fold, {r}, <<>>)
    <2>1. Fold' = new
      BY <1>2, <1>4, <1>g
    <2>2. Logged = {}
      <3> DEFINE rec == ResultRecord(r)
      <3>1. rec \in X /\ rec.role # "assistant"
        BY <1>6 DEF ResultRecord
      <3>2. log' = Append(log, rec)
        BY <1>g
      <3> HIDE DEF rec
      <3>3. log' = log \o <<rec>> /\ <<rec>> \in Seq(X)
        BY <3>1, <3>2
      <3>4. Logged = Answers(<<rec>>) /\ Answers(<<rec>>) = IfAnswer(rec)
        BY <3>3, LoggedJoin, AnswersFew
      <3> QED BY <3>1, <3>4 DEF IfAnswer
    <2>3. PICK a \in 1..Len(Fold) :
             /\ Fold[a].role = "assistant" /\ Fold[a].uses = IdsOf(results) \cup todo
             /\ IF results = {} THEN a = Len(Fold)
                ELSE a + 1 = Len(Fold) /\ Fold[a+1].role = "user" /\ Fold[a+1].results = results
      BY <1>g DEF FoldInv, InRound, RoundAt
    <2>4. Fold[a] \in InHand
      BY <1>g, <2>3, AnswersOf DEF InHand, InRound
    <2>5. Len(Fold) \in Nat
      BY <1>1
    <2>6. \A i \in 1..Len(Fold) : Fold[i].role = "assistant" => i <= a
      BY <2>3, <2>5
    <2>7. /\ new \in Seq(Message) /\ a <= Len(new) /\ \A i \in 1..a : new[i] = Fold[i]
          /\ \A i \in 1..Len(new) : new[i].role = "assistant" => i <= a
      <3>1. CASE results = {}
        <4> DEFINE u == UserMsg({r}, <<>>)
        <4>1. a = Len(Fold) /\ ~ EndsInUser(Fold)
          BY <2>3, <3>1 DEF EndsInUser
        <4>2. new = Append(Fold, u) /\ u \in Message /\ u.role = "user"
          BY <4>1, MessageTypes, TextTypes DEF AppendUserTurn, Message, UserMsg
        <4> HIDE DEF u, Message, new, Fold
        <4> QED BY <1>1, <2>5, <4>1, <4>2
      <3>2. CASE results # {}
        <4> DEFINE n == Len(Fold)
                   u == UserMsg(Fold[n].results \cup {r}, Fold[n].texts \o <<>>)
        <4>1. a + 1 = n /\ EndsInUser(Fold) /\ Fold[n].role = "user"
          BY <2>3, <2>5, <3>2 DEF EndsInUser
        <4>2. new = [Fold EXCEPT ![n] = u]
          BY <4>1 DEF AppendUserTurn
        <4>3. u \in Message /\ u.role = "user"
          <5>1. n \in 1..Len(Fold)
            BY <2>3, <4>1
          <5>2. Fold[n] \in Message
            BY <1>1, <5>1
          <5>3. Fold[n].texts \in Seq(Text) /\ Fold[n].results \cup {r} \in SUBSET Result
            BY <5>2, MessageShapes
          <5>4. Fold[n].texts \o <<>> \in Seq(Text)
            <6> HIDE DEF Text
            <6> QED BY <5>3
          <5>5. u \in UserMessage
            BY <5>3, <5>4, MessageTypes
          <5> QED BY <5>5 DEF Message, UserMsg
        <4> HIDE DEF u, Message, new, Fold
        <4>4. /\ new \in Seq(Message) /\ Len(new) = n /\ new[n] = u
              /\ \A i \in 1..n : i # n => new[i] = Fold[i]
          BY <1>1, <2>5, <4>2, <4>3
        <4> QED BY <2>5, <4>1, <4>3, <4>4
      <3> QED BY <3>1, <3>2
    <2> HIDE DEF new
    <2>8. Answers(new) = Answers(Fold) /\ Closed(new) \subseteq Closed(Fold) \cup {Fold[a]}
      BY <1>1, <2>6, <2>7, ClosedBehind
    <2>9. InHand' \subseteq InHand
      <3>1. IdsOf(results') \cup todo' = IdsOf(results) \cup todo
        BY <1>g DEF IdsOf
      <3>2. pc \in InRound
        BY <1>g DEF InRound
      <3> QED BY <1>5, <2>1, <2>8, <3>1, <3>2 DEF InHand
    <2> QED BY <2>1, <2>2, <2>4, <2>8, <2>9
  <1> HIDE DEF Goal
  <1>9. Goal
    BY <1>a, <1>b, <1>d, <1>e, <1>f, <1>g DEF LogGrows
  <1> QED BY <1>9 DEF Goal

-----------------------------------------------------------------------------
(* Nothing let go of comes back                                             *)

\* Every answer that the log restores, or that would be restored were its round
\* complete, is in the history.
HeldInv == pc # "down" => Closed(Fold) \cup InHand \subseteq Answers(messages)

\* A dead process does nothing.
LEMMA DownStays ==
  ASSUME [Next]_vars, pc = "down"
  PROVE  pc' = "down"
  <1>1. CASE UNCHANGED vars
    BY <1>1 DEF vars
  <1>2. CASE Answer
    BY <1>2 DEF Answer, AnswerCut, AnswerFull, AnswerEnds, WrapAnswered
  <1>3. CASE \/ NextRound \/ StopAtTop \/ CapReached \/ SendThrows \/ ToolThrows \/ BatchHalted
             \/ Settle \/ PromptResolved \/ ResolverThrows
             \/ \E n \in 1..MaxTools, cut \in BOOLEAN : AnswerCallsTools(n, cut)
             \/ \E id \in todo, how \in {"ran", "canceled"} : ToolReturns(id, how)
    BY <1>3 DEF NextRound, StopAtTop, CapReached, SendThrows, ToolThrows, BatchHalted, Settle,
                PromptResolved, ResolverThrows, AnswerCallsTools, ToolReturns
  <1>4. CASE Boundary \/ StartRun \/ ContinueRun
    BY <1>4 DEF Boundary, BatchPasses, StartRun, ContinueRun, Begin
  <1>5. CASE ToggleMode \/ \E who \in {"user", "mode"} : Abort(who)
    BY <1>5 DEF ToggleMode, Abort, Running
  <1> QED BY <1>1, <1>2, <1>3, <1>4, <1>5 DEF Next, Advance, Environment

\* A step of the loop.
LEMMA LoopHolds ==
  ASSUME NEW X, log \in Seq(X), Record \subseteq X, IInv, FoldInv, HeldInv, [Next]_vars
  PROVE  HeldInv'
  <1>1. Answers(messages') = Answers(messages) \cup Logged
    BY StepAnswers
  <1>2. /\ Closed(Fold') \subseteq Closed(Fold) \cup Logged \cup InHand
        /\ InHand' \subseteq InHand \cup Logged
    BY StepGrows, FoldAnswers
  <1>3. pc' # "down" => pc # "down"
    BY DownStays
  <1>4. HeldInv' <=> (pc' # "down" => Closed(Fold') \cup InHand' \subseteq Answers(messages'))
    BY DEF HeldInv
  <1> QED BY <1>1, <1>2, <1>3, <1>4 DEF HeldInv

\* Every step.
LEMMA HeldKept ==
  ASSUME CompactInv, FoldInv, Fit(messages), HeldInv, [CompactNext]_compactVars
  PROVE  HeldInv'
  <1>1. CASE [Next]_vars
    <2>1. IInv /\ log \in Seq(Record \cup CompactRecords)
      BY DEF CompactInv, CompactTypes
    <2>2. Record \subseteq Record \cup CompactRecords
      OBVIOUS
    <2> QED BY <1>1, <2>1, <2>2, LoopHolds
  <1>2. CASE CompactCrash
    BY <1>2 DEF CompactCrash, Crash, HeldInv
  <1>3. CASE Restart
    <2>1. messages' = Restored(log) /\ log' = log /\ pc' = "idle"
      BY <1>3 DEF Restart
    <2>2. Fold' = Fold /\ FoldRecords(log) = Fold /\ Fold \in Seq(Message)
      BY <2>1 DEF Fold, FoldInv, Folded
    <2>3. Answers(messages') = Closed(Fold')
      BY <2>1, <2>2, RestoredAnswers
    <2>4. InHand' = {}
      BY <2>1 DEF InHand, InRound
    <2> QED BY <2>3, <2>4 DEF HeldInv
  <1>4. CASE LoopCompactEnds \/ (UserCompactEnds /\ messages = job.snapshot)
    <2>1. FoldInv' /\ Fold' = messages' /\ pc' \notin InRound
      BY <1>4, Committed
    <2>2. InHand' = {}
      BY <2>1 DEF InHand
    <2>3. ASSUME NEW ms PROVE Closed(ms) \subseteq Answers(ms)
      BY DEF Closed, Answers
    <2>4. Closed(Fold') \subseteq Answers(messages')
      BY <2>1, <2>3
    <2> QED BY <2>2, <2>4 DEF HeldInv
  <1>5. CASE \/ LoopCompacts
             \/ UserCompactEnds /\ messages # job.snapshot
             \/ \E keep \in Keeps : UserCompacts(keep)
             \/ \E request \in Requests : PluginAsks(request)
    <2>1. messages' = messages /\ Fold' = Fold /\ UNCHANGED <<todo, results>>
      <3>1. UNCHANGED <<todo, results>>
        BY <1>5 DEF LoopCompacts, UserCompactEnds, UserCompacts, PluginAsks, sessionVars, vars,
                    loop
      <3> QED BY <1>5, <3>1, NothingCommitted
    <2>2. (pc' = pc \/ pc' = "unwinding") /\ (pc' # "down" => pc # "down")
      BY <1>5 DEF LoopCompacts, MustDrain, Finish, UserCompactEnds, UserCompacts, PluginAsks,
                  sessionVars, vars
    <2>3. InHand' \subseteq InHand
      <3>1. "unwinding" \notin InRound
        BY DEF InRound
      <3> QED BY <2>1, <2>2, <3>1 DEF InHand
    <2> QED BY <2>1, <2>2, <2>3 DEF HeldInv
  <1> QED BY <1>1, <1>2, <1>3, <1>4, <1>5 DEF CompactNext, compactVars, sessionVars

\* Nothing the running process let go of - by a rollback, a halted round, a tool
\* that threw, a compaction - comes back from the log: each answer that a crash
\* at this instant would restore is one the process holds.
THEOREM NoGhosts ==
  ASSUME Initial = {<<>>}, ~ CompactMidTools, ~ CompactMidRepair
  PROVE  CompactSpec => []NoGhostWork
  <1>1. CompactSpec => [](CompactInv /\ FoldInv /\ Fit(messages))
    BY CompactInvariance
  <1>2. CompactInit => HeldInv
    <2>1. CompactInit => log = <<>> /\ pc = "idle"
      BY DEF CompactInit, SessionInit, Init
    <2>2. log = <<>> => Fold = <<>>
      <3>1. <<>> \in Seq({0}) /\ 0 \in {0}
        OBVIOUS
      <3>2. FoldRecords(<<>>) = <<>>
        BY <3>1, FoldsOn
      <3> QED BY <3>2 DEF Fold
    <2> QED BY <2>1, <2>2 DEF HeldInv, Closed, InHand, InRound
  <1>3. /\ CompactInv /\ FoldInv /\ Fit(messages) /\ HeldInv /\ [CompactNext]_compactVars
        => HeldInv'
    BY HeldKept
  <1>4. FoldInv /\ HeldInv => NoGhostWork
    <2>1. FoldInv => FoldRecords(log) \in Seq(Message) /\ Fold = FoldRecords(log)
      BY DEF FoldInv, Folded, Fold
    <2>2. FoldInv => Answers(Restored(log)) = Closed(Fold)
      BY <2>1, RestoredAnswers
    <2> QED BY <2>2 DEF HeldInv, NoGhostWork
  <1> QED BY <1>1, <1>2, <1>3, <1>4, PTL DEF CompactSpec

-----------------------------------------------------------------------------
(* Work survives                                                            *)

\* The results with these ids stand right behind the calls they answer.
Shown(ms, ids) ==
    \A i \in 1..Len(ms) : \A id \in ms[i].uses :
        id \in ids => i < Len(ms) /\ id \in IdsOf(ms[i+1].results)

\* The log has every answer the process holds, and every logged result where the
\* restore looks for it; no result is logged before its call is made.
WorkInv ==
    /\ Answers(messages) \subseteq Answers(Fold)
    /\ Shown(Fold, LoggedIds)
    /\ \A id \in LoggedIds : id \in Nat /\ id <= minted

\* The ids that entries of the log bring.
LEMMA LoggedIdsGrow ==
  ASSUME NEW X, log \in Seq(X), NEW es \in Seq(X), log' = log \o es
  PROVE  \A id \in LoggedIds' :
            id \in LoggedIds \/ \E i \in 1..Len(es) : id \in IdsOf(es[i].results)
  <1>1. /\ Len(log) \in Nat /\ Len(es) \in Nat /\ Len(log') = Len(log) + Len(es)
        /\ \A i \in 1..Len(log) : log'[i] = log[i]
        /\ \A i \in 1..Len(es) : log'[i + Len(log)] = es[i]
    OBVIOUS
  <1>2. \A i \in 1..Len(log') : i \in 1..Len(log) \/ (i - Len(log) \in 1..Len(es)
                                                     /\ (i - Len(log)) + Len(log) = i)
    BY <1>1
  <1> SUFFICES ASSUME NEW id \in LoggedIds'
               PROVE  id \in LoggedIds \/ \E i \in 1..Len(es) : id \in IdsOf(es[i].results)
    OBVIOUS
  <1>3. PICK i \in 1..Len(log') : id \in IdsOf(log'[i].results)
    BY DEF LoggedIds, IdsOf
  <1>4. CASE i \in 1..Len(log)
    BY <1>1, <1>3, <1>4 DEF LoggedIds
  <1>5. CASE i \notin 1..Len(log)
    <2>1. i - Len(log) \in 1..Len(es) /\ log'[i] = es[i - Len(log)]
      <3>1. i - Len(log) \in 1..Len(es) /\ (i - Len(log)) + Len(log) = i
        BY <1>2, <1>5
      <3> QED BY <1>1, <3>1
    <2> QED BY <1>3, <2>1
  <1> QED BY <1>4, <1>5

\* A message none of whose calls has a logged result changes nothing.
LEMMA ShownAppend ==
  ASSUME NEW ms \in Seq(Message), NEW m \in Message, NEW ids, Shown(ms, ids),
         m.uses \cap ids = {}
  PROVE  Shown(Append(ms, m), ids)
  <1> DEFINE new == Append(ms, m)
  <1>1. /\ Len(ms) \in Nat /\ Len(new) = Len(ms) + 1
        /\ new[Len(ms) + 1] = m /\ \A i \in 1..Len(ms) : new[i] = ms[i]
    <2> HIDE DEF Message
    <2> QED OBVIOUS
  <1> HIDE DEF new
  <1>2. ASSUME NEW i \in 1..Len(new), NEW id \in new[i].uses, id \in ids
        PROVE  i < Len(new) /\ id \in IdsOf(new[i+1].results)
    <2>1. i \in 1..Len(ms)
      <3>1. i # Len(ms) + 1
        BY <1>1, <1>2
      <3> QED BY <1>1, <3>1
    <2>2. i < Len(ms) /\ id \in IdsOf(ms[i+1].results)
      BY <1>1, <1>2, <2>1 DEF Shown
    <2>3. i + 1 \in 1..Len(ms)
      BY <1>1, <2>1, <2>2
    <2> QED BY <1>1, <2>2, <2>3
  <1> QED BY <1>2 DEF Shown, new

\* A result joins its round at the end: it stands behind its call, as do the
\* results logged before.
LEMMA ShownResult ==
  ASSUME NEW ms, Folded(ms), NEW rs \in SUBSET Result, NEW open, RoundAt(ms, rs, open),
         NEW r \in Result, r.id \in open, NEW ids, Shown(ms, ids)
  PROVE  Shown(AppendUserTurn(ms, {r}, <<>>), ids \cup {r.id})
  <1> DEFINE new == AppendUserTurn(ms, {r}, <<>>)
             n == Len(ms)
  <1>1. PICK a \in 1..Len(ms) :
           /\ ms[a].role = "assistant" /\ ms[a].uses = IdsOf(rs) \cup open
           /\ IF rs = {} THEN a = Len(ms)
              ELSE a + 1 = Len(ms) /\ ms[a+1].role = "user" /\ ms[a+1].results = rs
    BY DEF RoundAt
  <1>2. ms \in Seq(Message) /\ n \in Nat /\ DistinctCalls(ms)
    BY DEF Folded
  <1>3. /\ Len(new) = a + 1 /\ \A i \in 1..a : new[i] = ms[i]
        /\ new[a+1].uses = {} /\ new[a+1].results = rs \cup {r}
    <2>1. CASE rs = {}
      <3> DEFINE u == UserMsg({r}, <<>>)
      <3>1. a = n /\ new = Append(ms, u) /\ u.uses = {} /\ u.results = rs \cup {r}
        BY <1>1, <2>1 DEF EndsInUser, AppendUserTurn, UserMsg
      <3>2. u \in Message
        BY MessageTypes, TextTypes DEF Message
      <3> HIDE DEF u, Message, new
      <3>3. /\ Len(new) = n + 1 /\ \A i \in 1..n : new[i] = ms[i]
            /\ new[n + 1] = u
        BY <1>2, <3>1, <3>2
      <3> QED BY <1>2, <3>1, <3>3
    <2>2. CASE rs # {}
      <3> DEFINE u == UserMsg(ms[n].results \cup {r}, ms[n].texts \o <<>>)
      <3>1. a + 1 = n /\ EndsInUser(ms)
        BY <1>1, <1>2, <2>2 DEF EndsInUser
      <3>2. new = [ms EXCEPT ![n] = u] /\ u.uses = {} /\ u.results = rs \cup {r}
        BY <1>1, <2>2, <3>1 DEF AppendUserTurn, UserMsg
      <3> HIDE DEF u, Message, new
      <3>3. Len(new) = n /\ new[n] = u /\ \A i \in 1..n : i # n => new[i] = ms[i]
        BY <1>2, <3>1, <3>2
      <3> QED BY <1>2, <3>1, <3>2, <3>3
    <2> QED BY <2>1, <2>2
  <1> HIDE DEF new
  <1>4. IdsOf(rs \cup {r}) = IdsOf(rs) \cup {r.id}
    BY DEF IdsOf
  <1>5. ASSUME NEW i \in 1..Len(new), NEW id \in new[i].uses, id \in ids \cup {r.id}
        PROVE  i < Len(new) /\ id \in IdsOf(new[i+1].results)
    <2>1. i \in 1..a /\ i < Len(new)
      <3>1. i # a + 1
        BY <1>3, <1>5
      <3> QED BY <1>1, <1>2, <1>3, <3>1
    <2>2. i \in 1..Len(ms) /\ id \in ms[i].uses
      BY <1>1, <1>2, <1>3, <2>1
    <2>3. CASE i = a
      <3>1. CASE id = r.id
        BY <1>3, <1>4, <2>1, <2>3, <3>1
      <3>2. CASE id # r.id
        <4>1. a < Len(ms) /\ id \in IdsOf(ms[a+1].results)
          BY <1>5, <2>2, <2>3, <3>2 DEF Shown
        <4>2. ms[a+1].results = rs
          BY <1>1, <1>2, <4>1
        <4> QED BY <1>3, <1>4, <2>1, <2>3, <4>1, <4>2
      <3> QED BY <3>1, <3>2
    <2>4. CASE i # a
      <3>1. id # r.id
        <4>1. r.id \in ms[a].uses /\ ms[i].uses \cap ms[a].uses = {}
          BY <1>1, <1>2, <2>2, <2>4 DEF DistinctCalls
        <4> QED BY <2>2, <4>1
      <3>2. id \in IdsOf(ms[i+1].results)
        BY <1>5, <2>2, <3>1 DEF Shown
      <3>3. i + 1 \in 1..a
        BY <2>1, <2>4
      <3>4. new[i+1] = ms[i+1]
        BY <1>3, <3>3
      <3> QED BY <2>1, <3>2, <3>4
    <2> QED BY <2>3, <2>4
  <1> QED BY <1>5 DEF Shown, new

\* Every step of the loop keeps the log ahead of the history.
LEMMA WorkKept ==
  ASSUME NEW X, log \in Seq(X), Record \subseteq X, IInv, FoldInv, WorkInv, [Next]_vars
  PROVE  WorkInv'
  <1>1. /\ minted \in Nat /\ Folded(Fold) /\ CallsUpTo(Fold, minted) /\ Fold \in Seq(Message)
        /\ results \in SUBSET Result
    BY Numbers DEF IInv, LoopTypes, FoldInv, Folded
  <1>2. minted' \in Nat /\ minted <= minted' /\ LogGrows
    <2>1. IInv'
      BY NextInv
    <2>2. minted' \in Nat
      BY <2>1 DEF IInv, LoopTypes
    <2> QED BY <2>2, StepPlaces, StepGrows
  <1>3. Answers(messages') \subseteq Answers(Fold')
    <2>1. Answers(messages') = Answers(messages) \cup Logged
      BY StepAnswers
    <2>2. Answers(Fold') = Answers(Fold) \cup Logged
      BY <1>2, FoldAnswers
    <2> QED BY <2>1, <2>2 DEF WorkInv
  <1>4. /\ log \o <<>> = log
        /\ \A m \in Message : /\ log \o <<m>> = Append(log, m)
                              /\ FoldRecords(Append(log, m)) = Append(Fold, m)
        /\ \A m, u \in Message :
              FoldRecords(log \o (<<m>> \o <<u>>)) = Append(Append(Fold, m), u)
        /\ \A r \in Result : FoldRecords(Append(log, ResultRecord(r)))
                                = AppendUserTurn(Fold, {r}, <<>>)
    BY FoldSteps
  <1>5. /\ UserMessage \subseteq Message /\ AssistantMessage \subseteq Message
        /\ \A u \in UserMessage : u.uses = {} /\ (Asks(u) => u.results = {})
        /\ \A m \in AssistantMessage : m.results = {}
    BY DEF Message, UserMessage, AssistantMessage, Asks
  <1>6. Fold' = FoldRecords(log')
    BY DEF Fold
  <1>7. /\ \A m \in Message : m \in X /\ <<m>> \in Seq(X)
        /\ \A m, u \in Message : /\ <<m>> \o <<u>> \in Seq(X) /\ Len(<<m>> \o <<u>>) = 2
                                 /\ (<<m>> \o <<u>>)[1] = m /\ (<<m>> \o <<u>>)[2] = u
        /\ <<>> \in Seq(X) /\ \A r \in Result : ResultRecord(r) \in X
    <2>1. Message \subseteq X /\ \A r \in Result : ResultRecord(r) \in X
      BY DEF Record, ResultRecord
    <2> HIDE DEF Message, Result
    <2> QED BY <2>1
  <1>8. ASSUME NEW ids, ids \subseteq LoggedIds PROVE Shown(Fold, ids)
    BY <1>8 DEF WorkInv, Shown
  <1>9. ASSUME LoggedIds' \subseteq LoggedIds
        PROVE  \A id \in LoggedIds' : id \in Nat /\ id <= minted'
    <2> SUFFICES ASSUME NEW id \in LoggedIds' PROVE id \in Nat /\ id <= minted'
      OBVIOUS
    <2>1. id \in Nat /\ id <= minted
      BY <1>9 DEF WorkInv
    <2> QED BY <1>1, <1>2, <2>1
  <1>10. ASSUME NEW es \in Seq(X), log' = log \o es, \A i \in 1..Len(es) : es[i].results = {}
         PROVE  LoggedIds' \subseteq LoggedIds
    <2>1. \A id \in LoggedIds' :
             id \in LoggedIds \/ \E i \in 1..Len(es) : id \in IdsOf(es[i].results)
      BY <1>10, LoggedIdsGrow
    <2> QED BY <1>10, <2>1 DEF IdsOf
  <1>11. ASSUME NEW m \in Message, log' = log \o <<m>>, m.results = {}
         PROVE  LoggedIds' \subseteq LoggedIds
    <2>1. \A i \in 1..Len(<<m>>) : <<m>>[i].results = {}
      BY <1>11
    <2> QED BY <1>7, <1>10, <1>11, <2>1
  <1> DEFINE Goal == Shown(Fold', LoggedIds') /\ \A id \in LoggedIds' : id \in Nat /\ id <= minted'
  <1>a. ASSUME log' = log \/ log' = log \o <<>>
        PROVE  Goal
    <2>1. Fold' = Fold /\ log' = log
      BY <1>4, <1>a DEF Fold
    <2>2. LoggedIds' = LoggedIds
      BY <2>1 DEF LoggedIds
    <2> QED BY <1>8, <1>9, <2>1, <2>2
  <1>b. ASSUME NEW u \in UserMessage, log' = Append(log, u) \/ log' = log \o <<u>>, Asks(u)
        PROVE  Goal
    <2>1. Fold' = Append(Fold, u) /\ log' = log \o <<u>>
      BY <1>4, <1>5, <1>6, <1>b
    <2>2. u \in Message /\ u.results = {} /\ u.uses = {}
      BY <1>5, <1>b
    <2>3. LoggedIds' \subseteq LoggedIds
      BY <1>11, <2>1, <2>2
    <2>4. Shown(Append(Fold, u), LoggedIds')
      BY <1>1, <1>8, <2>2, <2>3, ShownAppend
    <2> QED BY <1>9, <2>1, <2>3, <2>4
  <1>d. ASSUME NEW m \in AssistantMessage, log' = log \o <<m>>,
               \A id \in m.uses : minted < id
        PROVE  Goal
    <2>1. Fold' = Append(Fold, m)
      BY <1>4, <1>5, <1>6, <1>d
    <2>2. m \in Message /\ m.results = {}
      BY <1>5
    <2>3. LoggedIds' \subseteq LoggedIds
      BY <1>11, <1>d, <2>2
    <2>4. m.uses \cap LoggedIds' = {}
      BY <1>1, <1>d, <2>3 DEF WorkInv
    <2>5. Shown(Append(Fold, m), LoggedIds')
      BY <1>1, <1>8, <2>2, <2>3, <2>4, ShownAppend
    <2> QED BY <1>9, <2>1, <2>3, <2>5
  <1>e. ASSUME NEW m \in AssistantMessage, NEW u \in UserMessage,
               log' = log \o (<<m>> \o <<u>>), m.uses = {}, Asks(u)
        PROVE  Goal
    <2> DEFINE new == Append(Fold, m)
    <2>1. Fold' = Append(new, u)
      BY <1>4, <1>5, <1>6, <1>e
    <2>2. m \in Message /\ m.results = {} /\ u \in Message /\ u.results = {} /\ u.uses = {}
      BY <1>5, <1>e
    <2>3. LoggedIds' \subseteq LoggedIds
      <3> DEFINE es == <<m>> \o <<u>>
      <3>1. es \in Seq(X) /\ log' = log \o es
        BY <1>7, <1>e, <2>2
      <3>2. Len(es) = 2 /\ es[1] = m /\ es[2] = u
        BY <1>7, <2>2
      <3> HIDE DEF es
      <3>3. \A i \in 1..Len(es) : es[i].results = {}
        <4>1. \A i \in 1..Len(es) : i = 1 \/ i = 2
          BY <3>2
        <4> QED BY <2>2, <3>2, <4>1
      <3> QED BY <1>10, <3>1, <3>3
    <2>4. Shown(new, LoggedIds') /\ new \in Seq(Message)
      <3>1. Shown(new, LoggedIds')
        BY <1>1, <1>8, <1>e, <2>2, <2>3, ShownAppend
      <3> HIDE DEF Message
      <3>2. new \in Seq(Message)
        BY <1>1, <2>2
      <3> QED BY <3>1, <3>2
    <2> HIDE DEF new
    <2>5. Shown(Append(new, u), LoggedIds')
      BY <2>2, <2>4, ShownAppend
    <2> QED BY <1>9, <2>1, <2>3, <2>5
  <1>g. ASSUME NEW r \in Result, pc = "tools", r.id \in todo, log' = Append(log, ResultRecord(r))
        PROVE  Goal
    <2> DEFINE new == AppendUserTurn(Fold, {r}, <<>>)
               rec == ResultRecord(r)
    <2>1. Fold' = new
      BY <1>4, <1>6, <1>g
    <2>2. RoundAt(Fold, results, todo)
      BY <1>g DEF FoldInv, InRound
    <2>3. r.id \in Nat /\ r.id <= minted
      <3>1. PICK a \in 1..Len(Fold) : Fold[a].uses = IdsOf(results) \cup todo
        BY <2>2 DEF RoundAt
      <3> QED BY <1>1, <1>g, <3>1 DEF CallsUpTo, Result
    <2>4. \A id \in LoggedIds' : id \in LoggedIds \/ id = r.id
      <3>1. rec \in X /\ rec.results = {r}
        BY <1>7 DEF ResultRecord
      <3>2. log' = Append(log, rec)
        BY <1>g
      <3> HIDE DEF rec
      <3>3. log' = log \o <<rec>> /\ <<rec>> \in Seq(X)
        BY <3>1, <3>2
      <3>4. \A id \in LoggedIds' :
               id \in LoggedIds \/ \E i \in 1..Len(<<rec>>) : id \in IdsOf(<<rec>>[i].results)
        BY <3>3, LoggedIdsGrow
      <3>5. \A i \in 1..Len(<<rec>>) : <<rec>>[i] = rec
        OBVIOUS
      <3>6. IdsOf(rec.results) = {r.id}
        BY <3>1 DEF IdsOf
      <3> QED BY <3>4, <3>5, <3>6
    <2>5. Shown(new, LoggedIds \cup {r.id})
      BY <1>1, <1>g, <2>2, ShownResult DEF WorkInv
    <2> HIDE DEF new
    <2>6. Shown(new, LoggedIds')
      BY <2>4, <2>5 DEF Shown
    <2>7. \A id \in LoggedIds' : id \in Nat /\ id <= minted'
      <3> SUFFICES ASSUME NEW id \in LoggedIds' PROVE id \in Nat /\ id <= minted'
        OBVIOUS
      <3>1. id \in Nat /\ id <= minted
        BY <2>3, <2>4 DEF WorkInv
      <3> QED BY <1>1, <1>2, <3>1
    <2> QED BY <2>1, <2>6, <2>7
  <1>12. Goal
    <2> HIDE DEF Goal
    <2>1. \A m \in AssistantMessage : m.uses = {} => \A id \in m.uses : minted < id
      OBVIOUS
    <2> QED BY <1>2, <1>a, <1>b, <1>d, <1>e, <1>g, <2>1 DEF LogGrows
  <1> QED BY <1>3, <1>12 DEF WorkInv

\* An answer the process holds whose every call has its result in the log is
\* restored after a crash at this instant: however the run was cut, rolled back
\* or halted, and however often the process died before.
THEOREM WorkSurvives ==
  ASSUME Initial = {<<>>}
  PROVE  SessionSpec => []WorkSurvivesCrash
  <1>1. SessionInit => WorkInv
    <2>1. SessionInit => log = <<>> /\ messages = <<>>
      BY DEF SessionInit, Init
    <2>2. log = <<>> => Fold = <<>>
      <3>1. <<>> \in Seq({0}) /\ 0 \in {0}
        OBVIOUS
      <3>2. FoldRecords(<<>>) = <<>>
        BY <3>1, FoldsOn
      <3> QED BY <3>2 DEF Fold
    <2> QED BY <2>1, <2>2 DEF WorkInv, Shown, LoggedIds, Answers
  <1>2. IInv /\ LogInv /\ FoldInv /\ WorkInv /\ [SessionNext]_sessionVars => WorkInv'
    <2> SUFFICES ASSUME IInv, LogInv, FoldInv, WorkInv, [SessionNext]_sessionVars
                 PROVE  WorkInv'
      OBVIOUS
    <2>1. CASE [Next]_vars
      <3>1. log \in Seq(Record) /\ Record \subseteq Record
        BY DEF LogInv
      <3> QED BY <2>1, <3>1, WorkKept
    <2>2. CASE Crash \/ Restart
      <3>1. log' = log /\ minted' = minted
        BY <2>2 DEF Crash, Restart
      <3>2. LoggedIds' = LoggedIds /\ Fold' = Fold
        BY <3>1 DEF LoggedIds, Fold
      <3>3. Answers(messages') \subseteq Answers(Fold)
        <4>1. CASE Crash
          <5>1. messages' = <<>>
            BY <4>1 DEF Crash
          <5> QED BY <5>1 DEF Answers
        <4>2. CASE Restart
          <5>1. FoldRecords(log) \in Seq(Message) /\ Fold = FoldRecords(log)
            BY DEF FoldInv, Folded, Fold
          <5>2. Answers(Restored(log)) = Closed(Fold)
            BY <5>1, RestoredAnswers
          <5>3. messages' = Restored(log)
            BY <4>2 DEF Restart
          <5> QED BY <5>2, <5>3 DEF Closed, Answers
        <4> QED BY <2>2, <4>1, <4>2
      <3> QED BY <3>1, <3>2, <3>3 DEF WorkInv
    <2> QED BY <2>1, <2>2 DEF SessionNext, sessionVars
  <1>3. FoldInv /\ WorkInv => WorkSurvivesCrash
    <2> SUFFICES ASSUME FoldInv, WorkInv, NEW a \in Answers(messages), a.uses \subseteq LoggedIds
                 PROVE  a \in Answers(Restored(log))
      BY DEF WorkSurvivesCrash
    <2>1. FoldRecords(log) \in Seq(Message) /\ Fold = FoldRecords(log) /\ Fold \in Seq(Message)
      BY DEF FoldInv, Folded, Fold
    <2>2. Answers(Restored(log)) = Closed(Fold)
      BY <2>1, RestoredAnswers
    <2>3. PICK i \in 1..Len(Fold) : Fold[i] = a /\ a.role = "assistant"
      BY AnswersOf DEF WorkInv
    <2>4. a.uses = {} \/ (i < Len(Fold) /\ a.uses \subseteq IdsOf(Fold[i+1].results))
      BY <2>3 DEF WorkInv, Shown
    <2> QED BY <2>1, <2>2, <2>3, <2>4, ClosedOf
  <1> QED BY <1>1, <1>2, <1>3, SessionInvariance, PTL DEF SessionSpec

-----------------------------------------------------------------------------
(* The texts a log restores                                                 *)

\* The texts of a history, and those of its user messages.
TextsIn(ms) == UNION {ToSet(ms[i].texts) : i \in 1..Len(ms)}
Tells(ms, t) == \E i \in 1..Len(ms) : ms[i].role = "user" /\ t \in ToSet(ms[i].texts)

LEMMA TextsOf ==
  ASSUME NEW ms, NEW t
  PROVE  /\ t \in TextsIn(ms) <=> \E i \in 1..Len(ms) : t \in ToSet(ms[i].texts)
         /\ Tells(ms, t) => t \in TextsIn(ms)
  BY DEF TextsIn, Tells

\* Texts joined, and texts of few messages.
LEMMA TextsJoin ==
  ASSUME NEW ts \in Seq(Text), NEW us \in Seq(Text)
  PROVE  /\ ToSet(ts \o us) = ToSet(ts) \cup ToSet(us)
         /\ ToSet(<<>>) = {} /\ (ToSet(ts) # {} => ts # <<>>)
         /\ ts \o us \in Seq(Text)
  <1> DEFINE new == ts \o us
  <1>1. /\ Len(ts) \in Nat /\ Len(us) \in Nat /\ Len(new) = Len(ts) + Len(us)
        /\ new \in Seq(Text)
        /\ \A i \in 1..Len(ts) : new[i] = ts[i]
        /\ \A i \in 1..Len(us) : new[i + Len(ts)] = us[i]
    <2> HIDE DEF Text
    <2> QED OBVIOUS
  <1>2. DOMAIN ts = 1..Len(ts) /\ DOMAIN us = 1..Len(us) /\ DOMAIN new = 1..Len(new)
    BY <1>1, SeqDomain, Zenon
  <1> HIDE DEF new
  <1>3. /\ \A i \in 1..Len(new) : \/ i \in 1..Len(ts)
                                  \/ i - Len(ts) \in 1..Len(us) /\ (i - Len(ts)) + Len(ts) = i
        /\ \A i \in 1..Len(ts) : i \in 1..Len(new)
        /\ \A i \in 1..Len(us) : i + Len(ts) \in 1..Len(new)
    BY <1>1
  <1>4. ASSUME NEW t PROVE t \in ToSet(new) <=> t \in ToSet(ts) \cup ToSet(us)
    <2>1. ASSUME t \in ToSet(new) PROVE t \in ToSet(ts) \cup ToSet(us)
      <3>1. PICK i \in 1..Len(new) : new[i] = t
        BY <1>2, <2>1 DEF ToSet
      <3>2. CASE i \in 1..Len(ts)
        BY <1>1, <1>2, <3>1, <3>2 DEF ToSet
      <3>3. CASE i - Len(ts) \in 1..Len(us) /\ (i - Len(ts)) + Len(ts) = i
        <4>1. us[i - Len(ts)] = t
          BY <1>1, <3>1, <3>3
        <4> QED BY <1>2, <3>3, <4>1 DEF ToSet
      <3> QED BY <1>3, <3>2, <3>3
    <2>2. ASSUME t \in ToSet(ts) PROVE t \in ToSet(new)
      BY <1>1, <1>2, <1>3, <2>2 DEF ToSet
    <2>3. ASSUME t \in ToSet(us) PROVE t \in ToSet(new)
      <3>1. PICK i \in 1..Len(us) : us[i] = t
        BY <1>2, <2>3 DEF ToSet
      <3>2. new[i + Len(ts)] = t /\ i + Len(ts) \in 1..Len(new)
        BY <1>1, <1>3, <3>1
      <3> QED BY <1>2, <3>2 DEF ToSet
    <2> QED BY <2>1, <2>2, <2>3
  <1>5. ToSet(<<>>) = {}
    BY DEF ToSet
  <1>6. ToSet(ts) # {} => ts # <<>>
    BY <1>5
  <1> QED BY <1>1, <1>4, <1>5, <1>6 DEF new

\* A message behind the others.
LEMMA TextsAppend ==
  ASSUME NEW ms \in Seq(Message), NEW m \in Message
  PROVE  /\ TextsIn(Append(ms, m)) = TextsIn(ms) \cup ToSet(m.texts)
         /\ \A t : Tells(ms, t) => Tells(Append(ms, m), t)
  <1> DEFINE new == Append(ms, m)
  <1>1. /\ Len(ms) \in Nat /\ Len(new) = Len(ms) + 1 /\ new[Len(ms) + 1] = m
        /\ \A i \in 1..Len(ms) : new[i] = ms[i]
    <2> HIDE DEF Message
    <2> QED OBVIOUS
  <1> HIDE DEF new
  <1>2. /\ \A i \in 1..Len(new) : i = Len(ms) + 1 \/ i \in 1..Len(ms)
        /\ Len(ms) + 1 \in 1..Len(new) /\ \A i \in 1..Len(ms) : i \in 1..Len(new)
    BY <1>1
  <1>3. ASSUME NEW t PROVE t \in TextsIn(new) <=> t \in TextsIn(ms) \cup ToSet(m.texts)
    BY <1>1, <1>2, TextsOf
  <1>4. ASSUME NEW t, Tells(ms, t) PROVE Tells(new, t)
    BY <1>1, <1>2, <1>4 DEF Tells
  <1> QED BY <1>3, <1>4 DEF new

\* A message in front of the others.
LEMMA TextsFront ==
  ASSUME NEW ms \in Seq(Message), NEW m \in Message
  PROVE  /\ TextsIn(<<m>> \o ms) = TextsIn(ms) \cup ToSet(m.texts)
         /\ \A t : Tells(<<m>> \o ms, t)
                      <=> Tells(ms, t) \/ (m.role = "user" /\ t \in ToSet(m.texts))
  <1> DEFINE new == <<m>> \o ms
  <1>1. /\ Len(ms) \in Nat /\ Len(new) = Len(ms) + 1 /\ new[1] = m
        /\ \A i \in 1..Len(ms) : new[i + 1] = ms[i]
        /\ \A i \in 2..Len(ms) + 1 : new[i] = ms[i - 1]
    BY FrontFacts
  <1> HIDE DEF new
  <1>2. /\ \A i \in 1..Len(new) : i = 1 \/ (i \in 2..Len(ms) + 1 /\ i - 1 \in 1..Len(ms))
        /\ 1 \in 1..Len(new) /\ \A i \in 1..Len(ms) : i + 1 \in 1..Len(new)
    BY <1>1
  <1>3. ASSUME NEW t
        PROVE  \A i \in 1..Len(new) : /\ (i = 1 /\ new[i] = m)
                                         \/ (i - 1 \in 1..Len(ms) /\ new[i] = ms[i - 1])
    BY <1>1, <1>2
  <1>4. ASSUME NEW t PROVE t \in TextsIn(new) <=> t \in TextsIn(ms) \cup ToSet(m.texts)
    <2>1. ASSUME t \in TextsIn(ms) PROVE t \in TextsIn(new)
      <3>1. PICK i \in 1..Len(ms) : t \in ToSet(ms[i].texts)
        BY <2>1, TextsOf
      <3>2. i + 1 \in 1..Len(new) /\ new[i + 1] = ms[i]
        BY <1>1, <1>2
      <3> QED BY <3>1, <3>2, TextsOf
    <2>2. ASSUME t \in ToSet(m.texts) PROVE t \in TextsIn(new)
      BY <1>1, <1>2, <2>2, TextsOf
    <2>3. ASSUME t \in TextsIn(new) PROVE t \in TextsIn(ms) \cup ToSet(m.texts)
      <3>1. PICK i \in 1..Len(new) : t \in ToSet(new[i].texts)
        BY <2>3, TextsOf
      <3> QED BY <1>3, <3>1, TextsOf
    <2> QED BY <2>1, <2>2, <2>3
  <1>5. ASSUME NEW t
        PROVE  Tells(new, t) <=> Tells(ms, t) \/ (m.role = "user" /\ t \in ToSet(m.texts))
    <2>1. ASSUME Tells(ms, t) PROVE Tells(new, t)
      <3>1. PICK i \in 1..Len(ms) : ms[i].role = "user" /\ t \in ToSet(ms[i].texts)
        BY <2>1 DEF Tells
      <3>2. i + 1 \in 1..Len(new) /\ new[i + 1] = ms[i]
        BY <1>1, <1>2
      <3> QED BY <3>1, <3>2 DEF Tells
    <2>2. ASSUME m.role = "user", t \in ToSet(m.texts) PROVE Tells(new, t)
      BY <1>1, <1>2, <2>2 DEF Tells
    <2>3. ASSUME Tells(new, t)
          PROVE  Tells(ms, t) \/ (m.role = "user" /\ t \in ToSet(m.texts))
      <3>1. PICK i \in 1..Len(new) : new[i].role = "user" /\ t \in ToSet(new[i].texts)
        BY <2>3 DEF Tells
      <3> QED BY <1>3, <3>1 DEF Tells
    <2> QED BY <2>1, <2>2, <2>3
  <1> QED BY <1>4, <1>5 DEF new

\* extractPendingDraft goes through the texts one by one.
LEMMA PicksUp ==
  ASSUME NEW q, Len(q) \in Nat
  PROVE  \E f : /\ f[0] = <<>>
                /\ \A k \in 1..Len(q) : f[k] = IF q[k].kind \in Human THEN Append(f[k-1], q[k])
                                               ELSE f[k-1]
                /\ HumanTexts(q) = f[Len(q)]
  <1> DEFINE Pick(ts, k) == IF q[k].kind \in Human THEN Append(ts, q[k]) ELSE ts
             Def(g, n) == g = [k \in 0..n |-> IF k = 0 THEN <<>> ELSE Pick(g[k-1], k)]
             S == {n \in 0..Len(q) : \E g : Def(g, n)}
             f == CHOOSE g : Def(g, Len(q))
  <1>1. HumanTexts(q) = f[Len(q)]
    BY Zenon DEF HumanTexts
  <1>7. \A ts, k : Pick(ts, k) = IF q[k].kind \in Human THEN Append(ts, q[k]) ELSE ts
    OBVIOUS
  <1> HIDE DEF Pick
  <1>2. 0 \in S
    <2> DEFINE g == [k \in 0..0 |-> <<>>]
    <2>1. Def(g, 0)
      OBVIOUS
    <2> HIDE DEF Def, g
    <2> QED BY <2>1
  <1>3. ASSUME NEW n \in 1..Len(q), n - 1 \in S PROVE n \in S
    <2>1. PICK g : Def(g, n - 1)
      BY <1>3
    <2> DEFINE h == [k \in 0..n |-> IF k = n THEN Pick(g[n-1], n) ELSE g[k]]
    <2>2. Def(h, n)
      <3> SUFFICES ASSUME NEW k \in 0..n
                   PROVE  h[k] = IF k = 0 THEN <<>> ELSE Pick(h[k-1], k)
        OBVIOUS
      <3>1. CASE k = n
        <4>1. n # 0 /\ n - 1 \in 0..n /\ n - 1 # n
          OBVIOUS
        <4> QED BY <3>1, <4>1
      <3>2. CASE k # n
        <4>1. k \in 0..n-1 /\ (k # 0 => k - 1 \in 0..n /\ k - 1 # n)
          BY <3>2
        <4> QED BY <2>1, <3>2, <4>1
      <3> QED BY <3>1, <3>2
    <2> HIDE DEF Def, h
    <2> QED BY <2>2
  <1>4. \E g : Def(g, Len(q))
    <2> HIDE DEF S
    <2>1. \A k \in 0..Len(q) : k \in S
      BY <1>2, <1>3, CountsUp
    <2> HIDE DEF Def
    <2>2. Len(q) \in S
      BY <2>1
    <2> QED BY <2>2 DEF S
  <1> HIDE DEF S
  <1>5. Def(f, Len(q))
    BY <1>4
  <1> HIDE DEF f
  <1>6. f[0] = <<>> /\ \A k \in 1..Len(q) : f[k] = Pick(f[k-1], k)
    BY <1>5
  <1> QED BY <1>1, <1>6, <1>7

\* Every human text of a message is among those it picks.
LEMMA PicksHuman ==
  ASSUME NEW ts \in Seq(Text), NEW t \in ToSet(ts), t.kind \in Human
  PROVE  t \in ToSet(HumanTexts(ts)) /\ HumanTexts(ts) # <<>>
  <1> DEFINE n == Len(ts)
  <1>1. n \in Nat /\ \A k \in 1..n : ts[k] \in Text
    OBVIOUS
  <1>2. PICK f : /\ f[0] = <<>>
                 /\ \A k \in 1..n : f[k] = IF ts[k].kind \in Human THEN Append(f[k-1], ts[k])
                                           ELSE f[k-1]
                 /\ HumanTexts(ts) = f[n]
    BY <1>1, PicksUp
  <1>3. PICK p \in 1..n : ts[p] = t
    <2>1. DOMAIN ts = 1..n
      BY SeqDomain, Zenon
    <2> QED BY <2>1 DEF ToSet
  <1> HIDE DEF n
  <1>4. ASSUME NEW s \in Seq(Text), NEW x \in Text
        PROVE  /\ Append(s, x) \in Seq(Text) /\ ToSet(Append(s, x)) = ToSet(s) \cup {x}
    <2>1. <<x>> \in Seq(Text) /\ Append(s, x) = s \o <<x>> /\ ToSet(<<x>>) = {x}
      <3> HIDE DEF Text
      <3>1. <<x>> \in Seq(Text) /\ Append(s, x) = s \o <<x>>
        OBVIOUS
      <3>2. ToSet(<<x>>) = {x}
        BY DEF ToSet
      <3> QED BY <3>1, <3>2
    <2>2. s \o <<x>> \in Seq(Text) /\ ToSet(s \o <<x>>) = ToSet(s) \cup ToSet(<<x>>)
      BY <2>1, TextsJoin
    <2> QED BY <2>1, <2>2
  <1> DEFINE S == {k \in 0..n : f[k] \in Seq(Text) /\ (p <= k => t \in ToSet(f[k]))}
  <1>5. 0 \in S
    <2>1. <<>> \in Seq(Text)
      OBVIOUS
    <2>2. f[0] \in Seq(Text) /\ ~ (p <= 0) /\ 0 \in 0..n
      BY <1>1, <1>2, <2>1
    <2> QED BY <2>2
  <1>6. ASSUME NEW k \in 1..n, k - 1 \in S PROVE k \in S
    <2>1. f[k-1] \in Seq(Text) /\ (p <= k - 1 => t \in ToSet(f[k-1])) /\ k \in 0..n
      BY <1>1, <1>6
    <2>2. p <= k => p <= k - 1 \/ p = k
      BY <1>1
    <2>3. CASE ts[k].kind \in Human
      <3>1. f[k] \in Seq(Text) /\ ToSet(f[k]) = ToSet(f[k-1]) \cup {ts[k]}
        BY <1>1, <1>2, <1>4, <2>1, <2>3
      <3> QED BY <1>3, <2>1, <2>2, <3>1
    <2>4. CASE ts[k].kind \notin Human
      <3>1. f[k] = f[k-1] /\ p # k
        BY <1>2, <1>3, <2>4
      <3> QED BY <2>1, <2>2, <3>1
    <2> QED BY <2>3, <2>4
  <1>7. n \in S
    <2>1. \A k \in 0..n : k \in S
      <3> HIDE DEF S
      <3> QED BY <1>1, <1>5, <1>6, CountsUp
    <2> QED BY <1>1, <2>1
  <1>8. f[n] \in Seq(Text) /\ t \in ToSet(f[n])
    BY <1>1, <1>3, <1>7
  <1>9. f[n] # <<>>
    BY <1>8 DEF ToSet
  <1> QED BY <1>2, <1>8, <1>9

\* A history is its first message and the others, or its last and the others.
LEMMA EndsApart ==
  ASSUME NEW ms \in Seq(Message), ms # <<>>
  PROVE  /\ ms[1] \in Message /\ Tail(ms) \in Seq(Message) /\ ms = <<ms[1]>> \o Tail(ms)
         /\ Head(ms) = ms[1]
         /\ LET last == ms[Len(ms)] IN
            /\ last \in Message /\ Last(ms) = last /\ Front(ms) \in Seq(Message)
            /\ ms = Append(Front(ms), last)
  <1> DEFINE n == Len(ms)
  <1>1. n \in Nat /\ n > 0 /\ 1 \in 1..n /\ n \in 1..n
    <2> HIDE DEF Message
    <2> QED OBVIOUS
  <1>2. ms[1] \in Message /\ ms[n] \in Message
    BY <1>1
  <1>3. /\ Tail(ms) \in Seq(Message) /\ Head(ms) = ms[1] /\ Len(Tail(ms)) = n - 1
        /\ \A i \in 1..n-1 : Tail(ms)[i] = ms[i+1]
    <2> HIDE DEF Message
    <2> QED BY <1>1
  <1>4. ms = <<ms[1]>> \o Tail(ms)
    <2> DEFINE q == <<ms[1]>> \o Tail(ms)
    <2>1. /\ q \in Seq(Message) /\ Len(q) = Len(Tail(ms)) + 1 /\ q[1] = ms[1]
          /\ \A i \in 2..Len(Tail(ms)) + 1 : q[i] = Tail(ms)[i - 1]
      BY <1>2, <1>3, FrontFacts
    <2> HIDE DEF q
    <2>2. ASSUME NEW i \in 1..n PROVE q[i] = ms[i]
      <3>1. CASE i = 1
        BY <2>1, <3>1
      <3>2. CASE i # 1
        <4>1. i \in 2..Len(Tail(ms)) + 1 /\ i - 1 \in 1..n-1 /\ (i - 1) + 1 = i
          BY <1>1, <1>3, <3>2
        <4> QED BY <1>3, <2>1, <4>1
      <3> QED BY <3>1, <3>2
    <2>3. q \in Seq(Message) /\ Len(q) = n
      BY <1>1, <1>3, <2>1
    <2>4. q = ms
      <3> HIDE DEF Message
      <3> QED BY <2>2, <2>3
    <2> QED BY <2>4 DEF q
  <1>5. Front(ms) \in Seq(Message) /\ ms = Append(Front(ms), ms[n])
    <2> DEFINE k == n - 1
               s == SubSeq(ms, 1, k)
               q == Append(s, ms[n])
    <2>1. k \in Nat /\ k <= Len(ms) /\ n = k + 1
      BY <1>1
    <2>2. Front(ms) = s
      BY DEF Front
    <2> HIDE DEF Message, k
    <2>3. s \in Seq(Message) /\ Len(s) = k /\ \A i \in 1..k : s[i] = ms[i]
      BY <2>1
    <2> HIDE DEF s
    <2>4. /\ q \in Seq(Message) /\ Len(q) = k + 1 /\ q[k + 1] = ms[n]
          /\ \A i \in 1..k : q[i] = s[i]
      BY <1>2, <2>3
    <2> HIDE DEF q
    <2>5. \A i \in 1..n : i = k + 1 \/ i \in 1..k
      BY <2>1
    <2>6. \A i \in 1..n : q[i] = ms[i]
      BY <2>1, <2>3, <2>4, <2>5
    <2>7. q = ms
      BY <2>1, <2>4, <2>6
    <2> QED BY <2>2, <2>3, <2>7 DEF q
  <1>6. Last(ms) = ms[n]
    BY DEF Last
  <1> QED BY <1>2, <1>3, <1>4, <1>5, <1>6

\* A user message put in front of the others: what step 4 keeps of the texts.
LEMMA AbsorbTexts ==
  ASSUME NEW m \in Message, NEW s \in Seq(Message), NEW r, r = AbsorbUser(m, s)
  PROVE  /\ r \in Seq(Message) /\ r # <<>> /\ r[1].role = m.role
         /\ TextsIn(r) \subseteq TextsIn(s) \cup ToSet(m.texts)
         /\ \A t : Tells(s, t) => Tells(r, t)
         /\ \A t : m.role = "user" /\ t \in ToSet(m.texts)
                      /\ (t.kind = "checkpoint" \/ ~ Opens(m, s)) => Tells(r, t)
  <1>1. CASE ~ Opens(m, s)
    <2>1. r = <<m>> \o s
      BY <1>1 DEF AbsorbUser
    <2> QED BY <2>1, FrontFacts, TextsFront
  <1>2. CASE Opens(m, s)
    <2> DEFINE h == s[1]
               rest == Tail(s)
               kept == IF HasText(m, "checkpoint") THEN m.texts ELSE <<>>
               u == UserMsg(m.results \cup h.results, kept \o h.texts)
    <2>1. /\ s # <<>> /\ m.role = "user"
          /\ h \in Message /\ rest \in Seq(Message) /\ s = <<h>> \o rest /\ Head(s) = h
      BY <1>2, EndsApart DEF Opens
    <2>2. /\ m.results \in SUBSET Result /\ h.results \in SUBSET Result
          /\ m.texts \in Seq(Text) /\ h.texts \in Seq(Text)
      BY <2>1, MessageShapes
    <2>3. kept \in Seq(Text) /\ ToSet(kept) \subseteq ToSet(m.texts)
      BY <2>2, TextTypes, TextsJoin
    <2>4. r = <<u>> \o rest
      BY <1>2, <2>1 DEF AbsorbUser
    <2>5. h.role = "user"
      BY <1>2, <2>1 DEF Opens
    <2>6. ASSUME NEW t \in ToSet(m.texts), t.kind = "checkpoint" PROVE t \in ToSet(kept)
      <3>1. HasText(m, "checkpoint")
        BY <2>6 DEF HasText, ToSet
      <3> QED BY <3>1
    <2> HIDE DEF h, rest, kept
    <2>7. /\ kept \o h.texts \in Seq(Text)
          /\ ToSet(kept \o h.texts) = ToSet(kept) \cup ToSet(h.texts)
      BY <2>2, <2>3, TextsJoin
    <2>8. u \in Message /\ u.role = "user" /\ ToSet(u.texts) = ToSet(kept) \cup ToSet(h.texts)
      BY <2>2, <2>7, MessageTypes DEF UserMsg, Message
    <2> HIDE DEF u
    <2>9. /\ TextsIn(<<u>> \o rest) = TextsIn(rest) \cup ToSet(u.texts)
          /\ TextsIn(<<h>> \o rest) = TextsIn(rest) \cup ToSet(h.texts)
          /\ \A t : Tells(<<u>> \o rest, t)
                       <=> Tells(rest, t) \/ (u.role = "user" /\ t \in ToSet(u.texts))
          /\ \A t : Tells(<<h>> \o rest, t)
                       <=> Tells(rest, t) \/ (h.role = "user" /\ t \in ToSet(h.texts))
      BY <2>1, <2>8, TextsFront
    <2>10. /\ <<u>> \o rest \in Seq(Message) /\ <<u>> \o rest # <<>>
           /\ (<<u>> \o rest)[1] = u
      BY <2>1, <2>8, FrontFacts
    <2>11. TextsIn(r) \subseteq TextsIn(s) \cup ToSet(m.texts)
      BY <2>1, <2>3, <2>4, <2>8, <2>9
    <2>12. \A t : Tells(s, t) => Tells(r, t)
      BY <2>1, <2>4, <2>8, <2>9
    <2>13. \A t : t \in ToSet(m.texts) /\ t.kind = "checkpoint" => Tells(r, t)
      BY <2>4, <2>6, <2>8, <2>9
    <2> QED BY <1>2, <2>1, <2>4, <2>8, <2>10, <2>11, <2>12, <2>13
  <1> QED BY <1>1, <1>2

\* The i-th message is a user's, has the text t, and no user message comes right
\* behind it, unless the text is a checkpoint.
Lasts(c, i, t) ==
    /\ c[i].role = "user" /\ t \in ToSet(c[i].texts)
    /\ t.kind = "checkpoint" \/ i = Len(c) \/ (i < Len(c) /\ c[i+1].role = "assistant")

\* Step 4 keeps such a text, and makes none up.
LEMMA CollapsedTells ==
  ASSUME NEW c \in Seq(Message)
  PROVE  /\ CollapseUsers(c) \in Seq(Message)
         /\ TextsIn(CollapseUsers(c)) \subseteq TextsIn(c)
         /\ \A i \in 1..Len(c) : \A t : Lasts(c, i, t) => Tells(CollapseUsers(c), t)
  <1> DEFINE n == Len(c)
  <1>1. n \in Nat /\ \A k \in 1..n : c[k] \in Message
    OBVIOUS
  <1>2. PICK f : /\ f[n + 1] = <<>>
                 /\ \A k \in 1..n : f[k] = AbsorbUser(c[k], f[k+1])
                 /\ CollapseUsers(c) = f[1]
    BY <1>1, CollapsesDown
  <1> HIDE DEF n
  <1> DEFINE Good(k) == /\ f[k] \in Seq(Message) /\ TextsIn(f[k]) \subseteq TextsIn(c)
                        /\ k <= n => f[k] # <<>> /\ f[k][1].role = c[k].role
                        /\ \A i \in 1..n : \A t : k <= i /\ Lasts(c, i, t) => Tells(f[k], t)
             S == {i \in 0..n : Good((n + 1) - i)}
  <1>3. Good(n + 1)
    <2>1. <<>> \in Seq(Message) /\ TextsIn(<<>>) = {}
      BY DEF TextsIn
    <2>2. ~ (n + 1 <= n) /\ \A i \in 1..n : ~ (n + 1 <= i)
      BY <1>1
    <2> QED BY <1>2, <2>1, <2>2
  <1>4. ASSUME NEW k \in 1..n, Good(k + 1) PROVE Good(k)
    <2> DEFINE m == c[k]
               s == f[k+1]
    <2>1. m \in Message /\ s \in Seq(Message) /\ f[k] = AbsorbUser(m, s)
          /\ TextsIn(s) \subseteq TextsIn(c)
      BY <1>1, <1>2, <1>4
    <2>2. /\ f[k] \in Seq(Message) /\ f[k] # <<>> /\ f[k][1].role = m.role
          /\ TextsIn(f[k]) \subseteq TextsIn(s) \cup ToSet(m.texts)
          /\ \A t : Tells(s, t) => Tells(f[k], t)
          /\ \A t : m.role = "user" /\ t \in ToSet(m.texts)
                       /\ (t.kind = "checkpoint" \/ ~ Opens(m, s)) => Tells(f[k], t)
      <3> HIDE DEF m, s
      <3> QED BY <2>1, AbsorbTexts
    <2>3. ToSet(m.texts) \subseteq TextsIn(c)
      BY DEF TextsIn, n
    <2>4. ASSUME NEW i \in 1..n, NEW t, k <= i, Lasts(c, i, t) PROVE Tells(f[k], t)
      <3>1. CASE i = k
        <4>1. m.role = "user" /\ t \in ToSet(m.texts)
          BY <2>4, <3>1 DEF Lasts
        <4>2. CASE t.kind = "checkpoint"
          BY <2>2, <4>1, <4>2
        <4>3. CASE k = n
          <5>1. s = <<>>
            BY <1>2, <4>3
          <5>2. ~ Opens(m, s)
            BY <5>1 DEF Opens
          <5> QED BY <2>2, <4>1, <5>2
        <4>4. CASE k < n /\ c[k+1].role = "assistant"
          <5>1. k + 1 <= n
            BY <1>1, <4>4
          <5>2. s # <<>> /\ s[1].role = "assistant"
            BY <1>4, <4>4, <5>1
          <5>3. Head(s) = s[1]
            <6> HIDE DEF s, m
            <6> QED BY <2>1, <5>2, EndsApart
          <5>4. ~ Opens(m, s)
            BY <5>2, <5>3 DEF Opens
          <5> QED BY <2>2, <4>1, <5>4
        <4> QED BY <2>4, <3>1, <4>2, <4>3, <4>4 DEF Lasts, n
      <3>2. CASE i # k
        <4>1. k + 1 <= i
          BY <1>1, <2>4, <3>2
        <4>2. Tells(s, t)
          BY <1>4, <2>4, <4>1
        <4> QED BY <2>2, <4>2
      <3> QED BY <3>1, <3>2
    <2> QED BY <2>1, <2>2, <2>3, <2>4
  <1> HIDE DEF Good
  <1>5. 0 \in S
    <2>1. (n + 1) - 0 = n + 1 /\ 0 \in 0..n
      BY <1>1
    <2> QED BY <1>3, <2>1
  <1>6. ASSUME NEW i \in 1..n, i - 1 \in S PROVE i \in S
    <2> DEFINE k == (n + 1) - i
    <2>1. k \in 1..n /\ (n + 1) - (i - 1) = k + 1 /\ i \in 0..n
      BY <1>1
    <2>2. Good(k + 1)
      BY <1>6, <2>1
    <2> HIDE DEF k
    <2>3. Good(k)
      BY <1>4, <2>1, <2>2
    <2> QED BY <2>1, <2>3 DEF k
  <1>7. n \in S
    <2>1. \A k \in 0..n : k \in S
      <3> HIDE DEF S
      <3> QED BY <1>1, <1>5, <1>6, CountsUp
    <2> QED BY <1>1, <2>1
  <1>8. (n + 1) - n = 1 /\ \A i \in 1..n : 1 <= i
    BY <1>1
  <1>9. Good(1)
    BY <1>7, <1>8
  <1> QED BY <1>2, <1>8, <1>9 DEF Good, n

\* The i-th message is a user's, and step 3 drops all behind it up to an answer it
\* keeps: it is last, or the answer to it stays, or goes with all that follows it.
Stands(ms, i) ==
    /\ ms[i].role = "user"
    /\ \/ i = Len(ms)
       \/ /\ i < Len(ms) /\ ms[i+1].role = "assistant"
          /\ \/ i + 1 \notin Unanswered(ms)
             \/ i + 1 = Len(ms)
             \/ i + 2 = Len(ms) /\ ms[i+2].role = "user" /\ ms[i+2].texts = <<>>

\* Step 3 keeps the text of such a message, and any checkpoint; it makes none up.
LEMMA CleanedTells ==
  ASSUME NEW ms, Folded(ms)
  PROVE  /\ Cleaned(ms) \in Seq(Message)
         /\ TextsIn(Cleaned(ms)) \subseteq TextsIn(ms)
         /\ \A p \in 1..Len(ms) : \A t :
               /\ ms[p].role = "user" /\ t \in ToSet(ms[p].texts)
               /\ t.kind = "checkpoint" \/ Stands(ms, p)
               => \E i \in 1..Len(Cleaned(ms)) : Lasts(Cleaned(ms), i, t)
  <1> DEFINE n == Len(ms)
  <1>1. /\ ms \in Seq(Message) /\ n \in Nat /\ DOMAIN ms = 1..n
        /\ \A k \in 1..n : ms[k] \in Message
    BY DEF Folded
  <1>2. PICK f : /\ f[0] = <<>>
                 /\ \A k \in 1..n : f[k] = KeepContent(f[k-1], Stripped(ms, k))
                 /\ Cleaned(ms) = f[n]
    BY <1>1, CleansUp
  <1>3. ASSUME NEW k \in 1..n
        PROVE  /\ Stripped(ms, k) \in Message
               /\ k \in Unanswered(ms) =>
                     /\ Stripped(ms, k).role = "user" /\ Stripped(ms, k).texts = <<>>
                     /\ Stripped(ms, k).results = {} /\ ms[k].uses # {}
               /\ k \notin Unanswered(ms) =>
                     /\ Stripped(ms, k).role = ms[k].role
                     /\ Stripped(ms, k).texts = ms[k].texts
                     /\ Stripped(ms, k).results = {r \in ms[k].results : r.id \in LiveIds(ms)}
    BY <1>1, StrippedShapes DEF UserMsg, Unanswered
  <1>4. \A k \in 1..n : ms[k].role = "user" => k \notin Unanswered(ms)
    BY <1>1, MessageShapes DEF Unanswered
  <1>5. ToSet(<<>>) = {}
    BY DEF ToSet
  \* What each step makes of the messages so far.
  <1>6. ASSUME NEW k \in 1..n, f[k-1] \in Seq(Message), TextsIn(f[k-1]) \subseteq TextsIn(ms)
        PROVE  /\ f[k] \in Seq(Message) /\ TextsIn(f[k]) \subseteq TextsIn(ms)
               /\ \/ f[k] = f[k-1] /\ Stripped(ms, k).role # "assistant"
                                   /\ Stripped(ms, k).texts = <<>>
                  \/ f[k] = Append(f[k-1], Stripped(ms, k))
    <2> DEFINE c == f[k-1]
               m == Stripped(ms, k)
    <2>1. m \in Message /\ ToSet(m.texts) \subseteq TextsIn(ms) /\ c \in Seq(Message)
      <3>1. ToSet(ms[k].texts) \subseteq TextsIn(ms)
        BY DEF TextsIn, n
      <3> QED BY <1>3, <1>5, <1>6, <3>1
    <2>2. f[k] = KeepContent(c, m) /\ TextsIn(c) \subseteq TextsIn(ms)
      BY <1>2, <1>6
    <2> HIDE DEF c, m
    <2>3. CASE m.role = "assistant" \/ m.results # {} \/ m.texts # <<>>
      <3>1. f[k] = Append(c, m)
        BY <2>2, <2>3 DEF KeepContent
      <3>2. Append(c, m) \in Seq(Message)
        <4> HIDE DEF Message
        <4> QED BY <2>1
      <3>3. TextsIn(Append(c, m)) = TextsIn(c) \cup ToSet(m.texts)
        BY <2>1, TextsAppend
      <3> QED BY <2>1, <2>2, <3>1, <3>2, <3>3 DEF c, m
    <2>4. CASE ~ (m.role = "assistant" \/ m.results # {} \/ m.texts # <<>>)
      <3>1. f[k] = c
        BY <2>2, <2>4 DEF KeepContent
      <3> QED BY <2>1, <2>2, <2>4, <3>1 DEF c, m
    <2> QED BY <2>3, <2>4
  <1> DEFINE S == {k \in 0..n : f[k] \in Seq(Message) /\ TextsIn(f[k]) \subseteq TextsIn(ms)}
  <1>7. 0 \in S
    <2>1. <<>> \in Seq(Message) /\ TextsIn(<<>>) = {}
      BY DEF TextsIn
    <2>2. 0 \in 0..n
      BY <1>1
    <2> HIDE DEF n
    <2> QED BY <1>2, <2>1, <2>2
  <1>8. ASSUME NEW k \in 1..n, k - 1 \in S PROVE k \in S
    <2>1. k \in 0..n
      BY <1>1
    <2>2. f[k-1] \in Seq(Message) /\ TextsIn(f[k-1]) \subseteq TextsIn(ms)
      BY <1>8
    <2>3. f[k] \in Seq(Message) /\ TextsIn(f[k]) \subseteq TextsIn(ms)
      BY <1>6, <2>2
    <2> QED BY <2>1, <2>3
  <1>9. \A k \in 0..n : f[k] \in Seq(Message) /\ TextsIn(f[k]) \subseteq TextsIn(ms)
    <2>1. \A k \in 0..n : k \in S
      <3> HIDE DEF S, n
      <3> QED BY <1>1, <1>7, <1>8, CountsUp
    <2> QED BY <2>1
  <1> HIDE DEF S
  <1>10. ASSUME NEW p \in 1..n, NEW t, ms[p].role = "user", t \in ToSet(ms[p].texts),
                t.kind = "checkpoint" \/ Stands(ms, p)
         PROVE  \E i \in 1..Len(f[n]) : Lasts(f[n], i, t)
    \* Behind it nothing is kept, or an answer is the next to be.
    <2> DEFINE At(c, i, k) ==
                 /\ c[i].role = "user" /\ t \in ToSet(c[i].texts)
                 /\ \/ t.kind = "checkpoint"
                    \/ i = Len(c) /\ (k = p \/ p + 1 \in Unanswered(ms))
                    \/ i < Len(c) /\ c[i+1].role = "assistant"
               T == {k \in 0..n : p <= k => \E i \in 1..Len(f[k]) : At(f[k], i, k)}
    <2>1. ASSUME NEW c \in Seq(Message), NEW m \in Message
          PROVE  /\ Len(Append(c, m)) = Len(c) + 1 /\ Append(c, m)[Len(c) + 1] = m
                 /\ \A i \in 1..Len(c) : Append(c, m)[i] = c[i]
                 /\ Len(c) \in Nat
      <3> HIDE DEF Message
      <3> QED OBVIOUS
    <2>2. ASSUME NEW k \in 1..n, k - 1 \in T PROVE k \in T
      <3> DEFINE c == f[k-1]
                 m == Stripped(ms, k)
      <3>1. k - 1 \in 0..n /\ k \in 0..n
        BY <1>1
      <3>2. /\ c \in Seq(Message) /\ m \in Message
            /\ \/ f[k] = c /\ m.role # "assistant" /\ m.texts = <<>>
               \/ f[k] = Append(c, m)
        BY <1>3, <1>6, <1>9, <3>1
      <3>3. /\ Len(c) \in Nat
            /\ Len(Append(c, m)) = Len(c) + 1 /\ Append(c, m)[Len(c) + 1] = m
            /\ \A i \in 1..Len(c) : Append(c, m)[i] = c[i]
        <4> HIDE DEF c, m
        <4> QED BY <2>1, <3>2
      <3>4. CASE k < p
        <4>1. ~ (p <= k)
          BY <3>4
        <4> QED BY <3>1, <4>1
      <3>5. CASE k = p
        <4>1. m.role = "user" /\ m.texts = ms[p].texts /\ m.texts # <<>>
          BY <1>3, <1>4, <1>5, <2>2, <1>10, <3>5
        <4>2. f[k] = Append(c, m)
          BY <3>2, <4>1
        <4>3. f[k][Len(c) + 1] = m /\ Len(c) + 1 = Len(f[k]) /\ Len(c) + 1 \in 1..Len(f[k])
          BY <3>3, <4>2
        <4> HIDE DEF c, m
        <4>4. At(f[k], Len(c) + 1, k)
          BY <1>10, <3>5, <4>1, <4>3
        <4> HIDE DEF At
        <4> QED BY <3>1, <4>3, <4>4
      <3>6. CASE p < k
        <4>1. PICK i \in 1..Len(c) : At(c, i, k - 1)
          <5>1. p <= k - 1
            BY <3>6
          <5> HIDE DEF At
          <5> QED BY <2>2, <5>1
        <4>2. i \in 1..Len(f[k]) /\ f[k][i] = c[i]
          BY <3>2, <3>3
        <4>3. k = p + 1 => k - 1 = p
          <5>1. p \in Nat
            BY <1>1
          <5> HIDE DEF c, m, At, T, S
          <5> QED BY <5>1
        <4>4. CASE t.kind = "checkpoint"
          <5>1. At(f[k], i, k)
            <6> HIDE DEF c, m
            <6> QED BY <4>1, <4>2, <4>4
          <5> HIDE DEF At
          <5> QED BY <3>1, <4>2, <5>1
        <4>5. CASE i < Len(c) /\ c[i+1].role = "assistant"
          <5>1. i + 1 \in 1..Len(c)
            BY <3>3, <4>5
          <5>2. i < Len(f[k]) /\ f[k][i+1] = c[i+1]
            <6>1. f[k] = c \/ f[k] = Append(c, m)
              BY <3>2
            <6> HIDE DEF c, m, At, T, S
            <6> QED BY <3>3, <4>5, <5>1, <6>1
          <5>3. At(f[k], i, k)
            <6> HIDE DEF c, m
            <6> QED BY <4>1, <4>2, <4>5, <5>2
          <5> HIDE DEF At
          <5> QED BY <3>1, <4>2, <5>3
        <4>6. CASE i = Len(c) /\ (k - 1 = p \/ p + 1 \in Unanswered(ms))
                   /\ t.kind # "checkpoint"
          <5>1. /\ Stands(ms, p) /\ p < n
                /\ ms[p+1].role = "assistant"
                /\ \/ p + 1 \notin Unanswered(ms)
                   \/ p + 1 = n
                   \/ p + 2 = n /\ ms[p+2].role = "user" /\ ms[p+2].texts = <<>>
            <6>1. Stands(ms, p)
              BY <1>10, <4>6
            <6>2. p < n /\ p # n
              <7> HIDE DEF n, T, c, m, At
              <7> QED BY <1>1, <3>6
            <6> HIDE DEF n
            <6> QED BY <6>1, <6>2 DEF Stands, n
          <5>2. CASE p + 1 \notin Unanswered(ms)
            <6>1. k = p + 1
              BY <4>6, <5>2
            <6>2. m.role = "assistant"
              BY <1>3, <5>1, <5>2, <6>1
            <6>3. f[k] = Append(c, m)
              BY <3>2, <6>2
            <6>4. i < Len(f[k]) /\ f[k][i+1] = m
              BY <3>3, <4>6, <6>3
            <6>5. At(f[k], i, k)
              <7> HIDE DEF c, m
              <7> QED BY <4>1, <4>2, <6>2, <6>4
            <6> HIDE DEF At
            <6> QED BY <3>1, <4>2, <6>5
          <5>3. CASE p + 1 \in Unanswered(ms)
            <6>1. m.role # "assistant" /\ m.texts = <<>> /\ m.results = {}
              <7>1. CASE k = p + 1
                BY <1>3, <5>3, <7>1
              <7>2. CASE k # p + 1
                <8>1. k = p + 2 /\ p + 2 = n /\ ms[k].role = "user" /\ ms[k].texts = <<>>
                  <9>1. k >= p + 2 /\ k <= n
                    BY <1>1, <3>6, <7>2
                  <9>2. p + 1 # n
                    <10> HIDE DEF n, T, c, m, At
                    <10> QED BY <1>1, <9>1
                  <9>3. p + 2 = n /\ ms[p+2].role = "user" /\ ms[p+2].texts = <<>>
                    BY <5>1, <5>3, <9>2
                  <9>4. k = p + 2
                    BY <1>1, <9>1, <9>3
                  <9> QED BY <9>3, <9>4
                <8>2. /\ m.role = "user" /\ m.texts = <<>>
                      /\ m.results = {r \in ms[k].results : r.id \in LiveIds(ms)}
                  BY <1>3, <1>4, <8>1
                <8>3. ASSUME NEW r \in ms[k].results PROVE r.id \notin LiveIds(ms)
                  <9>1. IdsOf(ms[k].results) \subseteq ms[k-1].uses /\ k - 1 = p + 1
                    BY <8>1, <8>3 DEF Folded, ResultsAnswer
                  <9>2. r.id \in ms[p+1].uses
                    BY <8>3, <9>1 DEF IdsOf
                  <9>3. ASSUME NEW j \in DOMAIN ms \ Unanswered(ms), r.id \in ms[j].uses
                        PROVE  FALSE
                    <10>1. j \in 1..n /\ j # p + 1 /\ p + 1 \in 1..n
                      BY <1>1, <5>1, <5>3
                    <10>2. ms[j].uses \cap ms[p+1].uses = {}
                      BY <10>1 DEF Folded, DistinctCalls
                    <10> QED BY <9>2, <9>3, <10>2
                  <9> QED BY <9>3 DEF LiveIds
                <8>4. {r \in ms[k].results : r.id \in LiveIds(ms)} = {}
                  BY <8>3
                <8> HIDE DEF m
                <8> QED BY <8>2, <8>4
              <7> QED BY <7>1, <7>2
            <6>2. f[k] = c
              BY <1>2, <6>1 DEF KeepContent
            <6>3. At(f[k], i, k)
              <7> HIDE DEF c, m
              <7> QED BY <4>1, <4>6, <5>3, <6>2
            <6> HIDE DEF At
            <6> QED BY <3>1, <4>2, <6>3
          <5> QED BY <5>2, <5>3
        <4> QED BY <4>1, <4>4, <4>5, <4>6
      <3> QED BY <3>4, <3>5, <3>6
    <2>3. 0 \in T
      <3>1. ~ (p <= 0) /\ 0 \in 0..n
        BY <1>1
      <3> QED BY <3>1
    <2>4. n \in T
      <3>1. \A k \in 0..n : k \in T
        <4> HIDE DEF T, n
        <4> QED BY <1>1, <2>2, <2>3, CountsUp
      <3> HIDE DEF T, n
      <3> QED BY <1>1, <3>1
    <2>5. PICK i \in 1..Len(f[n]) : At(f[n], i, n)
      <3>1. p <= n
        OBVIOUS
      <3> HIDE DEF At, n
      <3> QED BY <2>4, <3>1
    <2>6. Lasts(f[n], i, t)
      BY <2>5 DEF Lasts
    <2> QED BY <2>6
  <1>11. n \in 0..n
    BY <1>1
  <1> QED BY <1>2, <1>9, <1>10, <1>11

\* A user turn, coalesced or not, takes no text away and adds its own.
LEMMA UserTurnTexts ==
  ASSUME NEW ms \in Seq(Message), NEW rs \in SUBSET Result, NEW ts \in Seq(Text),
         NEW new, new = AppendUserTurn(ms, rs, ts)
  PROVE  /\ TextsIn(new) = TextsIn(ms) \cup ToSet(ts)
         /\ \A t : Tells(ms, t) => Tells(new, t)
  <1>1. CASE ~ EndsInUser(ms)
    <2> DEFINE m == UserMsg(rs, ts)
    <2>1. m \in Message /\ m.texts = ts
      <3>1. m \in UserMessage
        BY MessageTypes
      <3> QED BY <3>1 DEF Message, UserMsg
    <2>2. new = Append(ms, m)
      BY <1>1 DEF AppendUserTurn
    <2> HIDE DEF m
    <2> QED BY <2>1, <2>2, TextsAppend
  <1>2. CASE EndsInUser(ms)
    <2> DEFINE n == Len(ms)
               m == UserMsg(ms[n].results \cup rs, ms[n].texts \o ts)
    <2>1. new = [ms EXCEPT ![n] = m] /\ ms[n].role = "user" /\ ms # <<>>
      BY <1>2 DEF AppendUserTurn, EndsInUser
    <2>2. m.role = "user" /\ m.texts = ms[n].texts \o ts
      BY DEF UserMsg
    <2>3. n \in 1..n /\ ms[n] \in Message
      <3> HIDE DEF Message
      <3> QED BY <2>1
    <2>4. ToSet(m.texts) = ToSet(ms[n].texts) \cup ToSet(ts)
      BY <2>2, <2>3, MessageShapes, TextsJoin
    <2> HIDE DEF m
    <2>5. /\ Len(new) = n /\ n \in Nat /\ new[n] = m
          /\ \A i \in 1..n : i # n => new[i] = ms[i]
      <3> HIDE DEF Message
      <3> QED BY <2>1
    <2> HIDE DEF n
    <2>6. \A i \in 1..n : i = n \/ new[i] = ms[i]
      BY <2>5
    <2>7. ASSUME NEW t PROVE t \in TextsIn(new) <=> t \in TextsIn(ms) \cup ToSet(ts)
      <3>1. ASSUME t \in TextsIn(new) PROVE t \in TextsIn(ms) \cup ToSet(ts)
        <4>1. PICK i \in 1..n : t \in ToSet(new[i].texts)
          BY <2>5, <3>1, TextsOf
        <4>2. CASE i = n
          <5>1. t \in ToSet(ms[n].texts) \/ t \in ToSet(ts)
            BY <2>4, <2>5, <4>1, <4>2
          <5> QED BY <2>3, <5>1, TextsOf DEF n
        <4>3. CASE new[i] = ms[i]
          BY <4>1, <4>3, TextsOf DEF n
        <4> QED BY <2>6, <4>2, <4>3
      <3>2. ASSUME t \in TextsIn(ms) PROVE t \in TextsIn(new)
        <4>1. PICK i \in 1..n : t \in ToSet(ms[i].texts)
          BY <3>2, TextsOf DEF n
        <4>2. t \in ToSet(new[i].texts)
          BY <2>4, <2>5, <2>6, <4>1
        <4> QED BY <2>5, <4>1, <4>2, TextsOf
      <3>3. ASSUME t \in ToSet(ts) PROVE t \in TextsIn(new)
        <4>1. t \in ToSet(new[n].texts)
          BY <2>4, <2>5, <3>3
        <4> QED BY <2>3, <2>5, <4>1, TextsOf
      <3> QED BY <3>1, <3>2, <3>3
    <2>8. ASSUME NEW t, Tells(ms, t) PROVE Tells(new, t)
      <3>1. PICK i \in 1..n : ms[i].role = "user" /\ t \in ToSet(ms[i].texts)
        BY <2>8 DEF Tells, n
      <3>2. new[i].role = "user" /\ t \in ToSet(new[i].texts)
        BY <2>2, <2>4, <2>5, <2>6, <3>1
      <3> QED BY <2>5, <3>1, <3>2 DEF Tells
    <2> QED BY <2>7, <2>8
  <1> QED BY <1>1, <1>2

\* A human text of the last user message goes to the draft, or stays.
LEMMA UndraftedTells ==
  ASSUME NEW r \in Seq(Message)
  PROVE  /\ TextsIn(WithoutDraft(r)) \subseteq TextsIn(r)
         /\ \A t : Tells(r, t) /\ t.kind \in Human
                      => Tells(WithoutDraft(r), t) \/ t \in ToSet(PendingDraft(r))
  <1>1. CASE PendingDraft(r) = <<>>
    BY <1>1 DEF WithoutDraft
  <1>2. CASE PendingDraft(r) # <<>>
    <2> DEFINE last == r[Len(r)]
               s == Front(r)
    <2>1. r # <<>> /\ last.role = "user" /\ PendingDraft(r) = HumanTexts(Last(r).texts)
      BY <1>2 DEF PendingDraft, EndsInUser
    <2>2. last \in Message /\ Last(r) = last /\ s \in Seq(Message) /\ r = Append(s, last)
      BY <2>1, EndsApart
    <2> HIDE DEF last, s
    <2>3. last.texts \in Seq(Text) /\ last.results \in SUBSET Result
      BY <2>1, <2>2, MessageShapes
    <2>4. TextsIn(r) = TextsIn(s) \cup ToSet(last.texts)
      BY <2>2, TextsAppend
    <2>5. ASSUME NEW t, Tells(r, t) PROVE Tells(s, t) \/ t \in ToSet(last.texts)
      <3>1. PICK i \in 1..Len(r) : r[i].role = "user" /\ t \in ToSet(r[i].texts)
        BY <2>5 DEF Tells
      <3>2. /\ Len(s) \in Nat /\ Len(r) = Len(s) + 1 /\ r[Len(s) + 1] = last
            /\ \A k \in 1..Len(s) : r[k] = s[k]
        <4> HIDE DEF Message
        <4> QED BY <2>2
      <3>3. i = Len(s) + 1 \/ i \in 1..Len(s)
        BY <3>2
      <3> QED BY <3>1, <3>2, <3>3 DEF Tells
    <2>6. ASSUME NEW t \in ToSet(last.texts), t.kind \in Human
          PROVE  t \in ToSet(PendingDraft(r))
      <3>1. t \in ToSet(HumanTexts(last.texts))
        BY <2>3, <2>6, PicksHuman
      <3> QED BY <2>1, <2>2, <3>1
    <2>7. CASE last.results = {}
      <3>1. WithoutDraft(r) = s
        BY <1>2, <2>2, <2>7 DEF WithoutDraft, s
      <3> QED BY <2>4, <2>5, <2>6, <3>1
    <2>8. CASE last.results # {}
      <3> DEFINE m == UserMsg(last.results, <<>>)
      <3>1. m \in Message /\ m.texts = <<>>
        <4>1. m \in UserMessage
          BY <2>3, MessageTypes, TextTypes
        <4> QED BY <4>1 DEF Message, UserMsg
      <3>2. WithoutDraft(r) = s \o <<m>>
        BY <1>2, <2>2, <2>8 DEF WithoutDraft, s
      <3> HIDE DEF m
      <3>3. s \o <<m>> = Append(s, m)
        <4> HIDE DEF Message
        <4> QED BY <2>2, <3>1
      <3>4. /\ TextsIn(Append(s, m)) = TextsIn(s) \cup ToSet(m.texts)
            /\ \A t : Tells(s, t) => Tells(Append(s, m), t)
        BY <2>2, <3>1, TextsAppend
      <3>5. ToSet(m.texts) = {}
        BY <3>1 DEF ToSet
      <3> QED BY <2>4, <2>5, <2>6, <3>2, <3>3, <3>4, <3>5
    <2> QED BY <2>7, <2>8
  <1> QED BY <1>1, <1>2

\* A restore makes no text up; a human one is in the history or in the draft, if
\* step 3 keeps it and it is a checkpoint or no user message comes to stand behind.
LEMMA RestoredTells ==
  ASSUME NEW records, NEW ms, ms = FoldRecords(records), Folded(ms)
  PROVE  /\ TextsIn(Restored(records)) \subseteq TextsIn(ms)
         /\ \A p \in 1..Len(ms) : \A t :
               /\ ms[p].role = "user" /\ t \in ToSet(ms[p].texts) /\ t.kind \in Human
               /\ t.kind = "checkpoint" \/ Stands(ms, p)
               => Tells(Restored(records), t) \/ t \in ToSet(Draft(records))
  <1> DEFINE c == Cleaned(ms)
             r == CollapseUsers(c)
  <1>1. /\ c \in Seq(Message) /\ TextsIn(c) \subseteq TextsIn(ms)
        /\ \A p \in 1..Len(ms) : \A t :
              /\ ms[p].role = "user" /\ t \in ToSet(ms[p].texts)
              /\ t.kind = "checkpoint" \/ Stands(ms, p)
              => \E i \in 1..Len(c) : Lasts(c, i, t)
    BY CleanedTells
  <1>2. Repaired(records) = r
    BY DEF Repaired, RepairMessages
  <1> HIDE DEF c
  <1>3. /\ r \in Seq(Message) /\ TextsIn(r) \subseteq TextsIn(c)
        /\ \A i \in 1..Len(c) : \A t : Lasts(c, i, t) => Tells(r, t)
    BY <1>1, CollapsedTells
  <1>4. Restored(records) = WithoutDraft(r) /\ Draft(records) = PendingDraft(r)
    BY <1>2 DEF Restored, Draft
  <1> HIDE DEF r
  <1>5. /\ TextsIn(WithoutDraft(r)) \subseteq TextsIn(r)
        /\ \A t : Tells(r, t) /\ t.kind \in Human
                     => Tells(WithoutDraft(r), t) \/ t \in ToSet(PendingDraft(r))
    BY <1>3, UndraftedTells
  <1> QED BY <1>1, <1>3, <1>4, <1>5

-----------------------------------------------------------------------------
(* A checkpoint is restored                                                 *)

\* The newest checkpoint is in a user message of what the log folds into.
CheckpointInv == Checkpoints > 0 => Tells(Fold, Checkpoint(Checkpoints))

\* The loop logs messages and results, and takes no text out of the fold.
LEMMA LogTells ==
  ASSUME NEW X, log \in Seq(X), Record \subseteq X, Fold \in Seq(Message), LogGrows
  PROVE  /\ \E es \in Seq(Record) : log' = log \o es
         /\ \A t : Tells(Fold, t) => Tells(Fold', t)
  <1>1. /\ log \o <<>> = log
        /\ \A m \in Message : /\ log \o <<m>> = Append(log, m)
                              /\ FoldRecords(Append(log, m)) = Append(Fold, m)
        /\ \A m, u \in Message :
              FoldRecords(log \o (<<m>> \o <<u>>)) = Append(Append(Fold, m), u)
        /\ \A r \in Result : FoldRecords(Append(log, ResultRecord(r)))
                                = AppendUserTurn(Fold, {r}, <<>>)
    BY FoldSteps
  <1>2. /\ Message \subseteq Record /\ UserMessage \subseteq Message
        /\ AssistantMessage \subseteq Message /\ \A r \in Result : ResultRecord(r) \in Record
    BY DEF Record, Message, ResultRecord
  <1>3. /\ \A m \in Record : <<m>> \in Seq(Record)
        /\ \A m, u \in Record : <<m>> \o <<u>> \in Seq(Record)
        /\ <<>> \in Seq(Record)
        /\ \A m \in Record : Append(log, m) = log \o <<m>>
    <2> HIDE DEF Record
    <2> QED OBVIOUS
  <1>4. Fold' = FoldRecords(log')
    BY DEF Fold
  <1>5. \A ms \in Seq(Message), m \in Message :
           Append(ms, m) \in Seq(Message) /\ \A t : Tells(ms, t) => Tells(Append(ms, m), t)
    <2> TAKE ms \in Seq(Message), m \in Message
    <2>1. Append(ms, m) \in Seq(Message)
      <3> HIDE DEF Message
      <3> QED OBVIOUS
    <2> QED BY <2>1, TextsAppend
  <1>a. CASE log' = log \/ log' = log \o <<>>
    <2>1. Fold' = Fold
      BY <1>1, <1>4, <1>a DEF Fold
    <2> QED BY <1>1, <1>3, <1>a, <2>1
  <1>b. CASE \E u \in Message : log' = Append(log, u) \/ log' = log \o <<u>>
    <2>1. PICK u \in Message : log' = log \o <<u>> /\ Fold' = Append(Fold, u)
      BY <1>1, <1>4, <1>b
    <2>2. <<u>> \in Seq(Record)
      BY <1>2, <1>3
    <2> HIDE DEF Fold
    <2> QED BY <1>5, <2>1, <2>2
  <1>d. CASE \E m, u \in Message : log' = log \o (<<m>> \o <<u>>)
    <2>1. PICK m, u \in Message : log' = log \o (<<m>> \o <<u>>)
      BY <1>d
    <2>2. Fold' = Append(Append(Fold, m), u) /\ <<m>> \o <<u>> \in Seq(Record)
      BY <1>1, <1>2, <1>3, <1>4, <2>1
    <2> HIDE DEF Fold
    <2> QED BY <1>5, <2>1, <2>2
  <1>g. CASE \E r \in Result : log' = Append(log, ResultRecord(r))
    <2>1. PICK r \in Result : log' = Append(log, ResultRecord(r))
      BY <1>g
    <2>2. Fold' = AppendUserTurn(Fold, {r}, <<>>)
      BY <1>1, <1>4, <2>1
    <2>3. \A t : Tells(Fold, t) => Tells(AppendUserTurn(Fold, {r}, <<>>), t)
      <3>1. {r} \in SUBSET Result /\ <<>> \in Seq(Text)
        BY TextTypes
      <3> HIDE DEF Fold
      <3> QED BY <3>1, UserTurnTexts
    <2>4. <<ResultRecord(r)>> \in Seq(Record) /\ log' = log \o <<ResultRecord(r)>>
      BY <1>2, <1>3, <2>1
    <2> QED BY <2>2, <2>3, <2>4
  <1> QED BY <1>2, <1>a, <1>b, <1>d, <1>g DEF LogGrows

\* How many records of compactions there are, when the log grows by others.
LEMMA CheckpointsStay ==
  ASSUME NEW X, log \in Seq(X), NEW es \in Seq(X), log' = log \o es,
         \A i \in 1..Len(es) : es[i].role # "compact"
  PROVE  Checkpoints' = Checkpoints
  <1>1. /\ Len(log) \in Nat /\ Len(es) \in Nat /\ Len(log') = Len(log) + Len(es)
        /\ DOMAIN log = 1..Len(log) /\ DOMAIN log' = 1..Len(log')
        /\ \A i \in 1..Len(log) : log'[i] = log[i]
        /\ \A i \in 1..Len(es) : log'[i + Len(log)] = es[i]
    OBVIOUS
  <1>2. /\ \A i \in 1..Len(log') : \/ i \in 1..Len(log)
                                   \/ (i - Len(log) \in 1..Len(es)
                                       /\ (i - Len(log)) + Len(log) = i)
        /\ \A i \in 1..Len(log) : i \in 1..Len(log')
    BY <1>1
  <1>3. {i \in DOMAIN log' : log'[i].role = "compact"} = {i \in DOMAIN log : log[i].role = "compact"}
    <2>1. ASSUME NEW i \in 1..Len(log'), log'[i].role = "compact" PROVE i \in 1..Len(log)
      BY <1>1, <1>2, <2>1
    <2> QED BY <1>1, <1>2, <2>1
  <1> QED BY <1>3 DEF Checkpoints

\* One record of a compaction more.
LEMMA CheckpointsGrow ==
  ASSUME NEW X, log \in Seq(X), NEW rec \in X, rec.role = "compact", log' = Append(log, rec)
  PROVE  Checkpoints' = Checkpoints + 1
  <1> DEFINE S == {i \in DOMAIN log : log[i].role = "compact"}
             T == {i \in DOMAIN log' : log'[i].role = "compact"}
             n == Len(log)
  <1>1. /\ n \in Nat /\ Len(log') = n + 1 /\ log'[n + 1] = rec
        /\ DOMAIN log = 1..n /\ DOMAIN log' = 1..Len(log')
        /\ \A i \in 1..n : log'[i] = log[i]
    OBVIOUS
  <1> HIDE DEF n
  <1>2. /\ \A i \in 1..n+1 : i = n + 1 \/ i \in 1..n
        /\ \A i \in 1..n : i \in 1..n+1 /\ i # n + 1
        /\ n + 1 \in 1..n+1
    BY <1>1
  <1>3. T = S \cup {n + 1} /\ n + 1 \notin S
    BY <1>1, <1>2
  <1>4. IsFiniteSet(1..n) /\ S \subseteq 1..n
    BY <1>1, FS_Interval
  <1>5. Checkpoints = Cardinality(S) /\ Checkpoints' = Cardinality(T)
    BY DEF Checkpoints
  <1> HIDE DEF S, T
  <1>6. IsFiniteSet(S)
    BY <1>4, FS_Subset
  <1> QED BY <1>3, <1>5, <1>6, FS_AddElement

\* A replacement begins with the checkpoint it is counted as.
LEMMA CommitTells ==
  ASSUME CompactInv, FoldInv, NEW keep \in Nat, Commit(Compacted(messages, keep)),
         Fold' = messages'
  PROVE  CheckpointInv'
  <1> DEFINE new == Compacted(messages, keep)
             k == Checkpoints + 1
             m == UserMsg({}, <<Checkpoint(k)>>)
             t == SliceTail(messages, keep)
  <1>1. /\ messages \in Seq(Message) /\ Resumable(messages) /\ DistinctCalls(messages)
        /\ log \in Seq(Record \cup CompactRecords)
    BY DEF CompactInv, CompactTypes, IInv, LoopTypes
  <1>2. messages' = new /\ log' = Append(log, CompactRecord(new))
    BY DEF Commit
  <1>3. new = <<m>> \o t
    BY DEF Compacted
  <1>4. k \in Nat /\ m \in Message /\ m.role = "user" /\ m.texts = <<Checkpoint(k)>>
    BY <1>1, CheckpointsTypes, CheckpointTypes DEF UserMsg
  <1>5. PICK n \in Nat : Slice(t, messages, n)
    BY <1>1, SliceTailSlice
  <1>6. t \in Seq(Message)
    BY <1>1, <1>5 DEF Slice
  <1> HIDE DEF new, m, t, k
  <1>7. new \in Seq(Message) /\ Len(new) \in Nat /\ Len(new) = Len(t) + 1 /\ new[1] = m
        /\ Len(t) \in Nat
    BY <1>3, <1>4, <1>6, FrontFacts
  <1>8. Checkpoints' = Checkpoints + 1
    <2>1. CompactRecord(new) \in Record \cup CompactRecords /\ CompactRecord(new).role = "compact"
      BY <1>7 DEF CompactRecord, CompactRecords
    <2> QED BY <1>1, <1>2, <2>1, CheckpointsGrow
  <1>9. Checkpoint(k) \in ToSet(new[1].texts)
    BY <1>4, <1>7 DEF ToSet
  <1>10. Tells(new, Checkpoint(k))
    <2>1. 1 \in 1..Len(new)
      BY <1>7
    <2> QED BY <1>4, <1>7, <1>9, <2>1 DEF Tells
  <1>11. Fold' = new
    BY <1>2
  <1>12. CheckpointInv' <=> (Checkpoints' > 0 => Tells(Fold', Checkpoint(Checkpoints')))
    BY DEF CheckpointInv
  <1> QED BY <1>8, <1>10, <1>11, <1>12 DEF k

\* Every step keeps the newest checkpoint in the log.
LEMMA CheckpointKept ==
  ASSUME CompactInv, FoldInv, Fit(messages), CheckpointInv, [CompactNext]_compactVars
  PROVE  CheckpointInv'
  <1> DEFINE X == Record \cup CompactRecords
  <1>1. log \in Seq(X) /\ Record \subseteq X /\ Fold \in Seq(Message)
    BY DEF CompactInv, CompactTypes, FoldInv, Folded
  <1>2. ASSUME log' = log PROVE CheckpointInv'
    BY <1>2 DEF CheckpointInv, Checkpoints, Fold
  <1>3. CASE [Next]_vars
    <2>1. LogGrows
      BY <1>3, StepGrows DEF CompactInv
    <2>2. /\ \E es \in Seq(Record) : log' = log \o es
          /\ \A t : Tells(Fold, t) => Tells(Fold', t)
      BY <1>1, <2>1, LogTells
    <2>3. Checkpoints' = Checkpoints
      <3>1. PICK es \in Seq(Record) : log' = log \o es
        BY <2>2
      <3>2. es \in Seq(X) /\ \A i \in 1..Len(es) : es[i] \in Record
        <4> HIDE DEF Record
        <4> QED BY <3>1
      <3>3. \A rec \in Record : rec.role # "compact"
        BY MessageShapes DEF Record
      <3> HIDE DEF X
      <3> QED BY <1>1, <3>1, <3>2, <3>3, CheckpointsStay
    <2>4. CheckpointInv' <=> (Checkpoints' > 0 => Tells(Fold', Checkpoint(Checkpoints')))
      BY DEF CheckpointInv
    <2> QED BY <2>2, <2>3, <2>4 DEF CheckpointInv
  <1>4. CASE CompactCrash \/ Restart
    BY <1>2, <1>4 DEF CompactCrash, Crash, Restart
  <1>5. CASE LoopCompactEnds \/ (UserCompactEnds /\ messages = job.snapshot)
    <2>1. Fold' = messages' /\ \E keep \in Nat : Commit(Compacted(messages, keep))
      BY <1>5, Committed
    <2> QED BY <2>1, CommitTells
  <1>6. CASE \/ LoopCompacts
             \/ UserCompactEnds /\ messages # job.snapshot
             \/ \E keep \in Keeps : UserCompacts(keep)
             \/ \E request \in Requests : PluginAsks(request)
    BY <1>2, <1>6 DEF LoopCompacts, UserCompactEnds, UserCompacts, PluginAsks, sessionVars, vars
  <1> QED BY <1>3, <1>4, <1>5, <1>6 DEF CompactNext, compactVars, sessionVars

\* However sessions crash, resume and are compacted again, the newest checkpoint,
\* which stands for all it replaced, is in the restored history or in the draft.
THEOREM CheckpointSurvives ==
  ASSUME Initial = {<<>>}, ~ CompactMidTools, ~ CompactMidRepair
  PROVE  CompactSpec => []CheckpointIsRestored
  <1>1. CompactSpec => [](CompactInv /\ FoldInv /\ Fit(messages))
    BY CompactInvariance
  <1>2. CompactInit => CheckpointInv
    <2>1. log = <<>> => Checkpoints = 0
      <3>1. log = <<>> => {i \in DOMAIN log : log[i].role = "compact"} = {}
        OBVIOUS
      <3> QED BY <3>1, FS_EmptySet DEF Checkpoints
    <2> QED BY <2>1 DEF CompactInit, SessionInit, Init, CheckpointInv
  <1>3. /\ CompactInv /\ FoldInv /\ Fit(messages) /\ CheckpointInv /\ [CompactNext]_compactVars
        => CheckpointInv'
    BY CheckpointKept
  <1>4. FoldInv /\ CheckpointInv => CheckpointIsRestored
    <2> SUFFICES ASSUME FoldInv, CheckpointInv, Checkpoints > 0
                 PROVE  \/ Checkpoint(Checkpoints) \in ToSet(Draft(log))
                        \/ \E m \in ToSet(Restored(log)) :
                              Checkpoint(Checkpoints) \in ToSet(m.texts)
      BY DEF CheckpointIsRestored
    <2> DEFINE t == Checkpoint(Checkpoints)
               r == Restored(log)
    <2>1. PICK p \in 1..Len(Fold) : Fold[p].role = "user" /\ t \in ToSet(Fold[p].texts)
      BY DEF CheckpointInv, Tells
    <2>2. t.kind = "checkpoint" /\ t.kind \in Human
      BY DEF Checkpoint, Human
    <2>3. Fold = FoldRecords(log) /\ Folded(Fold)
      BY DEF FoldInv, Fold
    <2>4. r \in Seq(Message)
      BY <2>3, RestoredWhole DEF RestoreOf
    <2> HIDE DEF t
    <2>5. Tells(r, t) \/ t \in ToSet(Draft(log))
      <3> HIDE DEF r, Fold
      <3> QED BY <2>1, <2>2, <2>3, RestoredTells DEF r
    <2> HIDE DEF r
    <2>6. Tells(r, t) => \E m \in ToSet(r) : t \in ToSet(m.texts)
      <3>1. DOMAIN r = 1..Len(r)
        BY <2>4, SeqDomain, Zenon
      <3> QED BY <3>1 DEF Tells, ToSet
    <2> QED BY <2>5, <2>6 DEF r, t
  <1> QED BY <1>1, <1>2, <1>3, <1>4, PTL DEF CompactSpec

-----------------------------------------------------------------------------
(* A prompt survives                                                        *)

\* The indices behind an index.
LEMMA Behind ==
  ASSUME NEW n \in Nat, NEW p \in 1..n
  PROVE  /\ n \in 1..n /\ p \in Nat /\ p <= n /\ p < n + 1 /\ p + 1 \in Nat
         /\ p # n => (p < n /\ p + 1 \in 1..n /\ p < n + 1)
         /\ p + 1 = n => p + 2 = n + 1
         /\ p + 2 = n => (n - 1 = p + 1 /\ p + 1 < n /\ (p + 1) + 1 = n /\ p + 2 \in 1..n)
  OBVIOUS

\* A message put behind others, or in the place of the last.
LEMMA AddedAtEnd ==
  ASSUME NEW ms \in Seq(Message), NEW m \in Message
  PROVE  /\ Len(Append(ms, m)) = Len(ms) + 1 /\ Append(ms, m)[Len(ms) + 1] = m
         /\ \A i \in 1..Len(ms) : Append(ms, m)[i] = ms[i]
         /\ DOMAIN Append(ms, m) = 1..(Len(ms) + 1)
  <1> HIDE DEF Message
  <1> QED OBVIOUS

LEMMA ReplacedAtEnd ==
  ASSUME NEW ms \in Seq(Message), NEW m \in Message, ms # <<>>,
         NEW new, new = [ms EXCEPT ![Len(ms)] = m]
  PROVE  /\ Len(new) = Len(ms) /\ new[Len(ms)] = m
         /\ DOMAIN new = 1..Len(ms)
         /\ \A i \in 1..Len(ms) : i # Len(ms) => new[i] = ms[i]
  <1> HIDE DEF Message
  <1> QED OBVIOUS

\* The i-th message is a user's, and its answer stays.
Replied(ms, i) ==
    /\ ms[i].role = "user" /\ i < Len(ms) /\ ms[i+1].role = "assistant"
    /\ i + 1 \notin Unanswered(ms)

\* Whatever comes behind it.
LEMMA RepliedAppend ==
  ASSUME NEW ms \in Seq(Message), NEW m \in Message, NEW p \in 1..Len(ms), Replied(ms, p)
  PROVE  Replied(Append(ms, m), p) /\ Append(ms, m)[p] = ms[p]
  <1> DEFINE new == Append(ms, m)
  <1>1. /\ Len(ms) \in Nat /\ Len(new) = Len(ms) + 1 /\ \A i \in 1..Len(ms) : new[i] = ms[i]
        /\ DOMAIN ms = 1..Len(ms) /\ DOMAIN new = 1..Len(new)
    <2> HIDE DEF Message
    <2> QED OBVIOUS
  <1> HIDE DEF new
  <1>2. p + 1 \in 1..Len(ms) /\ p < Len(new) /\ p + 1 \in 1..Len(new)
    BY <1>1 DEF Replied
  <1>3. p + 1 \notin Unanswered(new)
    <2>1. CASE ms[p+1].uses = {}
      BY <1>1, <1>2, <2>1 DEF Unanswered
    <2>2. CASE p + 1 < Len(ms) /\ ms[p+1].uses \subseteq IdsOf(ms[(p+1)+1].results)
      <3>1. (p + 1) + 1 \in 1..Len(ms) /\ p + 1 < Len(new)
        BY <1>1, <1>2, <2>2
      <3> QED BY <1>1, <1>2, <2>2, <3>1 DEF Unanswered
    <2> QED BY <1>1, <1>2, <2>1, <2>2 DEF Replied, Unanswered
  <1> QED BY <1>1, <1>2, <1>3 DEF Replied, new

\* It is among those that the restore keeps.
LEMMA RepliedStands ==
  ASSUME NEW ms, NEW p, Replied(ms, p)
  PROVE  Stands(ms, p)
  BY DEF Replied, Stands

\* An answer behind a message that the restore keeps is an answer to it, or to a
\* message further on.
LEMMA StandsAnswer ==
  ASSUME NEW ms \in Seq(Message), NEW p \in 1..Len(ms), Stands(ms, p), NEW m \in AssistantMessage,
         Welcomes(ms, Len(ms))
  PROVE  /\ Stands(Append(ms, m), p) /\ Append(ms, m)[p] = ms[p]
         /\ Append(ms, m) \in Seq(Message) /\ Len(Append(ms, m)) = Len(ms) + 1
         /\ m.uses = {} => Replied(Append(ms, m), p)
  <1> DEFINE new == Append(ms, m)
  <1>1. m \in Message /\ m.role = "assistant"
    BY DEF Message, AssistantMessage
  <1>2. /\ Len(ms) \in Nat /\ Len(new) = Len(ms) + 1 /\ \A i \in 1..Len(ms) : new[i] = ms[i]
        /\ new[Len(ms) + 1] = m /\ new \in Seq(Message)
        /\ DOMAIN ms = 1..Len(ms) /\ DOMAIN new = 1..Len(new)
    <2> HIDE DEF Message, AssistantMessage
    <2> QED BY <1>1
  <1> HIDE DEF new
  <1>4. Len(new) - 1 = Len(ms) /\ new[Len(ms)] = ms[Len(ms)] /\ Len(ms) \in 1..Len(ms)
    BY <1>2
  <1>5. CASE p = Len(ms)
    <2>1. p < Len(new) /\ new[p+1].role = "assistant" /\ p + 1 = Len(new) /\ new[p] = ms[p]
          /\ new[p+1] = m /\ p + 1 \in 1..Len(new)
      BY <1>1, <1>2, <1>5
    <2>2. m.uses = {} => p + 1 \notin Unanswered(new)
      BY <1>2, <2>1 DEF Unanswered
    <2>3. new[p].role = "user"
      BY <2>1 DEF Stands
    <2>4. Stands(new, p)
      BY <2>1, <2>3 DEF Stands
    <2>5. m.uses = {} => Replied(new, p)
      BY <2>1, <2>2, <2>3 DEF Replied
    <2> QED BY <1>2, <2>1, <2>4, <2>5 DEF new
  <1>6. CASE p # Len(ms)
    <2>1. p < Len(ms) /\ ms[p+1].role = "assistant" /\ p + 1 \in 1..Len(ms)
      <3>1. p < Len(ms) /\ p + 1 \in 1..Len(ms)
        BY <1>2, <1>6, Behind
      <3> QED BY <1>6, <3>1 DEF Stands
    <2>2. p + 1 # Len(ms)
      <3>1. ms[Len(ms)].role = "user"
        BY DEF Welcomes
      <3> QED BY <2>1, <3>1
    <2>3. p + 1 \notin Unanswered(ms)
      <3>1. CASE p + 2 = Len(ms) /\ ms[p+2].texts = <<>>
        <4>1. ms[Len(ms)].texts = <<>> /\ Len(ms) - 1 = p + 1 /\ p + 1 < Len(ms)
              /\ (p + 1) + 1 = Len(ms)
          BY <1>2, <3>1, Behind
        <4>2. ms[Len(ms)-1].uses \subseteq IdsOf(ms[Len(ms)].results)
          BY <4>1 DEF Welcomes
        <4>3. ms[p+1].uses \subseteq IdsOf(ms[(p+1)+1].results)
          BY <4>1, <4>2
        <4> QED BY <4>1, <4>3 DEF Unanswered
      <3> QED BY <1>6, <2>2, <3>1 DEF Stands
    <2>4. Replied(ms, p)
      BY <2>1, <2>3 DEF Replied, Stands
    <2>5. Replied(new, p) /\ new[p] = ms[p]
      BY <1>1, <2>4, RepliedAppend DEF new
    <2> QED BY <1>2, <2>5, RepliedStands DEF new
  <1> QED BY <1>5, <1>6

\* A result behind it changes nothing.
LEMMA StandsResult ==
  ASSUME NEW ms \in Seq(Message), NEW p \in 1..Len(ms), Stands(ms, p), NEW r \in Result
  PROVE  LET new == AppendUserTurn(ms, {r}, <<>>)
         IN  Stands(new, p) /\ new[p].texts = ms[p].texts /\ Len(new) >= Len(ms)
  <1>0. PICK new : new = AppendUserTurn(ms, {r}, <<>>)
    OBVIOUS
  <1> SUFFICES Stands(new, p) /\ new[p].texts = ms[p].texts /\ Len(new) >= Len(ms)
    BY <1>0
  <1> DEFINE n == Len(ms)
  <1>1. /\ n \in Nat /\ DOMAIN ms = 1..n /\ p + 1 \in Nat /\ p <= n
        /\ \A i \in 1..n : ms[i] \in Message
    <2> HIDE DEF Message
    <2> QED OBVIOUS
  <1>2. CASE ~ EndsInUser(ms)
    <2>0. /\ UserMsg({r}, <<>>) \in Message
          /\ UserMsg({r}, <<>>).role = "user" /\ UserMsg({r}, <<>>).texts = <<>>
      <3>1. UserMsg({r}, <<>>) \in UserMessage
        BY MessageTypes, TextTypes
      <3> QED BY <3>1 DEF Message, UserMsg
    <2>1. PICK m \in Message : new = Append(ms, m) /\ m.role = "user" /\ m.texts = <<>>
      BY <1>0, <1>2, <2>0 DEF AppendUserTurn
    <2>2. m \in Message /\ m.role = "user" /\ m.texts = <<>>
      BY <2>1
    <2>3. /\ Len(new) = n + 1 /\ new[n + 1] = m /\ \A i \in 1..n : new[i] = ms[i]
      BY <2>1, AddedAtEnd DEF n
    <2>4. ms # <<>> => ms[n].role # "user"
      BY <1>2 DEF EndsInUser
    <2>5. p # n
      <3>1. ms # <<>>
        <4> HIDE DEF Message
        <4> QED OBVIOUS
      <3> QED BY <2>4, <3>1 DEF Stands
    <2>6. p < n /\ ms[p+1].role = "assistant" /\ p + 1 \in 1..n
      <3>1. p < n /\ p + 1 \in 1..n
        <4>1. p \in 1..n
          OBVIOUS
        <4> HIDE DEF Message, Stands, n
        <4> QED BY <1>1, <2>5, <4>1
      <3> QED BY <2>5, <3>1 DEF Stands
    <2>7. CASE p + 1 \notin Unanswered(ms)
      <3>1. Replied(ms, p)
        BY <2>6, <2>7 DEF Replied, Stands
      <3>2. Replied(new, p) /\ new[p] = ms[p]
        BY <2>1, <2>2, <3>1, RepliedAppend
      <3> QED BY <1>1, <2>3, <3>2, RepliedStands
    <2>8. CASE p + 1 = n
      <3>1. p + 2 = Len(new) /\ new[p+2] = m /\ p < Len(new)
            /\ new[p+1] = ms[p+1] /\ new[p] = ms[p]
        <4>1. p \in 1..n
          OBVIOUS
        <4>2. p + 2 = n + 1 /\ p < n + 1
          <5> HIDE DEF Message, Stands, n
          <5> QED BY <1>1, <2>6, <2>8
        <4> HIDE DEF Message, Stands, n
        <4> QED BY <1>1, <2>3, <2>6, <2>8, <4>1, <4>2
      <3>2. Stands(new, p)
        BY <2>2, <2>6, <3>1 DEF Stands
      <3> QED BY <1>1, <2>3, <3>1, <3>2
    <2>9. CASE p + 2 = n /\ ms[p+2].role = "user"
      <3>1. ms # <<>>
        <4> HIDE DEF Message
        <4> QED OBVIOUS
      <3> QED BY <2>4, <2>9, <3>1
    <2> QED BY <2>5, <2>7, <2>8, <2>9 DEF Stands
  <1>3. CASE EndsInUser(ms)
    <2>1. ms[n].role = "user" /\ ms # <<>> /\ n \in 1..n
      <3>1. ms[n].role = "user" /\ ms # <<>>
        BY <1>3 DEF EndsInUser
      <3>2. n \in 1..n
        BY <1>1, Behind
      <3> QED BY <3>1, <3>2
    <2>2. /\ ms[n].results \cup {r} \in SUBSET Result /\ ms[n].texts \in Seq(Text)
      BY <1>1, <2>1, MessageShapes
    <2>3. ms[n].texts \o <<>> = ms[n].texts
      <3> HIDE DEF Text
      <3> QED BY <2>2
    <2>0. PICK m \in Message : /\ new = [ms EXCEPT ![Len(ms)] = m] /\ m.role = "user"
                              /\ m.uses = {} /\ m.texts = ms[n].texts
                              /\ m.results = ms[n].results \cup {r}
      <3> DEFINE u == UserMsg(ms[n].results \cup {r}, ms[n].texts)
      <3>1. u \in Message
        <4>1. u \in UserMessage
          BY <2>2, MessageTypes
        <4> QED BY <4>1 DEF Message
      <3>2. new = [ms EXCEPT ![Len(ms)] = u]
        BY <1>0, <1>3, <2>3 DEF AppendUserTurn
      <3>3. /\ u.role = "user" /\ u.uses = {} /\ u.texts = ms[n].texts
            /\ u.results = ms[n].results \cup {r}
        BY DEF UserMsg
      <3> HIDE DEF u
      <3> QED BY <3>1, <3>2, <3>3
    <2>4. Len(new) = n /\ new[n] = m /\ DOMAIN new = 1..n
          /\ \A i \in 1..n : i # n => new[i] = ms[i]
      BY <2>0, <2>1, ReplacedAtEnd DEF n
    <2> HIDE DEF n
    <2>5. ASSUME NEW i \in 1..n
          PROVE  /\ new[i].role = ms[i].role /\ new[i].texts = ms[i].texts
                 /\ ms[i].uses = new[i].uses
                 /\ IdsOf(ms[i].results) \subseteq IdsOf(new[i].results)
      <3>1. CASE i = n
        <4>1. ms[n].uses = {}
          BY <1>1, <2>1, MessageShapes
        <4> QED BY <2>0, <2>1, <2>4, <3>1, <4>1 DEF IdsOf
      <3>2. CASE i # n
        BY <2>4, <3>2
      <3> QED BY <3>1, <3>2
    <2>6. Unanswered(new) \subseteq Unanswered(ms)
      <3> SUFFICES ASSUME NEW i \in Unanswered(new) PROVE i \in Unanswered(ms)
        OBVIOUS
      <3>1. i \in 1..n /\ new[i].uses # {}
        BY <2>4 DEF Unanswered
      <3>2. ~ (i < n /\ new[i].uses \subseteq IdsOf(new[i+1].results))
        BY <2>4 DEF Unanswered
      <3>3. i < n => i + 1 \in 1..n
        BY <1>1, <3>1
      <3>4. ~ (i < n /\ ms[i].uses \subseteq IdsOf(ms[i+1].results))
        BY <2>5, <3>1, <3>2, <3>3
      <3> QED BY <1>1, <2>5, <3>1, <3>4 DEF Unanswered, n
    <2>7. /\ p \in 1..n /\ (p < n => p + 1 \in 1..n) /\ (p + 2 = n => p + 2 \in 1..n)
      BY <1>1, Behind
    <2>8. Stands(new, p)
      <3>1. new[p].role = "user"
        BY <2>5, <2>7 DEF Stands
      <3>2. CASE p = n
        BY <2>4, <3>1, <3>2 DEF Stands
      <3>3. CASE p < n /\ ms[p+1].role = "assistant"
        <4>1. new[p+1].role = "assistant"
          BY <2>5, <2>7, <3>3
        <4>2. p + 2 = n => new[p+2].role = ms[p+2].role /\ new[p+2].texts = ms[p+2].texts
          BY <2>5, <2>7
        <4>3. CASE p = n
          BY <2>4, <3>1, <4>3 DEF Stands
        <4>4. CASE \/ p + 1 \notin Unanswered(ms) \/ p + 1 = n
                   \/ p + 2 = n /\ ms[p+2].role = "user" /\ ms[p+2].texts = <<>>
          BY <2>4, <2>6, <3>1, <3>3, <4>1, <4>2, <4>4 DEF Stands
        <4> QED BY <4>3, <4>4 DEF Stands, n
      <3> QED BY <3>2, <3>3 DEF Stands, n
    <2>9. Len(new) >= Len(ms)
      <3>1. n = Len(ms) /\ n \in Nat
        BY <1>1 DEF n
      <3>2. Len(new) = n
        BY <2>4
      <3> QED BY <3>1, <3>2
    <2>10. new[p].texts = ms[p].texts
      BY <2>5, <2>7
    <2> QED BY <2>8, <2>9, <2>10
  <1> QED BY <1>2, <1>3

\* With a whole round at the end, a message before its results has its answer.
LEMMA StandsRound ==
  ASSUME NEW ms \in Seq(Message), NEW p \in 1..Len(ms), Stands(ms, p), p < Len(ms),
         NEW rs, RoundAt(ms, rs, {})
  PROVE  Replied(ms, p)
  <1>1. rs # {}
    BY DEF RoundAt, IdsOf
  <1>2. PICK a \in 1..Len(ms) : /\ ms[a].role = "assistant" /\ ms[a].uses = IdsOf(rs)
                                /\ a + 1 = Len(ms) /\ ms[a+1].role = "user"
                                /\ ms[a+1].results = rs
    BY <1>1 DEF RoundAt
  <1>3. ms[p].role = "user" /\ ms[p+1].role = "assistant" /\ Len(ms) \in Nat
    BY DEF Stands
  <1>4. a \notin Unanswered(ms)
    BY <1>2 DEF Unanswered
  <1>5. p + 1 \notin Unanswered(ms)
    <2>1. CASE p + 1 = Len(ms)
      BY <1>2, <1>3, <2>1
    <2>2. CASE p + 2 = Len(ms)
      <3>1. p + 1 = a
        BY <1>2, <1>3, <2>2
      <3> QED BY <1>4, <3>1
    <2> QED BY <2>1, <2>2 DEF Stands
  <1> QED BY <1>3, <1>5 DEF Replied

-----------------------------------------------------------------------------
(* The prompts a step adds                                                  *)

\* No prompt of a run: a queued one is numbered 0.
Calm(ts) == \A t \in ToSet(ts) : t.kind = "prompt" => t.val = 0

\* No other prompt than that of the run.
Its(ts, run) == \A t \in ToSet(ts) : t.kind = "prompt" => t.val = 0 \/ t.val = run

\* The ways a step adds texts: a run begins with a prompt to be resolved; or its
\* user turn is added, which has no other prompt than the run's; or the loop goes
\* on, and adds no prompt of a run.
PromptStep ==
    \/ /\ runs' = runs + 1 /\ pc' = "resolving" /\ UNCHANGED <<messages, log>>
       /\ Its(content'.texts, runs')
    \/ /\ runs' = runs + 1 \/ (pc = "resolving" /\ runs' = runs)
       /\ pc' = "top"
       /\ \E u \in UserMessage :
             /\ log' = Append(log, u)
             /\ TextsIn(messages') \subseteq TextsIn(messages) \cup ToSet(u.texts)
             /\ Its(u.texts, runs')
    \/ /\ runs' = runs /\ (Running' => Running)
       /\ pc' = "resolving" => UNCHANGED <<pc, content, messages>>
       /\ \A t \in TextsIn(messages') : t \in TextsIn(messages) \/ (t.kind = "prompt" => t.val = 0)
       /\ \/ log' = log /\ (pc' \in InRound => pc \in InRound)
          \/ pc \in InRound /\ \E r \in Result : log' = Append(log, ResultRecord(r))
          \/ /\ pc \in Asking
             /\ \E m \in AssistantMessage : Calm(m.texts) /\ log' = Append(log, m)
          \/ /\ pc \in Asking /\ pc' = "top"
             /\ \E m \in AssistantMessage, u \in UserMessage :
                   /\ m.uses = {} /\ Calm(m.texts) /\ Calm(u.texts)
                   /\ log' = log \o (<<m>> \o <<u>>)
          \/ /\ pc = "gate" /\ pc' = "top"
             /\ \E u \in UserMessage : Calm(u.texts) /\ log' = Append(log, u)

\* What the loop says of itself has no prompt.
LEMMA CalmTexts ==
    /\ Calm(<<>>) /\ Calm(<<Note>>) /\ Calm(<<CutNote>>) /\ Calm(<<FullNote>>)
    /\ Calm(PendingModeTexts) /\ Calm(<<Prompt(0)>>)
    /\ \A n : Calm(<<Say(n)>>)
  BY DEF Calm, ToSet, Note, CutNote, FullNote, Prompt, Say, ModeNote, PendingModeTexts

LEMMA CalmSpoken ==
  ASSUME LoopTypes, NEW blank \in BOOLEAN
  PROVE  \/ Spoken(blank) = <<>> /\ blank
         \/ \E m \in AssistantMessage :
                m.uses = {} /\ Calm(m.texts) /\ Spoken(blank) = <<m>>
  <1>1. minted + 1 \in Nat
    BY DEF LoopTypes
  <1> DEFINE m == AssistantMsg({}, <<Say(minted + 1)>>)
  <1>2. m \in AssistantMessage /\ m.uses = {} /\ m.texts = <<Say(minted + 1)>>
    BY <1>1, MessageTypes, TextTypes DEF AssistantMsg
  <1>3. Calm(m.texts)
    BY <1>2, CalmTexts
  <1> QED BY <1>2, <1>3 DEF Spoken

\* A rollback makes no text up.
LEMMA RollbackTexts ==
  ASSUME NEW ms \in Seq(Message)
  PROVE  TextsIn(RollbackPendingTurn(ms)) \subseteq TextsIn(ms)
  <1> DEFINE n == RollbackPoint(ms)
             new == RollbackPendingTurn(ms)
  <1>1. /\ Len(new) = n /\ n \in 0..Len(ms) /\ Len(ms) \in Nat
        /\ \A i \in 1..n : new[i] = ms[i]
    BY RollbackKeeps
  <1> HIDE DEF n, new
  <1>2. \A i \in 1..n : i \in 1..Len(ms)
    BY <1>1
  <1>3. ASSUME NEW t \in TextsIn(new) PROVE t \in TextsIn(ms)
    <2>1. PICK i \in 1..Len(new) : t \in ToSet(new[i].texts)
      BY TextsOf
    <2>2. i \in 1..Len(ms) /\ t \in ToSet(ms[i].texts)
      BY <1>1, <1>2, <2>1
    <2> QED BY <2>2, TextsOf
  <1> QED BY <1>3 DEF new

\* An answer, alone or with the turn that asks for another.
LEMMA AnswerSpeaks ==
  ASSUME LoopTypes, pc \in Asking, Running, runs' = runs, pc' # "resolving",
         NEW m \in AssistantMessage, Calm(m.texts), NEW u \in UserMessage, Calm(u.texts),
         \/ Extend(<<m>>)
         \/ Extend(<<m>> \o <<u>>) /\ m.uses = {} /\ pc' = "top"
  PROVE  PromptStep
  <1>1. m \in Message /\ u \in Message /\ messages \in Seq(Message)
    BY DEF Message, LoopTypes
  <1>2. TextsIn(Append(messages, m)) = TextsIn(messages) \cup ToSet(m.texts)
    BY <1>1, TextsAppend
  <1>3. CASE Extend(<<m>>)
    <2>1. messages' = Append(messages, m) /\ log' = log \o <<m>>
      BY <1>1, <1>3, OneGrows
    <2> QED BY <1>2, <2>1 DEF PromptStep, Calm
  <1>4. CASE Extend(<<m>> \o <<u>>) /\ m.uses = {} /\ pc' = "top"
    <2>1. /\ messages' = Append(Append(messages, m), u)
          /\ log' = log \o (<<m>> \o <<u>>)
      BY <1>1, <1>4, TwoGrow
    <2>2. Append(messages, m) \in Seq(Message)
      <3> HIDE DEF Message
      <3> QED BY <1>1
    <2>3. TextsIn(messages') = TextsIn(messages) \cup ToSet(m.texts) \cup ToSet(u.texts)
      BY <1>1, <1>2, <2>1, <2>2, TextsAppend
    <2> QED BY <1>4, <2>1, <2>3 DEF PromptStep, Calm
  <1> QED BY <1>3, <1>4

\* No step of the loop adds texts in another way, if the model never answers with
\* nothing.
LEMMA StepPrompts ==
  ASSUME IInv, log \in Seq(Record), ~ EmptyAnswers, [Next]_vars,
         pc = "resolving" => Its(content.texts, runs)
  PROVE  PromptStep
  <1>0. /\ LoopTypes /\ messages \in Seq(Message) /\ results \in SUBSET Result
        /\ PendingModeTexts \in Seq(Text)
    BY TextTypes DEF IInv, LoopTypes
  <1>1. ASSUME NEW rs \in SUBSET Result, NEW ts \in Seq(Text), ts # <<>>,
               OpenTurn(rs, ts), Its(ts, runs'),
               runs' = runs + 1 \/ (pc = "resolving" /\ runs' = runs)
        PROVE  PromptStep
    <2> DEFINE u == UserMsg({}, ts)
    <2>1. /\ messages' = AppendUserTurn(messages, rs, ts) /\ log' = LogUser(ts)
          /\ pc' = "top"
      BY <1>1 DEF OpenTurn
    <2>2. TextsIn(messages') = TextsIn(messages) \cup ToSet(ts)
      BY <1>0, <1>1, <2>1, UserTurnTexts
    <2>3. u \in UserMessage /\ u.texts = ts /\ log' = Append(log, u)
      BY <1>1, <2>1, MessageTypes DEF LogUser, UserMsg
    <2> HIDE DEF u
    <2> QED BY <1>1, <2>1, <2>2, <2>3 DEF PromptStep
  <1>2. CASE StartRun \/ ContinueRun \/ PromptResolved
    <2>1. ASSUME NEW mark PROVE Calm(Opening(mark))
      <3> DEFINE head == IF mark = "none" THEN <<>> ELSE <<Note>>
      <3>1. Opening(mark) = head \o PendingModeTexts
        BY DEF Opening
      <3>2. head \in Seq(Text) /\ Calm(head)
        BY TextTypes, CalmTexts
      <3> HIDE DEF head
      <3>3. ToSet(Opening(mark)) = ToSet(head) \cup ToSet(PendingModeTexts)
        BY <1>0, <3>1, <3>2, TextsJoin
      <3> QED BY <3>2, <3>3, CalmTexts DEF Calm
    <2>2. CASE StartRun
      <3> DEFINE head == Opening(marker)
                 tail == <<Prompt(runs + 1)>>
      <3>1. /\ runs' = runs + 1 /\ pc' = "resolving" /\ UNCHANGED <<messages, log>>
            /\ content'.texts = head \o tail
        BY <2>2 DEF StartRun, Begin, UserMsg
      <3>2. head \in Seq(Text) /\ tail \in Seq(Text)
        <4>1. runs + 1 \in Nat
          BY <1>0 DEF LoopTypes
        <4>2. tail \in Seq(Text)
          BY <4>1, TextTypes
        <4>3. \/ Opening(marker) = <<>> \o PendingModeTexts
              \/ Opening(marker) = <<Note>> \o PendingModeTexts
          BY DEF Opening
        <4>4. <<>> \in Seq(Text) /\ <<Note>> \in Seq(Text)
          BY TextTypes
        <4> HIDE DEF tail
        <4> HIDE DEF tail, head
        <4>5. head \in Seq(Text)
          BY <1>0, <4>3, <4>4, TextsJoin DEF head
        <4> QED BY <4>2, <4>5
      <3>3. \A t \in ToSet(tail) : t.kind = "prompt" => t.val = runs'
        BY <3>1 DEF ToSet, Prompt
      <3> HIDE DEF head, tail
      <3>4. ToSet(content'.texts) = ToSet(head) \cup ToSet(tail)
        BY <3>1, <3>2, TextsJoin
      <3>5. Calm(head)
        BY <2>1 DEF head
      <3>6. Its(content'.texts, runs')
        BY <3>3, <3>4, <3>5 DEF Its, Calm
      <3> QED BY <3>1, <3>6 DEF PromptStep
    <2>3. CASE ContinueRun
      <3>1. OrphanResults \in SUBSET Result
        <4>1. Orphans(messages) \in SUBSET Nat
          <5>1. messages # <<>> => messages[Len(messages)] \in Message
            BY <1>0
          <5> QED BY <5>1, MessageShapes DEF Orphans
        <4> QED BY <4>1 DEF OrphanResults, Result, Outcomes
      <3>2. OpenTurn(OrphanResults, Opening("resumed")) /\ runs' = runs + 1
        BY <2>3 DEF ContinueRun, Begin
      <3>3. Its(Opening("resumed"), runs')
        BY <2>1 DEF Its, Calm
      <3> QED BY <1>0, <1>1, <3>1, <3>2, <3>3, ResumedTypes
    <2>4. CASE PromptResolved
      <3>1. /\ content.results \in SUBSET Result /\ content.texts \in Seq(Text)
            /\ OpenTurn(content.results, content.texts)
            /\ runs' = runs /\ pc = "resolving" /\ content.texts # <<>>
        BY <1>0, <2>4 DEF PromptResolved, IInv, ContentInv, LoopTypes, UserMessage
      <3> QED BY <1>1, <3>1
    <2> QED BY <1>2, <2>2, <2>3, <2>4
  <1>3. CASE Boundary
    <2>1. PICK queued \in BOOLEAN : BatchPasses(IF queued THEN <<Prompt(0)>> ELSE <<>>)
      BY <1>3 DEF Boundary
    <2> DEFINE drained == IF queued THEN <<Prompt(0)>> ELSE <<>>
               head == IF salvage THEN <<Note>> ELSE <<>>
               ts == head \o PendingModeTexts \o drained
               m == UserMsg(results, ts)
               u == UserMsg({}, drained)
    <2>2. /\ drained \in Seq(Text) /\ head \in Seq(Text)
          /\ Calm(drained) /\ Calm(head)
      BY TextTypes, CalmTexts
    <2>3. BatchPasses(drained)
      BY <2>1
    <2> HIDE DEF drained
    <2>4. /\ messages' = Append(messages, m) /\ log' = LogUser(drained)
          /\ runs' = runs /\ pc = "gate" /\ pc' = "top"
      BY <2>3 DEF BatchPasses
    <2> HIDE DEF head
    <2>5. /\ ts \in Seq(Text)
          /\ ToSet(ts) = (ToSet(head) \cup ToSet(PendingModeTexts)) \cup ToSet(drained)
      <3>1. /\ head \o PendingModeTexts \in Seq(Text)
            /\ ToSet(head \o PendingModeTexts) = ToSet(head) \cup ToSet(PendingModeTexts)
        BY <1>0, <2>2, TextsJoin
      <3> QED BY <2>2, <3>1, TextsJoin
    <2>6. Calm(ts)
      BY <2>2, <2>5, CalmTexts DEF Calm
    <2> HIDE DEF ts
    <2>7. m \in Message /\ m.texts = ts
      <3>1. m \in UserMessage /\ m.texts = ts
        BY <1>0, <2>5, MessageTypes DEF UserMsg
      <3> HIDE DEF m
      <3> QED BY <3>1 DEF Message
    <2> HIDE DEF m
    <2>8. TextsIn(messages') = TextsIn(messages) \cup ToSet(ts)
      BY <1>0, <2>4, <2>7, TextsAppend
    <2>9. u \in UserMessage /\ u.texts = drained /\ (log' = log \/ log' = Append(log, u))
      BY <2>2, <2>4, MessageTypes DEF LogUser, UserMsg
    <2> HIDE DEF u
    <2>10. Running /\ pc \in InRound /\ pc' \notin InRound
      BY <2>4 DEF Running, InRound
    <2> QED BY <2>2, <2>4, <2>6, <2>8, <2>9, <2>10 DEF PromptStep, Calm
  <1>4. CASE Answer
    <2>1. PICK blank \in BOOLEAN : \/ AnswerCut(blank) \/ AnswerFull(blank)
                                    \/ AnswerEnds(blank) \/ WrapAnswered(blank)
      BY <1>4 DEF Answer
    <2> DEFINE said == Spoken(blank)
               cut == UserMsg({}, <<CutNote>>)
               full == UserMsg({}, <<FullNote>>)
               turn == UserMsg({}, PendingModeTexts)
               stub == AssistantMsg({}, <<Note>>)
               kept == IF said = <<>> THEN <<stub>> ELSE said
    <2>2. /\ cut \in UserMessage /\ full \in UserMessage /\ turn \in UserMessage
          /\ stub \in AssistantMessage /\ stub.uses = {} /\ Calm(stub.texts)
          /\ Calm(cut.texts) /\ Calm(full.texts) /\ Calm(turn.texts)
      BY <1>0, MessageTypes, TextTypes, CalmTexts DEF UserMsg, AssistantMsg
    <2>3. /\ \/ Extend(said) /\ pc' = "unwinding"
             \/ Extend(said \o <<turn>>) /\ ~ blank /\ pc' = "top"
             \/ \E note \in {cut, full} : Extend(kept \o <<note>>) /\ pc' = "top"
          /\ pc \in Asking /\ Running /\ runs' = runs
      BY <2>1 DEF AnswerCut, AnswerFull, AnswerEnds, WrapAnswered, AskToContinue, Finish,
                  Asking, Running
    <2>4. \/ said = <<>> /\ blank
          \/ \E m \in AssistantMessage : m.uses = {} /\ Calm(m.texts) /\ said = <<m>>
      BY <1>0, CalmSpoken
    <2> HIDE DEF said, cut, full, turn, stub
    <2>5. CASE Extend(said) /\ said = <<>> /\ pc' = "unwinding"
      <3>1. messages' = messages
        <4> HIDE DEF Message
        <4> QED BY <1>0, <2>5 DEF Extend
      <3>2. log' = log
        <4> HIDE DEF Record
        <4> QED BY <2>5 DEF Extend
      <3>3. pc' \notin InRound /\ pc' # "resolving"
        BY <2>5 DEF InRound
      <3> QED BY <2>3, <3>1, <3>2, <3>3 DEF PromptStep
    <2>6. CASE \E m \in AssistantMessage :
                  /\ m.uses = {} /\ Calm(m.texts)
                  /\ \/ Extend(<<m>>)
                     \/ Extend(<<m>> \o <<turn>>) /\ pc' = "top"
                     \/ \E note \in {cut, full} :
                            Extend(<<m>> \o <<note>>) /\ pc' = "top"
      <3>1. pc' # "resolving"
        BY <2>3
      <3> QED BY <1>0, <2>2, <2>3, <2>6, <3>1, AnswerSpeaks
    <2>7. CASE \E note \in {cut, full} : Extend(<<stub>> \o <<note>>) /\ pc' = "top"
      BY <1>0, <2>2, <2>3, <2>7, AnswerSpeaks
    <2>8. \A m : said = <<m>> => said # <<>>
      OBVIOUS
    <2> QED BY <2>3, <2>4, <2>5, <2>6, <2>7, <2>8
  <1>5. CASE \E n \in 1..MaxTools, cut \in BOOLEAN : AnswerCallsTools(n, cut)
    <2>1. PICK n \in 1..MaxTools, cut \in BOOLEAN : AnswerCallsTools(n, cut)
      BY <1>5
    <2> DEFINE ids == minted+1 .. minted+n
               m == AssistantMsg(ids, <<>>)
               u == UserMsg({}, <<>>)
    <2>2. ids \in SUBSET Nat
      <3>1. minted \in Nat /\ n \in Nat
        BY <1>0, Numbers
      <3> QED BY <3>1
    <2>3. /\ Extend(<<m>>) /\ pc \in Asking /\ Running /\ runs' = runs
          /\ pc' # "resolving"
      BY <2>1 DEF AnswerCallsTools, Asking, Running
    <2> HIDE DEF ids
    <2>4. m \in AssistantMessage /\ Calm(m.texts) /\ u \in UserMessage /\ Calm(u.texts)
      BY <2>2, MessageTypes, TextTypes, CalmTexts DEF AssistantMsg, UserMsg
    <2> HIDE DEF m, u
    <2> QED BY <1>0, <2>3, <2>4, AnswerSpeaks
  <1>6. CASE \E id \in todo, how \in {"ran", "canceled"} : ToolReturns(id, how)
    <2>1. PICK id \in todo, how \in {"ran", "canceled"} : ToolReturns(id, how)
      BY <1>6
    <2> DEFINE r == [id |-> id, outcome |-> how]
    <2>2. r \in Result
      BY <1>0 DEF LoopTypes, Result, Outcomes
    <2>3. /\ log' = Append(log, ResultRecord(r)) /\ messages' = messages /\ runs' = runs
          /\ Running /\ pc \in InRound /\ pc' # "resolving"
      BY <2>1 DEF ToolReturns, Running, InRound
    <2> HIDE DEF r
    <2> QED BY <2>2, <2>3 DEF PromptStep
  <1>7. CASE CapReached
    <2>1. <<Note>> \in Seq(Text) /\ {} \in SUBSET Result /\ Calm(<<Note>>)
      BY TextTypes, CalmTexts
    <2>2. /\ log' = log /\ messages' = AppendUserTurn(messages, {}, <<Note>>) /\ runs' = runs
          /\ Running /\ pc' \notin InRound /\ pc' # "resolving"
      BY <1>7 DEF CapReached, Running, InRound
    <2>3. TextsIn(messages') = TextsIn(messages) \cup ToSet(<<Note>>)
      BY <1>0, <2>1, <2>2, UserTurnTexts
    <2> QED BY <2>1, <2>2, <2>3 DEF PromptStep, Calm
  <1>8. CASE Settle
    <2>1. /\ log' = log /\ runs' = runs /\ pc' = "idle"
          /\ messages' = RollbackPendingTurn(messages) \/ messages' = messages
      BY <1>8 DEF Settle
    <2>2. TextsIn(messages') \subseteq TextsIn(messages)
      BY <1>0, <2>1, RollbackTexts
    <2>3. ~ Running' /\ pc' \notin InRound
      BY <2>1 DEF Running, InRound
    <2> QED BY <2>1, <2>2, <2>3 DEF PromptStep
  <1>9. CASE \/ NextRound \/ StopAtTop \/ SendThrows \/ ToggleMode \/ UNCHANGED vars
             \/ ToolThrows \/ BatchHalted \/ ResolverThrows
             \/ \E who \in {"user", "mode"} : Abort(who)
    <2>1. /\ log' = log /\ messages' = messages /\ runs' = runs
          /\ \/ pc' = pc /\ content' = content
             \/ pc' = "unwinding"
             \/ pc = "top" /\ pc' = "model"
      BY <1>9 DEF NextRound, StopAtTop, SendThrows, ToggleMode, Abort, ToolThrows, BatchHalted,
                  ResolverThrows, Finish, loop, vars
    <2>2. (Running' => Running) /\ (pc' \in InRound => pc \in InRound)
      BY <2>1 DEF Running, InRound
    <2> QED BY <2>1, <2>2 DEF PromptStep
  <1> QED BY <1>2, <1>3, <1>4, <1>5, <1>6, <1>7, <1>8, <1>9
          DEF Next, Advance, Environment

\* Where a prompt stands in what the log folds into; within a round, its answer
\* is there already.
PromptAt(ms, t, p) ==
    /\ p \in 1..Len(ms) /\ Stands(ms, p) /\ t \in ToSet(ms[p].texts)
    /\ pc \in InRound => p < Len(ms)

PromptInv ==
    /\ \A t \in TextsIn(messages) \cup TextsIn(Fold) : t.kind = "prompt" => t.val \in 0..runs
    /\ Running => runs > 0
    /\ Running /\ Prompt(runs) \in TextsIn(messages) => \E p : PromptAt(Fold, Prompt(runs), p)
    /\ pc = "resolving" => /\ Its(content.texts, runs)
                           /\ Prompt(runs) \notin TextsIn(messages)

\* Every way of adding texts keeps it.
LEMMA PromptKept ==
  ASSUME IInv, IInv', log \in Seq(Record), FoldInv, FoldInv', PromptInv, PromptStep
  PROVE  PromptInv'
  <1>1. /\ runs \in Nat /\ runs' \in Nat /\ Fold \in Seq(Message)
        /\ \A t \in TextsIn(messages) \cup TextsIn(Fold) : t.kind = "prompt" => t.val \in 0..runs
        /\ pc \in InRound => RoundAt(Fold, results, todo)
    BY DEF IInv, LoopTypes, FoldInv, Folded, PromptInv
  <1>2. Record \subseteq Record
    OBVIOUS
  <1>3. /\ \A m \in Message : FoldRecords(Append(log, m)) = Append(Fold, m)
        /\ \A m, u \in Message :
              FoldRecords(log \o (<<m>> \o <<u>>)) = Append(Append(Fold, m), u)
        /\ \A r \in Result : FoldRecords(Append(log, ResultRecord(r)))
                                = AppendUserTurn(Fold, {r}, <<>>)
    BY <1>2, FoldSteps
  <1>4. /\ UserMessage \subseteq Message /\ AssistantMessage \subseteq Message
        /\ \A u \in UserMessage : u.role = "user"
    BY DEF Message, UserMessage
  <1>5. /\ Fold' = FoldRecords(log')
        /\ PromptInv' <=>
             /\ \A t \in TextsIn(messages') \cup TextsIn(Fold') : t.kind = "prompt" => t.val \in 0..runs'
             /\ Running' => runs' > 0
             /\ Running' /\ Prompt(runs') \in TextsIn(messages')
                  => \E p : /\ p \in 1..Len(Fold') /\ Stands(Fold', p)
                            /\ Prompt(runs') \in ToSet(Fold'[p].texts)
                            /\ pc' \in InRound => p < Len(Fold')
             /\ pc' = "resolving" => /\ Its(content'.texts, runs')
                                     /\ Prompt(runs') \notin TextsIn(messages')
    BY DEF Fold, PromptInv, PromptAt, Its
  <1>6. \A v : Prompt(v).kind = "prompt" /\ Prompt(v).val = v
    BY DEF Prompt
  <1>a. CASE /\ runs' = runs + 1 /\ pc' = "resolving" /\ UNCHANGED <<messages, log>>
             /\ Its(content'.texts, runs')
    <2>1. Prompt(runs') \notin TextsIn(messages)
      <3>1. runs' \notin 0..runs
        BY <1>1, <1>a
      <3> QED BY <1>1, <1>6, <3>1
    <2>2. TextsIn(messages') = TextsIn(messages) /\ TextsIn(Fold') = TextsIn(Fold)
      BY <1>a DEF Fold
    <2>3. runs' > 0 /\ 0..runs \subseteq 0..runs'
      BY <1>1, <1>a
    <2> HIDE DEF Fold
    <2> QED BY <1>1, <1>5, <1>a, <2>1, <2>2, <2>3
  <1>7. CASE /\ runs' = runs + 1 \/ (pc = "resolving" /\ runs' = runs)
             /\ pc' = "top"
             /\ \E u \in UserMessage :
                   /\ log' = Append(log, u)
                   /\ TextsIn(messages') \subseteq TextsIn(messages) \cup ToSet(u.texts)
                   /\ Its(u.texts, runs')
    <2>1. PICK u \in UserMessage :
             /\ log' = Append(log, u)
             /\ TextsIn(messages') \subseteq TextsIn(messages) \cup ToSet(u.texts)
             /\ \A t \in ToSet(u.texts) : t.kind = "prompt" => t.val = 0 \/ t.val = runs'
      BY <1>7 DEF Its
    <2>2. u \in Message /\ u.role = "user" /\ Fold' = Append(Fold, u)
      BY <1>3, <1>4, <1>5, <2>1
    <2>3. TextsIn(Fold') = TextsIn(Fold) \cup ToSet(u.texts)
      <3> HIDE DEF Fold
      <3> QED BY <1>1, <2>2, TextsAppend
    <2>4. ASSUME NEW t \in TextsIn(messages') \cup TextsIn(Fold'), t.kind = "prompt"
          PROVE  t.val \in 0..runs'
      <3>1. t \in ToSet(u.texts) \/ t \in TextsIn(messages) \cup TextsIn(Fold)
        BY <2>1, <2>3, <2>4
      <3>2. t.val = 0 \/ t.val = runs' \/ t.val \in 0..runs
        BY <1>1, <2>1, <2>4, <3>1
      <3> QED BY <1>1, <1>7, <3>2
    <2>5. Prompt(runs') \notin TextsIn(messages)
      <3>1. CASE runs' = runs + 1
        <4>1. runs' \notin 0..runs
          BY <1>1, <3>1
        <4> QED BY <1>1, <1>6, <4>1
      <3>2. CASE pc = "resolving" /\ runs' = runs
        BY <3>2 DEF PromptInv
      <3> QED BY <1>7, <3>1, <3>2
    <2>6. /\ Len(Fold') \in 1..Len(Fold') /\ Fold'[Len(Fold')] = u
      <3> HIDE DEF Fold
      <3>1. Len(Fold') = Len(Fold) + 1 /\ Fold'[Len(Fold) + 1] = u /\ Len(Fold) \in Nat
        <4>1. Len(Fold) \in Nat
          <5> HIDE DEF Message
          <5> QED BY <1>1
        <4> QED BY <1>1, <2>2, <4>1, AddedAtEnd
      <3> QED BY <3>1
    <2>7. Stands(Fold', Len(Fold'))
      BY <2>2, <2>6 DEF Stands
    <2>8. pc' \notin InRound /\ pc' # "resolving" /\ runs' > 0
      BY <1>1, <1>7 DEF InRound, PromptInv, Running
    <2> HIDE DEF Fold
    <2> QED BY <1>5, <2>1, <2>4, <2>5, <2>6, <2>7, <2>8
  <1>8. CASE /\ runs' = runs /\ (Running' => Running)
             /\ pc' = "resolving" => UNCHANGED <<pc, content, messages>>
             /\ \A t \in TextsIn(messages') : t \in TextsIn(messages)
                                              \/ (t.kind = "prompt" => t.val = 0)
             /\ \/ log' = log /\ (pc' \in InRound => pc \in InRound)
                \/ pc \in InRound /\ \E r \in Result : log' = Append(log, ResultRecord(r))
                \/ /\ pc \in Asking
                   /\ \E m \in AssistantMessage : Calm(m.texts) /\ log' = Append(log, m)
                \/ /\ pc \in Asking /\ pc' = "top"
                   /\ \E m \in AssistantMessage, u \in UserMessage :
                         /\ m.uses = {} /\ Calm(m.texts) /\ Calm(u.texts)
                         /\ log' = log \o (<<m>> \o <<u>>)
                \/ /\ pc = "gate" /\ pc' = "top"
                   /\ \E u \in UserMessage : Calm(u.texts) /\ log' = Append(log, u)
    <2>1. PICK old : old = Fold
      OBVIOUS
    <2>2. PICK new : new = Fold'
      OBVIOUS
    <2> DEFINE Calmer == \A t \in TextsIn(new) : \/ t \in TextsIn(old)
                                                 \/ t.kind = "prompt" => t.val = 0
               Stood == \A p \in 1..Len(old) :
                          Stands(old, p) /\ (pc \in InRound => p < Len(old)) =>
                             /\ p \in 1..Len(new) /\ Stands(new, p)
                             /\ new[p].texts = old[p].texts
                             /\ pc' \in InRound => p < Len(new)
    <2>3. /\ old \in Seq(Message) /\ Len(old) \in Nat
          /\ log' = log => new = old
          /\ \A m \in Message : log' = Append(log, m) => new = Append(old, m)
          /\ \A m, u \in Message : log' = log \o (<<m>> \o <<u>>)
                                      => new = Append(Append(old, m), u)
          /\ \A r \in Result : log' = Append(log, ResultRecord(r))
                                  => new = AppendUserTurn(old, {r}, <<>>)
          /\ pc \in Asking => Welcomes(old, Len(old))
          /\ pc \in InRound => RoundAt(old, results, todo)
      <3>1. old \in Seq(Message) /\ Len(old) \in Nat
        <4> HIDE DEF Message, Fold
        <4> QED BY <1>1, <2>1
      <3>2. log' = log => new = old
        BY <2>1, <2>2 DEF Fold
      <3> QED BY <1>1, <1>3, <1>5, <2>1, <2>2, <3>1, <3>2 DEF FoldInv
    <2>4. Calmer /\ Stood
      <3>1. /\ pc \in Asking \/ pc' = "top" => pc \notin InRound \/ pc' \notin InRound
            /\ pc \in Asking => pc \notin InRound
            /\ pc' = "top" => pc' \notin InRound
        BY DEF Asking, InRound
      <3>2. ASSUME NEW p \in 1..Len(old)
            PROVE  /\ p \in 1..Len(old) + 1 /\ p < Len(old) + 1
                   /\ p \in 1..Len(old) + 2
        BY <2>3
      <3>3. CASE log' = log /\ (pc' \in InRound => pc \in InRound)
        <4>1. new = old
          BY <2>3, <3>3
        <4> QED BY <3>3, <4>1
      <3>4. CASE pc \in InRound /\ \E r \in Result : log' = Append(log, ResultRecord(r))
        <4>1. PICK r \in Result : new = AppendUserTurn(old, {r}, <<>>)
          BY <2>3, <3>4
        <4>2. Calmer
          <5>1. {r} \in SUBSET Result /\ <<>> \in Seq(Text) /\ ToSet(<<>>) = {}
            BY TextTypes, TextsJoin
          <5>2. TextsIn(new) = TextsIn(old) \cup ToSet(<<>>)
            BY <2>3, <4>1, <5>1, UserTurnTexts
          <5> QED BY <5>1, <5>2
        <4>3. ASSUME NEW p \in 1..Len(old), Stands(old, p)
              PROVE  Stands(new, p) /\ new[p].texts = old[p].texts /\ Len(new) >= Len(old)
          BY <2>3, <4>1, <4>3, StandsResult
        <4>4. Len(new) \in Nat
          <5>1. new \in Seq(Message)
            BY <2>2 DEF FoldInv, Folded
          <5> HIDE DEF Message
          <5> QED BY <5>1
        <4>5. ASSUME NEW p \in 1..Len(old), Stands(old, p), p < Len(old)
              PROVE  p \in 1..Len(new) /\ p < Len(new)
          BY <2>3, <4>3, <4>4, <4>5
        <4> QED BY <3>4, <4>2, <4>3, <4>5
      <3>5. CASE /\ pc \in Asking
                 /\ \E m \in AssistantMessage : Calm(m.texts) /\ log' = Append(log, m)
        <4>1. PICK m \in AssistantMessage : Calm(m.texts) /\ new = Append(old, m)
          BY <1>4, <2>3, <3>5
        <4>2. TextsIn(new) = TextsIn(old) \cup ToSet(m.texts)
          BY <1>4, <2>3, <4>1, TextsAppend
        <4>3. ASSUME NEW p \in 1..Len(old), Stands(old, p)
              PROVE  Stands(new, p) /\ new[p].texts = old[p].texts /\ Len(new) = Len(old) + 1
          BY <2>3, <3>5, <4>1, <4>3, StandsAnswer
        <4> QED BY <3>2, <4>1, <4>2, <4>3 DEF Calm
      <3>6. CASE /\ pc \in Asking /\ pc' = "top"
                 /\ \E m \in AssistantMessage, u \in UserMessage :
                       /\ m.uses = {} /\ Calm(m.texts) /\ Calm(u.texts)
                       /\ log' = log \o (<<m>> \o <<u>>)
        <4>1. PICK m \in AssistantMessage, u \in UserMessage :
                 /\ m.uses = {} /\ Calm(m.texts) /\ Calm(u.texts)
                 /\ new = Append(Append(old, m), u)
          BY <1>4, <2>3, <3>6
        <4>2. m \in Message /\ u \in Message
          BY <1>4
        <4>3. PICK both : both = Append(old, m)
          OBVIOUS
        <4>4. both \in Seq(Message) /\ Len(both) = Len(old) + 1
          <5> HIDE DEF Message
          <5> QED BY <2>3, <4>2, <4>3
        <4>5. TextsIn(new) = (TextsIn(old) \cup ToSet(m.texts)) \cup ToSet(u.texts)
          <5>1. TextsIn(both) = TextsIn(old) \cup ToSet(m.texts)
            BY <2>3, <4>2, <4>3, TextsAppend
          <5>2. TextsIn(new) = TextsIn(both) \cup ToSet(u.texts)
            BY <4>1, <4>2, <4>3, <4>4, TextsAppend
          <5> QED BY <5>1, <5>2
        <4>6. Len(new) = Len(both) + 1
          BY <4>1, <4>2, <4>3, <4>4, AddedAtEnd
        <4>7. ASSUME NEW p \in 1..Len(old), Stands(old, p)
              PROVE  p \in 1..Len(new) /\ Stands(new, p) /\ new[p].texts = old[p].texts
          <5>1. Replied(both, p) /\ both[p] = old[p]
            BY <2>3, <3>6, <4>1, <4>3, <4>7, StandsAnswer
          <5>2. p \in 1..Len(both) /\ p \in 1..Len(new)
            BY <2>3, <4>4, <4>6
          <5>3. Replied(new, p) /\ new[p] = both[p]
            BY <4>1, <4>2, <4>3, <4>4, <5>1, <5>2, RepliedAppend
          <5> QED BY <5>1, <5>2, <5>3, RepliedStands
        <4> QED BY <3>1, <3>6, <4>1, <4>5, <4>7 DEF Calm
      <3>7. CASE /\ pc = "gate" /\ pc' = "top"
                 /\ \E u \in UserMessage : Calm(u.texts) /\ log' = Append(log, u)
        <4>1. PICK u \in UserMessage : Calm(u.texts) /\ new = Append(old, u)
          BY <1>4, <2>3, <3>7
        <4>2. TextsIn(new) = TextsIn(old) \cup ToSet(u.texts)
          BY <1>4, <2>3, <4>1, TextsAppend
        <4>3. pc \in InRound /\ RoundAt(old, results, {})
          BY <2>3, <3>7 DEF InRound, IInv
        <4>4. Len(new) = Len(old) + 1
          BY <1>4, <2>3, <4>1, AddedAtEnd
        <4>5. ASSUME NEW p \in 1..Len(old), Stands(old, p), p < Len(old)
              PROVE  p \in 1..Len(new) /\ Stands(new, p) /\ new[p].texts = old[p].texts
          <5>1. Replied(old, p)
            BY <2>3, <4>3, <4>5, StandsRound
          <5>2. Replied(new, p) /\ new[p] = old[p]
            BY <1>4, <2>3, <4>1, <5>1, RepliedAppend
          <5> QED BY <3>2, <4>4, <5>2, RepliedStands
        <4> QED BY <3>1, <3>7, <4>1, <4>2, <4>3, <4>5 DEF Calm
      <3> QED BY <1>8, <3>3, <3>4, <3>5, <3>6, <3>7
    <2>5. \A t \in TextsIn(messages') \cup TextsIn(new) : t.kind = "prompt" => t.val \in 0..runs'
      <3> TAKE t \in TextsIn(messages') \cup TextsIn(new)
      <3>1. t \in TextsIn(messages) \cup TextsIn(old) \/ (t.kind = "prompt" => t.val = 0)
        BY <1>8, <2>4
      <3> QED BY <1>1, <1>8, <2>1, <3>1
    <2>6. ASSUME Running', Prompt(runs') \in TextsIn(messages')
          PROVE  \E p : /\ p \in 1..Len(new) /\ Stands(new, p)
                        /\ Prompt(runs') \in ToSet(new[p].texts)
                        /\ pc' \in InRound => p < Len(new)
      <3>1. Running /\ runs > 0
        BY <1>8, <2>6 DEF PromptInv
      <3>2. Prompt(runs) \in TextsIn(messages)
        BY <1>1, <1>6, <1>8, <2>6, <3>1
      <3>3. PICK p : PromptAt(old, Prompt(runs), p)
        BY <2>1, <3>1, <3>2 DEF PromptInv
      <3> QED BY <1>8, <2>4, <3>3 DEF PromptAt
    <2>7. Running' => runs' > 0
      BY <1>8 DEF PromptInv
    <2>8. pc' = "resolving" => /\ Its(content'.texts, runs')
                               /\ Prompt(runs') \notin TextsIn(messages')
      BY <1>8 DEF PromptInv
    <2> QED BY <1>5, <2>2, <2>5, <2>6, <2>7, <2>8
  <1> QED BY <1>a, <1>7, <1>8 DEF PromptStep

\* Whenever a process dies while it works on a prompt, and the model never answers
\* with nothing, the prompt is in the restored history or in the draft.
THEOREM PromptSurvives ==
  ASSUME Initial = {<<>>}, ~ EmptyAnswers
  PROVE  SessionSpec => []PromptSurvivesCrash
  <1>1. SessionInit => PromptInv
    <2>1. SessionInit => /\ messages = <<>> /\ Fold = <<>> /\ ~ Running
      <3>1. FoldRecords(<<>>) = <<>>
        <4>1. <<>> \in Seq({0}) /\ 0 \in {0}
          OBVIOUS
        <4> QED BY <4>1, FoldsOn
      <3> QED BY <3>1 DEF SessionInit, Init, Running, Fold
    <2>2. TextsIn(<<>>) = {}
      BY DEF TextsIn
    <2> QED BY <2>1, <2>2 DEF PromptInv, Running
  <1>2. /\ IInv /\ LogInv /\ FoldInv /\ PromptInv /\ IInv' /\ FoldInv'
        /\ [SessionNext]_sessionVars
        => PromptInv'
    <2> SUFFICES ASSUME IInv, LogInv, FoldInv, PromptInv, IInv', FoldInv',
                        [SessionNext]_sessionVars
                 PROVE  PromptInv'
      OBVIOUS
    <2>1. CASE [Next]_vars
      BY <2>1, StepPrompts, PromptKept DEF LogInv, PromptInv
    <2>2. CASE Crash \/ Restart
      <3>1. /\ Fold' = Fold /\ runs' = runs /\ ~ Running'
            /\ messages' = <<>> \/ messages' = Restored(log)
        BY <2>2 DEF Crash, Restart, Running, Fold
      <3>2. TextsIn(<<>>) = {} /\ TextsIn(Restored(log)) \subseteq TextsIn(Fold)
        BY RestoredTells DEF TextsIn, FoldInv, Fold
      <3> QED BY <3>1, <3>2 DEF PromptInv, Running
    <2> QED BY <2>1, <2>2 DEF SessionNext, sessionVars
  <1>3. IInv /\ FoldInv /\ PromptInv => PromptSurvivesCrash
    <2> SUFFICES ASSUME IInv, FoldInv, PromptInv, Running,
                        \E i \in DOMAIN messages : Prompt(runs) \in ToSet(messages[i].texts)
                 PROVE  \/ \E i \in DOMAIN Restored(log) :
                              Prompt(runs) \in ToSet(Restored(log)[i].texts)
                        \/ Prompt(runs) \in ToSet(Draft(log))
      BY DEF PromptSurvivesCrash
    <2> DEFINE t == Prompt(runs)
               r == Restored(log)
    <2>1. t \in TextsIn(messages)
      <3>1. messages \in Seq(Message)
        BY DEF IInv, LoopTypes
      <3>2. DOMAIN messages = 1..Len(messages)
        BY <3>1, SeqDomain, Zenon
      <3> QED BY <3>2 DEF TextsIn
    <2>2. PICK p : PromptAt(Fold, t, p)
      BY <2>1 DEF PromptInv
    <2>3. t.kind = "prompt" /\ t.kind \in Human
      BY DEF Prompt, Human
    <2>4. Fold = FoldRecords(log) /\ Folded(Fold)
      BY DEF FoldInv, Fold
    <2>5. /\ p \in 1..Len(Fold) /\ Stands(Fold, p) /\ Fold[p].role = "user"
          /\ t \in ToSet(Fold[p].texts)
      BY <2>2 DEF PromptAt, Stands
    <2>6. r \in Seq(Message)
      BY <2>4, RestoredWhole DEF RestoreOf
    <2> HIDE DEF t
    <2>7. Tells(r, t) \/ t \in ToSet(Draft(log))
      <3> HIDE DEF r, Fold
      <3> QED BY <2>3, <2>4, <2>5, RestoredTells DEF r
    <2> HIDE DEF r
    <2>8. DOMAIN r = 1..Len(r)
      BY <2>6, SeqDomain, Zenon
    <2> QED BY <2>7, <2>8 DEF Tells, r, t
  <1> QED BY <1>1, <1>2, <1>3, SessionInvariance, PTL DEF SessionSpec
=============================================================================
