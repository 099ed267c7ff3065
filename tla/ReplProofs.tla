------------------------------ MODULE ReplProofs ------------------------------
(***************************************************************************)
(* What the interactive host promises for any number of fragments, queued  *)
(* prompts and restarts: types and the bound of the queue, a turn that can *)
(* be aborted, and prompts that are never dropped.                         *)
(***************************************************************************)
EXTENDS Repl, SequenceTheorems, FiniteSetTheorems, TLAPS

LEMMA BoundsAreNat == MaxTyped \in Nat /\ MaxQueued \in Nat /\ MaxRestarts \in Nat
BY ReplBounds

USE BoundsAreNat

-----------------------------------------------------------------------------
(* The text of a sequence of prompts                                        *)

LEMMA TextOfNone == TextOf(<<>>) = {}
<1>1. DOMAIN <<>> = {}
  OBVIOUS
<1> QED
  BY <1>1 DEF TextOf, ToSet

\* A fragment is in the text of a sequence when it is in one of its prompts.
LEMMA InText ==
  ASSUME NEW S, NEW items \in Seq(S), NEW f
  PROVE  f \in TextOf(items) <=> \E i \in 1..Len(items) : f \in items[i]
BY DEF TextOf, ToSet

LEMMA TextTyped ==
  ASSUME NEW F, NEW items \in Seq(SUBSET F)
  PROVE  TextOf(items) \subseteq F
<1> SUFFICES ASSUME NEW f \in TextOf(items) PROVE f \in F
  OBVIOUS
<1>1. PICK i \in 1..Len(items) : f \in items[i]
  BY InText, Zenon
<1>2. items[i] \in SUBSET F
  BY ElementOfSeq, Zenon
<1> QED
  BY <1>1, <1>2

LEMMA TextOfAppend ==
  ASSUME NEW S, NEW items \in Seq(S), NEW text \in S
  PROVE  TextOf(Append(items, text)) = TextOf(items) \cup text
<1>1. /\ Append(items, text) \in Seq(S) /\ Len(Append(items, text)) = Len(items) + 1
      /\ \A i \in 1..Len(items) : Append(items, text)[i] = items[i]
      /\ Append(items, text)[Len(items) + 1] = text
  OBVIOUS
<1>2. ASSUME NEW f PROVE f \in TextOf(Append(items, text)) <=> f \in TextOf(items) \cup text
  <2>1. Len(items) \in Nat
    OBVIOUS
  <2>2. f \in TextOf(Append(items, text))
          <=> \E i \in 1..Len(items) + 1 : f \in Append(items, text)[i]
    BY <1>1, InText
  <2>3. f \in TextOf(items) <=> \E i \in 1..Len(items) : f \in items[i]
    BY InText
  <2> QED
    BY <1>1, <2>1, <2>2, <2>3
<1> QED
  BY <1>2

\* Taking the first prompt leaves the text of the others.
LEMMA TextOfTail ==
  ASSUME NEW S, NEW items \in Seq(S), items # <<>>
  PROVE  /\ Head(items) \in S /\ Tail(items) \in Seq(S) /\ Len(Tail(items)) = Len(items) - 1
         /\ TextOf(items) \subseteq Head(items) \cup TextOf(Tail(items))
<1>1. /\ Head(items) \in S /\ Tail(items) \in Seq(S) /\ Len(Tail(items)) = Len(items) - 1
      /\ \A i \in 1..Len(items) - 1 : Tail(items)[i] = items[i + 1]
      /\ Head(items) = items[1] /\ Len(items) \in Nat
  OBVIOUS
<1>2. ASSUME NEW f \in TextOf(items), f \notin Head(items) PROVE f \in TextOf(Tail(items))
  <2>1. PICK i \in 1..Len(items) : f \in items[i]
    BY InText
  <2>2. i - 1 \in 1..Len(items) - 1 /\ Tail(items)[i - 1] = items[i]
    BY <1>1, <1>2, <2>1
  <2> QED
    BY <1>1, <2>1, <2>2, InText
<1> QED
  BY <1>1, <1>2

\* Removing one prompt leaves the text of the others.
LEMMA TextOfRemoveAt ==
  ASSUME NEW S, NEW items \in Seq(S), NEW pos \in 1..Len(items)
  PROVE  /\ items[pos] \in S
         /\ RemoveAt(items, pos) \in Seq(S)
         /\ Len(RemoveAt(items, pos)) = Len(items) - 1
         /\ TextOf(items) \subseteq items[pos] \cup TextOf(RemoveAt(items, pos))
<1> DEFINE before == SubSeq(items, 1, pos - 1)
           after == SubSeq(items, pos + 1, Len(items))
<1>1. Len(items) \in Nat /\ \A i \in 1..Len(items) : items[i] \in S
  OBVIOUS
<1>2. /\ before \in Seq(S) /\ Len(before) = pos - 1
      /\ \A i \in 1..pos - 1 : before[i] = items[i]
  BY <1>1, SubSeqProperties
<1>3. /\ after \in Seq(S) /\ Len(after) = Len(items) - pos
      /\ \A i \in 1..Len(items) - pos : after[i] = items[pos + i]
  BY <1>1, SubSeqProperties
<1> HIDE DEF before, after
<1>4. /\ before \o after \in Seq(S) /\ Len(before \o after) = Len(items) - 1
      /\ \A i \in 1..pos - 1 : (before \o after)[i] = items[i]
      /\ \A i \in pos + 1..Len(items) : (before \o after)[i - 1] = items[i]
  <2>1. /\ before \o after \in Seq(S) /\ Len(before \o after) = Len(before) + Len(after)
        /\ \A i \in 1..Len(before) + Len(after) :
              (before \o after)[i] = IF i <= Len(before) THEN before[i] ELSE after[i - Len(before)]
    BY <1>2, <1>3, ConcatProperties
  <2>2. pos \in 1..Len(items) /\ Len(before) + Len(after) = Len(items) - 1
    BY <1>1, <1>2, <1>3
  <2>3. \A i \in 1..pos - 1 : (before \o after)[i] = items[i]
    BY <1>1, <1>2, <2>1, <2>2
  <2>4. ASSUME NEW i \in pos + 1..Len(items) PROVE (before \o after)[i - 1] = items[i]
    <3>1. i - 1 \in 1..Len(items) - 1 /\ i - pos \in 1..Len(items) - pos /\ ~(i - 1 <= pos - 1)
      BY <1>1
    <3>2. (before \o after)[i - 1] = after[(i - 1) - (pos - 1)]
      BY <1>2, <2>1, <2>2, <3>1
    <3>3. (i - 1) - (pos - 1) = i - pos /\ pos + (i - pos) = i
      BY <1>1
    <3> QED
      BY <1>3, <3>1, <3>2, <3>3
  <2> QED
    BY <2>1, <2>2, <2>3, <2>4
<1>5. RemoveAt(items, pos) = before \o after
  BY DEF RemoveAt, before, after
<1>6. ASSUME NEW f \in TextOf(items), f \notin items[pos] PROVE f \in TextOf(before \o after)
  <2>1. PICK i \in 1..Len(items) : f \in items[i]
    BY InText
  <2>2. CASE i < pos
    <3>1. i \in 1..Len(items) - 1 /\ (before \o after)[i] = items[i]
      BY <1>1, <1>4, <2>2
    <3> QED
      BY <1>4, <2>1, <3>1, InText
  <2>3. CASE i > pos
    <3>1. i - 1 \in 1..Len(items) - 1 /\ (before \o after)[i - 1] = items[i]
      BY <1>1, <1>4, <2>3
    <3> QED
      BY <1>4, <2>1, <3>1, InText
  <2> QED
    BY <1>1, <1>6, <2>1, <2>2, <2>3
<1> QED
  BY <1>1, <1>4, <1>5, <1>6

\* A restart's queue has the saved text, in no more prompts.  The rank of a kept
\* prompt among the kept ones is an injection into 1..n, so a surjection on it.
LEMMA TextOfWithText ==
  ASSUME NEW S, NEW items \in Seq(S)
  PROVE  /\ WithText(items) \in Seq(S)
         /\ Len(WithText(items)) <= Len(items)
         /\ TextOf(WithText(items)) = TextOf(items)
<1> DEFINE kept == {i \in DOMAIN items : items[i] # {}}
           upTo(i) == {j \in kept : j <= i}
           n == Cardinality(kept)
           rank == [i \in kept |-> Cardinality(upTo(i))]
<1>1. Len(items) \in Nat /\ DOMAIN items = 1..Len(items) /\ \A i \in 1..Len(items) : items[i] \in S
  OBVIOUS
<1>2. kept \subseteq 1..Len(items)
  BY <1>1
<1>3. IsFiniteSet(kept) /\ n \in Nat /\ n <= Len(items)
  <2>1. IsFiniteSet(1..Len(items)) /\ Cardinality(1..Len(items)) = Len(items)
    <3>1. 1 \in Int /\ Len(items) \in Int
      BY <1>1
    <3>2. /\ IsFiniteSet(1..Len(items))
          /\ Cardinality(1..Len(items)) = IF 1 > Len(items) THEN 0 ELSE Len(items) - 1 + 1
      BY <3>1, FS_Interval, Zenon
    <3> QED
      BY <1>1, <3>2
  <2> HIDE DEF kept
  <2>2. IsFiniteSet(kept) /\ Cardinality(kept) <= Len(items)
    BY <1>2, <2>1, FS_Subset
  <2> QED
    BY <2>2, FS_CardinalityType
<1>4. \A i \in kept : upTo(i) \in SUBSET kept /\ i \in upTo(i)
  BY <1>1
<1>5. \A i, j \in kept : i < j => upTo(i) \in SUBSET upTo(j) /\ upTo(i) # upTo(j)
  BY <1>1
<1> HIDE DEF kept
<1>6. \A i \in kept : IsFiniteSet(upTo(i)) /\ Cardinality(upTo(i)) \in 1..n
  <2> SUFFICES ASSUME NEW i \in kept PROVE IsFiniteSet(upTo(i)) /\ Cardinality(upTo(i)) \in 1..n
    OBVIOUS
  <2>1. upTo(i) \in SUBSET kept /\ upTo(i) # {}
    BY <1>4
  <2> HIDE DEF upTo
  <2>2. IsFiniteSet(upTo(i)) /\ Cardinality(upTo(i)) <= n
    BY <1>3, <2>1, FS_Subset
  <2>3. Cardinality(upTo(i)) \in Nat /\ Cardinality(upTo(i)) # 0
    BY <2>1, <2>2, FS_CardinalityType, FS_EmptySet
  <2> QED
    BY <1>3, <2>2, <2>3
<1>7. \A i, j \in kept : i < j => Cardinality(upTo(i)) # Cardinality(upTo(j))
  <2> SUFFICES ASSUME NEW i \in kept, NEW j \in kept, i < j
               PROVE  Cardinality(upTo(i)) # Cardinality(upTo(j))
    OBVIOUS
  <2>1. upTo(i) \in SUBSET upTo(j) /\ upTo(i) # upTo(j) /\ IsFiniteSet(upTo(j))
    BY <1>5, <1>6
  <2> HIDE DEF upTo
  <2> QED
    BY <2>1, FS_Subset
<1>8. \A i, j \in kept : Cardinality(upTo(i)) = Cardinality(upTo(j)) => i = j
  BY <1>1, <1>2, <1>7
<1>9. rank \in Surjection(kept, 1..n)
  <2>1. rank \in Injection(kept, 1..n)
    BY <1>6, <1>8 DEF Injection, IsInjective
  <2>2. IsFiniteSet(1..n) /\ Cardinality(1..n) = n
    BY <1>3, FS_Interval
  <2> HIDE DEF rank
  <2> QED
    BY <2>1, <2>2, FS_Injection
<1>10. \A k \in 1..n : \E i \in kept : Cardinality(upTo(i)) = k
  BY <1>9 DEF Surjection
<1> DEFINE nth(k) == CHOOSE i \in kept : Cardinality(upTo(i)) = k
<1>11. \A k \in 1..n : nth(k) \in kept
  BY <1>10
<1>12. \A i \in kept : nth(Cardinality(upTo(i))) = i
  BY <1>8
<1>13. WithText(items) = [k \in 1..n |-> items[nth(k)]]
  BY DEF WithText, kept
<1> HIDE DEF nth
<1>14. \A k \in 1..n : items[nth(k)] \in S
  BY <1>1, <1>2, <1>11
<1>15. /\ WithText(items) \in Seq(S) /\ Len(WithText(items)) = n
       /\ \A k \in 1..n : WithText(items)[k] = items[nth(k)]
  <2>1. WithText(items) \in [1..n -> S]
    BY <1>13, <1>14
  <2> QED
    BY <1>3, <1>13, <2>1
<1>16. ASSUME NEW f PROVE f \in TextOf(WithText(items)) <=> f \in TextOf(items)
  <2>1. ASSUME f \in TextOf(WithText(items)) PROVE f \in TextOf(items)
    <3>1. PICK k \in 1..n : f \in items[nth(k)]
      BY <1>15, <2>1, InText
    <3> QED
      BY <1>2, <1>11, <3>1, InText
  <2>2. ASSUME f \in TextOf(items) PROVE f \in TextOf(WithText(items))
    <3>1. PICK i \in 1..Len(items) : f \in items[i]
      BY <2>2, InText
    <3>2. i \in kept
      BY <1>1, <3>1 DEF kept
    <3>3. Cardinality(upTo(i)) \in 1..n /\ WithText(items)[Cardinality(upTo(i))] = items[i]
      BY <1>6, <1>12, <1>15, <3>2
    <3> HIDE DEF upTo
    <3> QED
      BY <1>15, <3>1, <3>3, InText
  <2> QED
    BY <2>1, <2>2
<1> QED
  BY <1>3, <1>15, <1>16
-----------------------------------------------------------------------------
(* The inductive invariant                                                  *)

KeyTypes == fsm \in FsmStates /\ quick \in BOOLEAN /\ turn \in Turns

QueueTypes == queue \in Seq(SUBSET Fragments) /\ saved \in Seq(SUBSET Fragments)

\* The queue is never longer than its file, and has room for the prompt in hand.
InHand == at \in {"starting", "preparing", "sent", "rounds", "settling", "recovering"}

QueueFits ==
    /\ Len(queue) <= Len(saved) /\ Len(saved) <= MaxQueued + 1
    /\ InHand => Len(queue) <= MaxQueued
    /\ nav \in 0..MaxQueued + 1

\* While the process lives the file has the text of the queue.
FileIsQueue == at # "down" => TextOf(saved) = TextOf(queue)

HostTypes ==
    /\ at \in Places /\ mode \in {"delivered", "pending"}
    /\ typed \in 0..MaxTyped /\ restarts \in 0..MaxRestarts

TextTypes ==
    /\ inflight \in SUBSET Fragments /\ buffer \in SUBSET Fragments
    /\ logged \in SUBSET Fragments /\ submitted \in SUBSET Fragments
    /\ released \in SUBSET Fragments /\ handed \in SUBSET Fragments

\* The loop drops the prompt in hand only where it holds none, or a logged one.
PromptInHand ==
    /\ at \in {"loop", "waiting", "down"} => inflight = {}
    /\ at \in {"sent", "rounds", "settling", "recovering"} => inflight \subseteq logged

IInv ==
    /\ KeyTypes /\ QueueTypes /\ HostTypes /\ TextTypes
    /\ QueueFits /\ FileIsQueue /\ PromptInHand
    /\ TurnIsAbortable /\ NothingDropped

LEMMA TypesHold == IInv => ReplTypeOK
BY DEF IInv, ReplTypeOK, KeyTypes, QueueTypes, HostTypes, TextTypes, QueueFits

LEMMA InitInv == Init => IInv
<1> SUFFICES ASSUME Init PROVE IInv
  OBVIOUS
<1>1. KeyTypes /\ TurnIsAbortable
  BY DEF Init, KeyTypes, TurnIsAbortable, FsmStates, Turns
<1>5. HostTypes
  BY DEF Init, HostTypes, Places
<1>3. TextTypes /\ PromptInHand
  BY DEF Init, TextTypes, PromptInHand
<1>4. NothingDropped
  BY DEF Init, NothingDropped
<1>2. QueueTypes /\ QueueFits /\ FileIsQueue
  BY DEF Init, QueueTypes, QueueFits, FileIsQueue, InHand
<1> QED
  BY <1>1, <1>2, <1>3, <1>4, <1>5 DEF IInv

-----------------------------------------------------------------------------
(* The keys                                                                 *)

\* The machine leaves its working state during a turn only by aborting it.
LEMMA StepTyped ==
  ASSUME NEW s \in FsmStates,
         NEW input \in {"ctrlC", "esc", "printable", "turnStart", "turnEnd", "tick"}
  PROVE  /\ Step(s, input) \in FsmStates
         /\ s = "quitting" => Step(s, input) = "quitting"
         /\ s = "working" /\ input \in {"printable", "tick"} => Step(s, input) = "working"
         /\ input = "turnStart" => Step(s, input) \in {"working", "quitting"}
BY DEF Step, Table, FsmStates

LEMMA FeedKeeps ==
  ASSUME KeyTypes, TurnIsAbortable, NEW input \in {"ctrlC", "esc", "printable", "tick"},
         Feed(input), quick' \in BOOLEAN
  PROVE  KeyTypes' /\ TurnIsAbortable'
<1>1. fsm' \in FsmStates
  BY StepTyped DEF KeyTypes, Feed
<1>2. turn' \in Turns
  BY DEF KeyTypes, Turns, Feed, RequestAbort
<1>3. turn' = "on" => turn = "on" /\ ~AbortsTurn(fsm, input)
  BY DEF Feed, RequestAbort
<1>4. turn' = "on" => fsm' \in {"working", "quitting"}
  BY <1>3, StepTyped DEF TurnIsAbortable, AbortsTurn, Feed, KeyTypes
<1> QED
  BY <1>1, <1>2, <1>4 DEF KeyTypes, TurnIsAbortable

LEMMA KeysKept ==
  ASSUME KeyTypes, TurnIsAbortable, [Next]_vars
  PROVE  KeyTypes' /\ TurnIsAbortable'
<1>1. CASE UNCHANGED keyVars
  BY <1>1 DEF KeyTypes, TurnIsAbortable, keyVars
<1>2. CASE Engage
  BY <1>2, FeedKeeps DEF Engage
<1>3. CASE PressEsc
  BY <1>3, FeedKeeps DEF PressEsc
<1>4. CASE PressCtrlC
  <2>1. CASE quick
    BY <1>4, <2>1 DEF PressCtrlC, KeyTypes, TurnIsAbortable, FsmStates
  <2>2. CASE ~quick
    BY <1>4, <2>2, FeedKeeps DEF PressCtrlC
  <2> QED
    BY <2>1, <2>2
<1>5. CASE HatchCools
  BY <1>5 DEF HatchCools, KeyTypes, TurnIsAbortable
<1>6. CASE ArmedExpires
  BY <1>6, FeedKeeps DEF ArmedExpires, KeyTypes
<1>7. CASE TurnBegins
  BY <1>7, StepTyped DEF TurnBegins, KeyTypes, TurnIsAbortable, Turns
<1>8. CASE TurnSettles
  BY <1>8, StepTyped DEF TurnSettles, KeyTypes, TurnIsAbortable, Turns
<1>9. CASE KeysReset
  BY <1>9 DEF KeysReset, KeyTypes, TurnIsAbortable, FsmStates, Turns
<1>10. CASE InterruptForMode
  <2>1. turn' \in Turns /\ turn' # "on"
    BY <1>10 DEF InterruptForMode, RequestAbort, KeyTypes, Turns
  <2> QED
    BY <1>10, <2>1, StepTyped DEF InterruptForMode, KeyTypes, TurnIsAbortable
<1>11. CASE Escape
  <2>1. CASE nav > 0
    BY <1>11, <2>1 DEF Escape, KeyTypes, TurnIsAbortable
  <2> QED
    BY <1>3, <1>11, <2>1 DEF Escape
<1>12. CASE Input
  BY <1>1, <1>2, <1>4, <1>10, <1>11, <1>12
     DEF Input, Type, Submit, Continue, Inject, ArrowUp, OverlayTakes, OverlayDrops,
         OverlayTakesAll, CtrlC, ToggleMode, Rewind
<1>13. CASE Host
  BY <1>1, <1>7, <1>8, <1>13
     DEF Host, Await, Take, TurnHalted, TurnStarts, PromptLogged, HandBack, Requeue, RunEnds
<1> QED
  BY <1>1, <1>5, <1>6, <1>9, <1>12, <1>13
     DEF Next, Clock, Boundary, Exit, Restart, vars
-----------------------------------------------------------------------------
(* The queue and its file                                                   *)

\* What a change of the queue leaves right.
QueueInv == QueueTypes /\ QueueFits /\ FileIsQueue

LEMMA EnqueueKeeps ==
  ASSUME QueueInv, HostTypes, NEW text \in SUBSET Fragments, Len(queue) < MaxQueued,
         SetQueue(Append(queue, text)), nav' = nav, at # "down"
  PROVE  QueueInv' /\ TextOf(saved') = TextOf(saved) \cup text
<1>1. /\ Append(queue, text) \in Seq(SUBSET Fragments)
      /\ Len(Append(queue, text)) = Len(queue) + 1 /\ Len(queue) \in Nat
  BY DEF QueueInv, QueueTypes
<1>2. TextOf(Append(queue, text)) = TextOf(saved) \cup text
  BY TextOfAppend DEF QueueInv, QueueTypes, FileIsQueue
<1> QED
  BY <1>1, <1>2 DEF QueueInv, QueueTypes, QueueFits, FileIsQueue, SetQueue

LEMMA EmptyKeeps ==
  ASSUME QueueInv, SetQueue(<<>>), nav' \in 0..MaxQueued + 1
  PROVE  QueueInv'
<1>1. <<>> \in Seq(SUBSET Fragments) /\ Len(<<>>) = 0
  OBVIOUS
<1> QED
  BY <1>1 DEF QueueInv, QueueTypes, QueueFits, FileIsQueue, SetQueue

LEMMA RemoveKeeps ==
  ASSUME QueueInv, NEW i \in 1..Len(queue), SetQueue(RemoveAt(queue, i)), at # "down",
         InHand' => InHand, nav' \in 0..MaxQueued + 1
  PROVE  /\ QueueInv' /\ queue[i] \in SUBSET Fragments
         /\ TextOf(saved) \subseteq queue[i] \cup TextOf(saved')
<1>1. /\ queue[i] \in SUBSET Fragments
      /\ RemoveAt(queue, i) \in Seq(SUBSET Fragments)
      /\ Len(RemoveAt(queue, i)) = Len(queue) - 1 /\ Len(queue) \in Nat
      /\ TextOf(queue) \subseteq queue[i] \cup TextOf(RemoveAt(queue, i))
  BY TextOfRemoveAt DEF QueueInv, QueueTypes
<1> QED
  BY <1>1 DEF QueueInv, QueueTypes, QueueFits, FileIsQueue, SetQueue

\* The overlay's selection is one of the queue's prompts.
LEMMA SelectedTyped ==
  ASSUME QueueInv, nav > 0, queue # <<>>
  PROVE  Selected \in 1..Len(queue)
<1>1. Len(queue) \in Nat /\ Len(queue) # 0
  BY DEF QueueInv, QueueTypes
<1> QED
  BY <1>1 DEF Selected, QueueInv, QueueFits
-----------------------------------------------------------------------------
(* The prompts                                                              *)

\* The invariant without the keys.
HostInv == QueueInv /\ HostTypes /\ TextTypes /\ PromptInHand /\ NothingDropped

\* Where a prompt in hand stays where it is.
LEMMA PlaceUnchanged ==
  ASSUME HostInv, at' = at \/ (at = "waiting" /\ at' = "loop"), inflight' = inflight,
         logged' = logged, typed' \in 0..MaxTyped, mode' \in {"delivered", "pending"},
         restarts' = restarts
  PROVE  HostTypes' /\ PromptInHand' /\ (InHand' <=> InHand)
BY DEF HostInv, HostTypes, PromptInHand, InHand, Places

LEMMA EnqueueHost ==
  ASSUME HostInv, at # "down", NEW text \in SUBSET Fragments, Enqueue(text),
         inflight' = inflight, logged' = logged, mode' = mode, restarts' = restarts,
         typed' \in 0..MaxTyped, buffer' \in SUBSET Fragments
  PROVE  HostInv'
<1>1. QueueInv' /\ TextOf(saved') = TextOf(saved) \cup text
  BY EnqueueKeeps DEF HostInv, Enqueue
<1>2. HostTypes' /\ PromptInHand'
  BY PlaceUnchanged DEF HostInv, HostTypes, Enqueue, Wake
<1>3. TextTypes'
  BY DEF HostInv, TextTypes, Enqueue
<1>4. NothingDropped'
  BY <1>1 DEF HostInv, NothingDropped, Enqueue
<1> QED
  BY <1>1, <1>2, <1>3, <1>4 DEF HostInv

\* A prompt leaves the queue for good only as released.
LEMMA ReleaseHost ==
  ASSUME HostInv, QueueInv', NEW text \in SUBSET Fragments,
         TextOf(saved) \subseteq text \cup TextOf(saved'), released' = released \cup text,
         UNCHANGED <<at, inflight, logged, mode, typed, submitted, handed, restarts>>,
         buffer' \in SUBSET Fragments
  PROVE  HostInv'
<1>1. HostTypes' /\ PromptInHand'
  BY PlaceUnchanged DEF HostInv, HostTypes
<1>2. TextTypes'
  BY DEF HostInv, TextTypes
<1>3. NothingDropped'
  BY DEF HostInv, NothingDropped
<1> QED
  BY <1>1, <1>2, <1>3 DEF HostInv

\* What touches neither queue nor prompt in hand.
LEMMA QuietHost ==
  ASSUME HostInv, UNCHANGED <<at, queue, saved, inflight, logged, ghosts, restarts>>,
         nav' \in 0..MaxQueued + 1, typed' \in 0..MaxTyped,
         mode' \in {"delivered", "pending"}, buffer' \in SUBSET Fragments
  PROVE  HostInv'
<1>1. HostTypes' /\ PromptInHand' /\ (InHand' <=> InHand)
  BY PlaceUnchanged
<1>2. QueueInv'
  BY <1>1 DEF HostInv, QueueInv, QueueTypes, QueueFits, FileIsQueue
<1>3. TextTypes'
  BY DEF HostInv, TextTypes, ghosts
<1>4. NothingDropped'
  BY DEF HostInv, NothingDropped, ghosts
<1> QED
  BY <1>1, <1>2, <1>3, <1>4 DEF HostInv

\* A prompt that goes back to the editor.
LEMMA DequeueHost ==
  ASSUME HostInv, at # "down", NEW i \in 1..Len(queue), Dequeue(i),
         UNCHANGED <<at, inflight, logged, mode, typed, restarts>>
  PROVE  HostInv'
<1>1. SetQueue(RemoveAt(queue, i)) /\ nav' = 0 /\ InHand' = InHand
  BY DEF Dequeue, InHand
<1>2. /\ QueueInv' /\ queue[i] \in SUBSET Fragments
      /\ TextOf(saved) \subseteq queue[i] \cup TextOf(saved')
  BY <1>1, RemoveKeeps DEF HostInv
<1> QED
  BY <1>2, ReleaseHost DEF Dequeue

\* All that is queued goes at once.
LEMMA EmptyHost ==
  ASSUME HostInv, at # "down", SetQueue(<<>>), nav' = 0,
         released' = released \cup TextOf(queue), buffer' \in SUBSET Fragments,
         UNCHANGED <<at, inflight, logged, mode, typed, submitted, handed, restarts>>
  PROVE  HostInv'
<1>1. QueueInv'
  BY EmptyKeeps DEF HostInv
<1>2. TextOf(queue) \in SUBSET Fragments /\ TextOf(saved) = TextOf(queue)
  BY TextTyped DEF HostInv, QueueInv, QueueTypes, FileIsQueue
<1> QED
  BY <1>1, <1>2, ReleaseHost

LEMMA InputKeeps == ASSUME HostInv, Input PROVE HostInv'
<1>0. /\ Len(queue) \in Nat /\ Len(queue) <= MaxQueued + 1 /\ nav \in 0..MaxQueued + 1
      /\ buffer \in SUBSET Fragments /\ typed \in 0..MaxTyped
      /\ mode \in {"delivered", "pending"}
  BY DEF HostInv, QueueInv, QueueTypes, QueueFits, TextTypes, HostTypes
<1>1. CASE Type
  <2>1. CASE nav = 0 /\ typed < MaxTyped
    <3>1. typed + 1 \in 0..MaxTyped /\ typed + 1 \in Fragments
      BY <1>0, <2>1 DEF Fragments
    <3>2. typed' = typed + 1 /\ buffer' = buffer \cup {typed + 1}
      BY <1>1, <2>1 DEF Type
    <3>3. typed' \in 0..MaxTyped /\ buffer' \in SUBSET Fragments
      BY <1>0, <3>1, <3>2
    <3> QED
      BY <1>0, <1>1, <3>3, QuietHost DEF Type, queueVars
  <2>2. CASE ~(nav = 0 /\ typed < MaxTyped)
    BY <1>0, <1>1, <2>2, QuietHost DEF Type, queueVars
  <2> QED
    BY <2>1, <2>2
<1>2. CASE Submit
  BY <1>0, <1>2, EnqueueHost DEF Submit, Alive
<1>3. CASE Continue
  BY <1>0, <1>3, EnqueueHost DEF Continue, Alive
<1>4. CASE Inject
  <2>1. {typed + 1} \in SUBSET Fragments /\ typed' \in 0..MaxTyped
    BY <1>0, <1>4 DEF Inject, Fragments
  <2> QED
    BY <1>0, <1>4, <2>1, EnqueueHost DEF Inject, Alive
<1>5. CASE ArrowUp
  <2>1. CASE Len(queue) = 1 /\ Dequeue(1)
    BY <1>5, <2>1, DequeueHost DEF ArrowUp, Alive
  <2>2. CASE /\ UNCHANGED <<queue, saved, buffer, ghosts>>
             /\ nav' = Bottom \/ (nav > 1 /\ nav' = nav - 1)
    <3>1. nav' \in 0..MaxQueued + 1
      BY <1>0, <2>2 DEF Bottom
    <3> QED
      BY <1>0, <1>5, <2>2, <3>1, QuietHost DEF ArrowUp
  <2> QED
    BY <1>5, <2>1, <2>2 DEF ArrowUp
<1>6. CASE OverlayTakes
  <2>1. CASE queue # <<>>
    <3>1. Selected \in 1..Len(queue) /\ Dequeue(Selected)
      BY <1>6, <2>1, SelectedTyped DEF OverlayTakes, HostInv
    <3> QED
      BY <1>6, <3>1, DequeueHost DEF OverlayTakes, Alive
  <2>2. CASE queue = <<>>
    <3>1. nav' \in 0..MaxQueued + 1 /\ buffer' \in SUBSET Fragments
      BY <1>6, <2>2 DEF OverlayTakes
    <3> QED
      BY <1>0, <1>6, <2>2, <3>1, QuietHost DEF OverlayTakes
  <2> QED
    BY <2>1, <2>2
<1>7. CASE OverlayDrops
  <2>1. Selected \in 1..Len(queue)
    BY <1>7, SelectedTyped DEF OverlayDrops, HostInv
  <2>2. nav' \in 0..MaxQueued + 1 /\ InHand' = InHand
    BY <1>0, <1>7, <2>1 DEF OverlayDrops, InHand
  <2>3. /\ QueueInv' /\ queue[Selected] \in SUBSET Fragments
        /\ TextOf(saved) \subseteq queue[Selected] \cup TextOf(saved')
    BY <1>7, <2>1, <2>2, RemoveKeeps DEF OverlayDrops, Alive, HostInv
  <2> QED
    BY <1>0, <1>7, <2>3, ReleaseHost DEF OverlayDrops
<1>8. CASE OverlayTakesAll
  <2>1. buffer' \in SUBSET Fragments
    BY <1>8, TextTyped DEF OverlayTakesAll, HostInv, QueueInv, QueueTypes
  <2> QED
    BY <1>8, <2>1, EmptyHost DEF OverlayTakesAll, Alive
<1>9. CASE Escape
  <2>1. nav' \in 0..MaxQueued + 1
    BY <1>0, <1>9 DEF Escape
  <2> QED
    BY <1>0, <1>9, <2>1, QuietHost DEF Escape
<1>10. CASE CtrlC
  BY <1>0, <1>10, QuietHost DEF CtrlC, queueVars
<1>11. CASE ToggleMode
  BY <1>0, <1>11, QuietHost DEF ToggleMode, queueVars
<1>12. CASE InterruptForMode
  <2>1. QueueInv' /\ TextOf(saved') = TextOf(saved) \cup {}
    BY <1>12, EnqueueKeeps DEF InterruptForMode, Alive, HostInv
  <2>2. HostTypes' /\ PromptInHand'
    BY <1>0, <1>12, PlaceUnchanged DEF InterruptForMode
  <2>3. TextTypes' /\ NothingDropped'
    BY <1>12, <2>1 DEF InterruptForMode, HostInv, TextTypes, NothingDropped, ghosts
  <2> QED
    BY <2>1, <2>2, <2>3 DEF HostInv
<1>13. CASE Rewind
  BY <1>0, <1>13, EmptyHost DEF Rewind, Alive
<1> QED
  BY <1>1, <1>2, <1>3, <1>4, <1>5, <1>6, <1>7, <1>8, <1>9, <1>10, <1>11, <1>12, <1>13 DEF Input
LEMMA HostKeeps == ASSUME HostInv, Host PROVE HostInv'
<1>0. /\ Len(queue) \in Nat /\ nav \in 0..MaxQueued + 1 /\ queue \in Seq(SUBSET Fragments)
      /\ saved \in Seq(SUBSET Fragments) /\ QueueInv
  BY DEF HostInv, QueueInv, QueueTypes, QueueFits
<1>1. CASE Await
  <2>1. HostTypes' /\ PromptInHand' /\ TextTypes' /\ NothingDropped'
    BY <1>1 DEF Await, HostInv, HostTypes, Places, PromptInHand, TextTypes, NothingDropped,
                queueVars, ghosts
  <2>2. QueueInv'
    BY <1>0, <1>1 DEF Await, QueueInv, QueueTypes, QueueFits, InHand, FileIsQueue, queueVars
  <2> QED
    BY <2>1, <2>2 DEF HostInv
<1>2. CASE Take
  <2>1. /\ Head(queue) \in SUBSET Fragments /\ Tail(queue) \in Seq(SUBSET Fragments)
        /\ Len(Tail(queue)) = Len(queue) - 1
        /\ TextOf(queue) \subseteq Head(queue) \cup TextOf(Tail(queue))
    BY <1>0, <1>2, TextOfTail DEF Take
  <2>2. QueueInv'
    BY <1>0, <1>2, <2>1 DEF Take, SetQueue, QueueInv, QueueTypes, QueueFits, FileIsQueue
  <2>3. inflight = {} /\ TextOf(saved) = TextOf(queue)
    BY <1>2 DEF Take, HostInv, PromptInHand, QueueInv, FileIsQueue
  <2>4. HostTypes' /\ PromptInHand' /\ TextTypes'
    BY <1>2, <2>1 DEF Take, HostInv, HostTypes, Places, PromptInHand, TextTypes, ghosts
  <2>5. NothingDropped'
    BY <1>2, <2>1, <2>3 DEF Take, SetQueue, HostInv, NothingDropped, ghosts
  <2> QED
    BY <2>2, <2>4, <2>5 DEF HostInv
<1>3. CASE TurnHalted
  <2>1. QueueInv'
    BY <1>0, <1>3 DEF TurnHalted, QueueInv, QueueTypes, QueueFits, InHand, FileIsQueue, queueVars
  <2>2. HostTypes' /\ PromptInHand' /\ TextTypes'
    BY <1>3 DEF TurnHalted, HostInv, HostTypes, Places, PromptInHand, TextTypes
  <2>3. NothingDropped'
    BY <1>3 DEF TurnHalted, HostInv, NothingDropped, queueVars
  <2> QED
    BY <2>1, <2>2, <2>3 DEF HostInv
<1>4. CASE TurnStarts
  <2>1. nav' \in 0..MaxQueued + 1
    BY <1>0, <1>4 DEF TurnStarts, QueueInv, QueueFits
  <2>2. QueueInv'
    BY <1>0, <1>4, <2>1 DEF TurnStarts, QueueInv, QueueTypes, QueueFits, InHand, FileIsQueue
  <2>3. HostTypes' /\ PromptInHand' /\ TextTypes' /\ NothingDropped'
    BY <1>4 DEF TurnStarts, HostInv, HostTypes, Places, PromptInHand, TextTypes, NothingDropped,
                ghosts
  <2> QED
    BY <2>2, <2>3 DEF HostInv
<1>5. CASE PromptLogged
  <2>1. QueueInv'
    BY <1>0, <1>5 DEF PromptLogged, QueueInv, QueueTypes, QueueFits, InHand, FileIsQueue, queueVars
  <2>2. HostTypes' /\ PromptInHand' /\ TextTypes'
    BY <1>5 DEF PromptLogged, HostInv, HostTypes, Places, PromptInHand, TextTypes, ghosts
  <2>3. NothingDropped'
    BY <1>5 DEF PromptLogged, HostInv, NothingDropped, queueVars, ghosts
  <2> QED
    BY <2>1, <2>2, <2>3 DEF HostInv
<1>6. CASE HandBack
  <2>1. QueueInv'
    BY <1>0, <1>6, EmptyKeeps DEF HandBack
  <2>2. TextOf(queue) \in SUBSET Fragments /\ TextOf(saved) = TextOf(queue)
    BY <1>0, <1>6, TextTyped DEF HandBack, QueueInv, FileIsQueue
  <2>3. HostTypes' /\ PromptInHand' /\ TextTypes'
    BY <1>6, <2>2 DEF HandBack, HostInv, HostTypes, Places, PromptInHand, TextTypes
  <2>4. NothingDropped'
    BY <1>6, <2>2 DEF HandBack, HostInv, NothingDropped
  <2> QED
    BY <2>1, <2>3, <2>4 DEF HostInv
<1>7. CASE Requeue
  <2>1. inflight \subseteq logged /\ inflight \in SUBSET Fragments /\ TextOf(saved) = TextOf(queue)
    BY <1>7 DEF Requeue, HostInv, PromptInHand, TextTypes, QueueInv, FileIsQueue
  <2>2. QueueInv' /\ TextOf(saved) \subseteq TextOf(saved')
    <3>1. CASE UNCHANGED <<queue, saved>>
      BY <1>0, <1>7, <3>1 DEF Requeue, QueueInv, QueueTypes, QueueFits, InHand, FileIsQueue
    <3>2. CASE SetQueue(Append(queue, inflight))
      <4>1. /\ Append(queue, inflight) \in Seq(SUBSET Fragments)
            /\ Len(Append(queue, inflight)) = Len(queue) + 1
            /\ TextOf(Append(queue, inflight)) = TextOf(queue) \cup inflight
        BY <1>0, <2>1, TextOfAppend
      <4>2. Len(queue) <= MaxQueued
        BY <1>0, <1>7 DEF Requeue, QueueInv, QueueFits, InHand
      <4> QED
        BY <1>0, <1>7, <2>1, <3>2, <4>1, <4>2
           DEF Requeue, SetQueue, QueueInv, QueueTypes, QueueFits, InHand, FileIsQueue
    <3> QED
      BY <1>7, <3>1, <3>2 DEF Requeue
  <2>3. HostTypes' /\ PromptInHand' /\ TextTypes'
    BY <1>7 DEF Requeue, HostInv, HostTypes, Places, PromptInHand, TextTypes, ghosts
  <2>4. NothingDropped'
    BY <1>7, <2>1, <2>2 DEF Requeue, HostInv, NothingDropped, ghosts
  <2> QED
    BY <2>2, <2>3, <2>4 DEF HostInv
<1>8. ASSUME NEW how \in {"done", "failed", "exceeded", "aborted"}, RunEnds(how) PROVE HostInv'
  <2>1. inflight \subseteq logged /\ at' \in {"settling", "recovering", "loop"}
        /\ inflight' = IF at' = "loop" THEN {} ELSE inflight
    BY <1>8 DEF RunEnds, HostInv, PromptInHand
  <2>2. nav' = 0 /\ at # "down" /\ InHand
        /\ UNCHANGED <<queue, saved, buffer, logged, mode, typed, ghosts, restarts>>
    BY <1>8 DEF RunEnds, InHand
  <2>3. QueueInv'
    BY <1>0, <2>2 DEF QueueInv, QueueTypes, QueueFits, FileIsQueue
  <2>4. HostTypes' /\ PromptInHand' /\ TextTypes'
    BY <2>1, <2>2 DEF HostInv, HostTypes, Places, PromptInHand, TextTypes, ghosts
  <2>5. NothingDropped'
    BY <2>1, <2>2 DEF HostInv, NothingDropped, ghosts
  <2> QED
    BY <2>3, <2>4, <2>5 DEF HostInv
<1> QED
  BY <1>1, <1>2, <1>3, <1>4, <1>5, <1>6, <1>7, <1>8 DEF Host

\* A tool boundary, the process's end and the next one's start.
LEMMA OthersKeep == ASSUME HostInv, Clock \/ Boundary \/ Exit \/ Restart PROVE HostInv'
<1>0. /\ nav \in 0..MaxQueued + 1 /\ queue \in Seq(SUBSET Fragments)
      /\ saved \in Seq(SUBSET Fragments) /\ QueueInv
      /\ Len(queue) \in Nat /\ Len(saved) \in Nat
  BY DEF HostInv, QueueInv, QueueTypes, QueueFits
<1>1. CASE Clock
  BY <1>0, <1>1, QuietHost DEF Clock, queueVars, HostInv, HostTypes, TextTypes
<1>2. CASE Boundary
  <2>1. QueueInv'
    BY <1>0, <1>2, EmptyKeeps DEF Boundary
  <2>2. TextOf(queue) \in SUBSET Fragments /\ TextOf(saved) = TextOf(queue)
    BY <1>0, <1>2, TextTyped DEF Boundary, QueueInv, FileIsQueue
  <2>3. HostTypes' /\ PromptInHand' /\ TextTypes'
    BY <1>2, <2>2 DEF Boundary, HostInv, HostTypes, Places, PromptInHand, TextTypes, ghosts
  <2>4. NothingDropped'
    BY <1>2, <2>2 DEF Boundary, HostInv, NothingDropped, ghosts
  <2> QED
    BY <2>1, <2>3, <2>4 DEF HostInv
<1>3. CASE Exit
  <2>1. QueueInv'
    <3>1. <<>> \in Seq(SUBSET Fragments) /\ Len(<<>>) = 0
      OBVIOUS
    <3> QED
      BY <1>0, <1>3, <3>1 DEF Exit, QueueInv, QueueTypes, QueueFits, InHand, FileIsQueue
  <2>2. HostTypes' /\ PromptInHand' /\ TextTypes'
    BY <1>3 DEF Exit, HostInv, HostTypes, Places, PromptInHand, TextTypes
  <2>3. NothingDropped'
    BY <1>3 DEF Exit, HostInv, NothingDropped
  <2> QED
    BY <2>1, <2>2, <2>3 DEF HostInv
<1>4. CASE Restart
  <2>1. /\ WithText(saved) \in Seq(SUBSET Fragments) /\ Len(WithText(saved)) <= Len(saved)
        /\ TextOf(WithText(saved)) = TextOf(saved)
    BY <1>0, TextOfWithText
  <2>2. QueueInv'
    BY <1>0, <1>4, <2>1 DEF Restart, QueueInv, QueueTypes, QueueFits, InHand, FileIsQueue
  <2>3. HostTypes'
    BY <1>4 DEF Restart, HostInv, HostTypes, Places
  <2>4. PromptInHand' /\ TextTypes' /\ NothingDropped'
    BY <1>4 DEF Restart, HostInv, PromptInHand, TextTypes, NothingDropped, ghosts
  <2> QED
    BY <2>2, <2>3, <2>4 DEF HostInv
<1> QED
  BY <1>1, <1>2, <1>3, <1>4

-----------------------------------------------------------------------------
(* The theorems                                                             *)

LEMMA StepInv == IInv /\ [Next]_vars => IInv'
<1> SUFFICES ASSUME IInv, [Next]_vars PROVE IInv'
  OBVIOUS
<1>1. KeyTypes' /\ TurnIsAbortable'
  BY KeysKept DEF IInv
<1>2. HostInv
  BY DEF IInv, HostInv, QueueInv
<1>3. HostInv'
  <2>1. CASE Next
    BY <1>2, <2>1, InputKeeps, HostKeeps, OthersKeep DEF Next
  <2>2. CASE UNCHANGED vars
    BY <1>2, <2>2, QuietHost
       DEF vars, queueVars, HostInv, QueueInv, QueueFits, HostTypes, TextTypes
  <2> QED
    BY <2>1, <2>2
<1> QED
  BY <1>1, <1>3 DEF IInv, HostInv, QueueInv

LEMMA Invariance == Spec => []IInv
<1> QED
  BY InitInv, StepInv, PTL DEF Spec

\* However many prompts are typed, queued, drained, requeued and resumed, every
\* variable keeps its type, and the overlay's selection stays in the range the
\* queue can have.
THEOREM TypeCorrect == Spec => []ReplTypeOK
<1> QED
  BY Invariance, TypesHold, PTL

\* Whatever prompts, timers and turns came before, the abort/quit machine knows
\* of a turn in flight that nobody has aborted.
THEOREM TurnsAreAbortable == Spec => []TurnIsAbortable
<1>1. IInv => TurnIsAbortable
  BY DEF IInv
<1> QED
  BY <1>1, Invariance, PTL

\* A prompt the host accepted is saved, logged or in hand until the user or a
\* hook takes it away or an abort hands it back, through any number of crashes
\* and restarts.
THEOREM NoPromptIsDropped == Spec => []NothingDropped
<1>1. IInv => NothingDropped
  BY DEF IInv
<1> QED
  BY <1>1, Invariance, PTL
=============================================================================
