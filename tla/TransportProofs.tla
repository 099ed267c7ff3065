---------------------------- MODULE TransportProofs ----------------------------
(***************************************************************************)
(* What one send of the transport promises for any timeouts and bounds:    *)
(* its types, that the watchdog counts the bytes of the right request, that *)
(* a salvaged answer holds whole calls only, and that the text on screen   *)
(* is the answer's.                                                        *)
(***************************************************************************)
EXTENDS Transport, TLAPS

USE TimeoutsAssumption, BoundsAssumption

-----------------------------------------------------------------------------
(* The invariant                                                            *)

\* The send has an outcome once it is over.
Ended == pc = "done" <=> outcome # Nothing

\* A POST that holds the reservation is in flight.
TapCounts == reserved = "other" => others > 0

\* Before the stream is sent nobody or another POST holds the reservation,
\* then the stream does, until it claims; unless it was exposed.
TapInv ==
    \/ exposed
    \/ request = Nothing /\ reserved \in {Nothing, "other"} /\ ~claimed
    \/ request = "stream" /\ reserved = "stream" /\ ~claimed
    \/ request = "body" /\ reserved = Nothing /\ claimed

\* One thinking block is open at a time, and a call is open exactly while its
\* arguments stream: it is the last one begun, and not among the blocks yet.
BlockInv ==
    /\ thinking = IF cur = "thinking" THEN 1 ELSE 0
    /\ cur = "call" <=> live # 0
    /\ live # 0 => live = opened /\ (outcome # "answer" => live \notin kept)

\* What is on screen since the last marker is this attempt's text.  Another
\* attempt begins only when there is none.
TextInv ==
    /\ ~started /\ pc \in {"streaming", "failed"} => full = 0
    /\ hasYielded \/ tail = 0
    /\ pc = "streaming" => tail = full
    /\ pc = "failed" /\ err = "unauthorized" => tail = 0
    /\ pc = "sleeping" => tail = 0
    /\ LastSegmentIsAnswer

IInv == TypeOK /\ Ended /\ TapCounts /\ TapInv /\ BlockInv /\ (LateAuth \/ TextInv)

-----------------------------------------------------------------------------
(* Types                                                                    *)

\* What the provider's requests of an attempt do.
Requests ==
    \/ \E kind \in {"other", "stream"} : SendRequest(kind)
    \/ \E holder \in BOOLEAN : OtherHeaders(holder) \/ OtherFails(holder)
    \/ StreamHeaders

\* The variables of one attempt have their types.
AttemptTypes ==
    /\ started \in BOOLEAN /\ stopSeen \in BOOLEAN /\ reasoned \in BOOLEAN
    /\ claimed \in BOOLEAN /\ exposed \in BOOLEAN /\ others \in Nat
    /\ silent \in Nat /\ elapsed \in Nat /\ thinking \in Nat /\ completed \in Nat /\ full \in Nat
    /\ opened \in Nat /\ closed \in Nat /\ live \in Nat
    /\ reason \in {Nothing, "stream_idle", "attempt_too_long"}
    /\ cur \in Blocks \cup {Nothing} /\ kept \in SUBSET (1..opened)
    /\ request \in {Nothing, "stream", "body"}
    /\ reserved \in {Nothing, "other", "stream", "gone"}

\* So have those of the layers around it.
SendTypes ==
    /\ pc \in {"streaming", "failed", "sleeping", "done"}
    /\ aborted \in BOOLEAN /\ hasYielded \in BOOLEAN /\ tail \in Nat
    /\ err \in Errors \cup {Nothing} /\ tried \subseteq {"peer", "refresh"}
    /\ outcome \in {Nothing, "answer", "salvaged", "error", "abort"}

LEMMA TypesSplit == TypeOK <=> AttemptTypes /\ SendTypes
  BY DEF TypeOK, AttemptTypes, SendTypes

\* A fresh attempt has them.
LEMMA FreshTypes == StartAttempt => AttemptTypes' /\ pc' = "streaming" /\ err' = Nothing
<1> SUFFICES ASSUME StartAttempt PROVE AttemptTypes' /\ pc' = "streaming" /\ err' = Nothing
  OBVIOUS
<1>1. opened' = 0 /\ kept' = {}
  BY DEF StartAttempt
<1>2. kept' \in SUBSET (1..opened')
  BY <1>1
<1> QED
  BY <1>2 DEF StartAttempt, AttemptTypes, Blocks, Nothing

\* An open call that is flushed is one of those begun.
LEMMA FlushedTypes ==
  ASSUME AttemptTypes, BlockInv
  PROVE  Flushed \in SUBSET (1..opened)
<1>1. cur = "call" => opened \in 1..opened
  BY DEF AttemptTypes, BlockInv
<1> QED
  BY <1>1 DEF AttemptTypes, Flushed

\* At first the attempt has seen nothing.
LEMMA InitInv == Init => IInv
<1> SUFFICES ASSUME Init PROVE IInv
  OBVIOUS
<1>1. kept \in SUBSET (1..opened)
  BY DEF Init
<1>2. AttemptTypes
  <2>1. /\ silent \in Nat /\ elapsed \in Nat /\ thinking \in Nat /\ completed \in Nat
        /\ full \in Nat /\ opened \in Nat /\ closed \in Nat /\ live \in Nat
    BY DEF Init
  <2>2. /\ started \in BOOLEAN /\ stopSeen \in BOOLEAN /\ reasoned \in BOOLEAN
        /\ claimed \in BOOLEAN /\ exposed \in BOOLEAN /\ others \in Nat
    BY DEF Init
  <2>3. /\ reason \in {Nothing, "stream_idle", "attempt_too_long"} /\ cur \in Blocks \cup {Nothing}
        /\ request \in {Nothing, "stream", "body"}
        /\ reserved \in {Nothing, "other", "stream", "gone"}
    BY DEF Init
  <2> QED
    BY <1>1, <2>1, <2>2, <2>3 DEF AttemptTypes
<1>3. SendTypes
  BY DEF Init, SendTypes, Nothing
<1>4. Ended /\ TapCounts /\ TapInv /\ BlockInv
  BY DEF Init, Ended, TapCounts, TapInv, BlockInv, Nothing
<1>5. TextInv
  BY DEF Init, TextInv, LastSegmentIsAnswer, Nothing
<1> QED
  BY <1>2, <1>3, <1>4, <1>5, TypesSplit DEF IInv

\* The answer to a POST leaves one less, and no holder that is not in flight.
LEMMA OtherTypes ==
  ASSUME AttemptTypes, TapCounts, NEW holder \in BOOLEAN,
         OtherHeaders(holder) \/ OtherFails(holder)
  PROVE  /\ others' \in Nat /\ TapCounts'
         /\ reserved' \in {Nothing, "other", "stream", "gone"}
<1>1. others \in Nat /\ others' = others - 1 /\ InFlight(holder)
  BY DEF OtherHeaders, OtherFails, AttemptTypes
<1>2. CASE holder
  <2>1. reserved = "other" /\ reserved' \in {Nothing, "gone"}
    BY <1>2 DEF OtherHeaders, OtherFails, InFlight
  <2>2. others > 0 /\ reserved' # "other"
    BY <2>1 DEF TapCounts, Nothing
  <2> QED
    BY <1>1, <2>1, <2>2 DEF TapCounts
<1>3. CASE ~holder
  <2>1. reserved' = reserved /\ others > (IF reserved = "other" THEN 1 ELSE 0)
    BY <1>3 DEF OtherHeaders, OtherFails, InFlight
  <2> QED
    BY <1>1, <2>1 DEF TapCounts, AttemptTypes
<1> QED
  BY <1>2, <1>3

\* The timer, the wire and the bridge keep the types of an attempt.
LEMMA AttemptKept ==
  ASSUME AttemptTypes, SendTypes, TapCounts, BlockInv, [Next]_vars
  PROVE  AttemptTypes'
<1> USE DEF attempt, watchdog, tap, bridge, wire
<1>1. CASE UNCHANGED attempt
  BY <1>1 DEF AttemptTypes
<1>2. CASE StartAttempt
  BY <1>2, FreshTypes
<1>3. CASE Tick
  <2>1. silent' \in Nat /\ elapsed' \in Nat
    BY <1>3 DEF Tick, AttemptTypes
  <2>2. reason' \in {Nothing, "stream_idle", "attempt_too_long"}
    BY <1>3 DEF Tick, TimeUp
  <2>3. UNCHANGED <<started, thinking, stopSeen, tap, bridge, wire>>
    BY <1>3 DEF Tick
  <2> QED
    BY <2>1, <2>2, <2>3 DEF AttemptTypes
<1>4. CASE Bytes
  <2>1. (started' = TRUE /\ silent' = 0) \/ UNCHANGED <<started, silent>>
    BY <1>4 DEF Bytes
  <2>2. UNCHANGED <<elapsed, thinking, stopSeen, reason, tap, bridge, wire>>
    BY <1>4 DEF Bytes
  <2>3. started' \in BOOLEAN /\ silent' \in Nat
    <3>1. CASE started' = TRUE /\ silent' = 0
      BY <3>1
    <3>2. CASE UNCHANGED <<started, silent>>
      BY <3>2 DEF AttemptTypes
    <3> QED
      BY <2>1, <3>1, <3>2
  <2> QED
    BY <2>2, <2>3 DEF AttemptTypes
<1>5. ASSUME NEW kind \in {"other", "stream"}, SendRequest(kind) PROVE AttemptTypes'
  <2>1. others' \in Nat /\ exposed' \in BOOLEAN /\ request' \in {Nothing, "stream", "body"}
    BY <1>5 DEF SendRequest, AttemptTypes
  <2>2. reserved' \in {Nothing, "other", "stream", "gone"}
    BY <1>5 DEF SendRequest, AttemptTypes
  <2> QED
    BY <1>5, <2>1, <2>2 DEF SendRequest, AttemptTypes
<1>6. ASSUME NEW holder \in BOOLEAN, OtherHeaders(holder) \/ OtherFails(holder) PROVE AttemptTypes'
  <2>1. others' \in Nat /\ reserved' \in {Nothing, "other", "stream", "gone"}
    BY <1>6, OtherTypes
  <2>2. exposed' \in BOOLEAN /\ UNCHANGED <<watchdog, request, claimed, bridge, wire>>
    BY <1>6 DEF OtherHeaders, OtherFails, AttemptTypes
  <2> QED
    BY <2>1, <2>2 DEF AttemptTypes
<1>16. CASE StreamHeaders
  BY <1>16 DEF StreamHeaders, AttemptTypes
<1>17. CASE PlainEvent
  BY <1>17 DEF PlainEvent, Accept, AttemptTypes
<1>7. ASSUME NEW kind \in Blocks, BlockStart(kind) PROVE AttemptTypes'
  <2>1. opened' \in Nat /\ opened' >= opened /\ thinking' \in Nat /\ live' \in Nat
    BY <1>7 DEF BlockStart, AttemptTypes
  <2>2. kept' \in SUBSET (1..opened')
    <3>1. kept' \in SUBSET (1..opened)
      BY <1>7, FlushedTypes DEF BlockStart
    <3> QED
      BY <2>1, <3>1 DEF AttemptTypes
  <2>3. cur' \in Blocks \cup {Nothing} /\ started' \in BOOLEAN /\ reasoned' \in BOOLEAN
    BY <1>7 DEF BlockStart, Accept, AttemptTypes
  <2>4. silent' = 0 /\ UNCHANGED <<elapsed, reason, tap, stopSeen, completed, full, closed>>
    BY <1>7 DEF BlockStart, Accept
  <2> QED
    BY <2>1, <2>2, <2>3, <2>4 DEF AttemptTypes
<1>8. CASE TextDelta
  <2>1. full' \in Nat
    BY <1>8 DEF TextDelta, AttemptTypes
  <2> QED
    BY <1>8, <2>1 DEF TextDelta, Accept, AttemptTypes
<1>9. CASE BlockStop
  <2>1. thinking' \in Nat
    BY <1>9 DEF BlockStop, AttemptTypes, BlockInv
  <2> QED
    BY <1>9, <2>1 DEF BlockStop, Accept, AttemptTypes
<1>10. CASE CallStop
  <2>1. closed' \in Nat /\ completed' \in Nat /\ live' = 0
    BY <1>10 DEF CallStop, AttemptTypes
  <2>2. kept' \in SUBSET (1..opened') /\ opened' = opened
    BY <1>10, FlushedTypes DEF CallStop
  <2> QED
    BY <1>10, <2>1, <2>2 DEF CallStop, Accept, AttemptTypes
<1>11. CASE MessageStop
  BY <1>11 DEF MessageStop, Accept, AttemptTypes
<1>12. ASSUME NEW e, StreamError(e) PROVE AttemptTypes'
  <2>1. kept' = kept
    BY <1>12 DEF StreamError, CloseWithoutTerminal, Return
  <2> QED
    BY <1>12, <2>1 DEF StreamError, Accept, AttemptTypes
<1>13. CASE SourceEnds
  <2>1. kept' \in SUBSET (1..opened') /\ opened' = opened
    BY <1>13, FlushedTypes DEF SourceEnds, Return, AttemptTypes
  <2> QED
    BY <1>13, <2>1 DEF SourceEnds, AttemptTypes
<1>14. CASE Layers
  BY <1>1, <1>2, <1>14 DEF Layers, LookForPeerToken, RefreshToken, Retry, GiveUp, Wake
<1>15. CASE LateEvent \/ Abort \/ Over \/ UNCHANGED vars \/ \E e \in Errors : SourceThrows(e)
  BY <1>1, <1>15 DEF LateEvent, Abort, Over, vars, SourceThrows
<1> QED
  BY <1>3, <1>4, <1>5, <1>6, <1>7, <1>8, <1>9, <1>10, <1>11, <1>12, <1>13, <1>14, <1>15,
     <1>16, <1>17 DEF Next, Source, Errors, FastErrors, SlowErrors

\* So do the ends of an attempt, and the layers, with the types of the send.
LEMMA SendKept ==
  ASSUME AttemptTypes, SendTypes, [Next]_vars
  PROVE  SendTypes'
<1> USE DEF retry, Throw, Return
<1>1. CASE Tick \/ Bytes \/ Requests
  BY <1>1 DEF Tick, Bytes, Requests, StreamHeaders, OtherHeaders, OtherFails, SendRequest, SendTypes
<1>2. ASSUME NEW kind \in Blocks, BlockStart(kind) PROVE SendTypes'
  BY <1>2 DEF BlockStart, Accept, SendTypes
<1>3. CASE TextDelta
  BY <1>3 DEF TextDelta, Accept, SendTypes
<1>4. CASE BlockStop \/ CallStop \/ PlainEvent \/ MessageStop
  BY <1>4 DEF BlockStop, CallStop, PlainEvent, MessageStop, Accept, SendTypes
<1>5. CASE LateEvent
  BY <1>5 DEF LateEvent, SendTypes, AttemptTypes, Errors, FastErrors
<1>6. ASSUME NEW e \in Errors, StreamError(e) PROVE SendTypes'
  BY <1>6 DEF StreamError, Accept, CloseWithoutTerminal, SendTypes, Errors
<1>7. ASSUME NEW e \in Errors, SourceThrows(e) PROVE SendTypes'
  BY <1>7 DEF SourceThrows, SendTypes, AttemptTypes, Errors, FastErrors
<1>8. CASE SourceEnds
  BY <1>8 DEF SourceEnds, SendTypes, AttemptTypes, Errors, FastErrors
<1>9. ASSUME NEW found \in BOOLEAN, LookForPeerToken(found) PROVE SendTypes'
  BY <1>9, FreshTypes DEF LookForPeerToken, SendTypes
<1>10. ASSUME NEW result \in {"token", "network", "fatal"}, RefreshToken(result) PROVE SendTypes'
  BY <1>10, FreshTypes DEF RefreshToken, SendTypes, Errors, FastErrors
<1>11. CASE Retry \/ GiveUp
  <2>1. CASE Retry
    BY <2>1 DEF Retry, SendTypes
  <2>2. CASE GiveUp
    <3>1. outcome' \in {"abort", "error"} /\ pc' = "done"
      BY <2>2 DEF GiveUp
    <3> QED
      BY <2>2, <3>1 DEF GiveUp, SendTypes
  <2> QED
    BY <1>11, <2>1, <2>2
<1>12. CASE Wake
  BY <1>12, FreshTypes DEF Wake, SendTypes
<1>13. CASE Abort \/ Over \/ UNCHANGED vars
  BY <1>13 DEF Abort, Over, vars, SendTypes
<1> QED
  BY <1>1, <1>2, <1>3, <1>4, <1>5, <1>6, <1>7, <1>8, <1>9, <1>10, <1>11, <1>12, <1>13
     DEF Next, Source, Requests, Layers, Errors, FastErrors, SlowErrors

-----------------------------------------------------------------------------
(* The invariant is kept                                                    *)

\* The requests of an attempt: only they and a new attempt touch the tap.
LEMMA TapKept ==
  ASSUME AttemptTypes, TapCounts, TapInv, [Next]_vars
  PROVE  TapCounts' /\ TapInv'
<1> USE DEF attempt, tap
<1>1. CASE UNCHANGED tap
  BY <1>1 DEF TapCounts, TapInv
<1>2. CASE StartAttempt
  BY <1>2 DEF StartAttempt, TapCounts, TapInv, Nothing
<1>3. ASSUME NEW kind \in {"other", "stream"}, SendRequest(kind) PROVE TapCounts' /\ TapInv'
  <2>1. others' \in Nat /\ (kind = "other" => others' > 0) /\ others' >= others
    BY <1>3 DEF SendRequest, AttemptTypes
  <2>2. TapCounts'
    BY <1>3, <2>1 DEF SendRequest, TapCounts, AttemptTypes
  <2>3. TapInv'
    BY <1>3 DEF SendRequest, TapCounts, TapInv, AttemptTypes, Nothing
  <2> QED
    BY <2>2, <2>3
<1>4. ASSUME NEW holder \in BOOLEAN, OtherHeaders(holder) \/ OtherFails(holder)
      PROVE  TapCounts' /\ TapInv'
  <2>1. TapCounts'
    BY <1>4, OtherTypes
  <2>2. CASE OtherFails(holder)
    BY <2>1, <2>2 DEF OtherFails, TapInv
  <2>3. CASE OtherHeaders(holder)
    BY <2>1, <2>3 DEF OtherHeaders, InFlight, TapInv, Nothing
  <2> QED
    BY <1>4, <2>1, <2>2, <2>3
<1>9. CASE StreamHeaders
  BY <1>9 DEF StreamHeaders, TapCounts, TapInv, Nothing
<1>5. CASE Tick \/ Bytes \/ LateEvent \/ Abort \/ Over \/ UNCHANGED vars
  BY <1>1, <1>5 DEF Tick, Bytes, LateEvent, Abort, Over, vars
<1>6. CASE \/ TextDelta \/ BlockStop \/ CallStop \/ PlainEvent \/ MessageStop
           \/ \E kind \in Blocks : BlockStart(kind)
  BY <1>1, <1>6 DEF TextDelta, PlainEvent, BlockStop, CallStop, MessageStop, BlockStart, Accept
<1>7. CASE SourceEnds \/ \E e \in Errors : StreamError(e) \/ SourceThrows(e)
  BY <1>1, <1>7 DEF SourceEnds, StreamError, SourceThrows, Accept
<1>8. CASE Layers
  BY <1>1, <1>2, <1>8 DEF Layers, LookForPeerToken, RefreshToken, Retry, GiveUp, Wake
<1> QED
  BY <1>3, <1>4, <1>5, <1>6, <1>7, <1>8, <1>9 DEF Next, Source, Errors, FastErrors, SlowErrors

\* An outcome is what a send that is over has.
LEMMA EndedKept ==
  ASSUME SendTypes, Ended, [Next]_vars
  PROVE  Ended'
<1> USE DEF Throw, Return, Nothing
<1>1. CASE UNCHANGED <<pc, outcome>>
  BY <1>1 DEF Ended
<1>2. CASE pc = "streaming" /\ pc' = "failed" /\ UNCHANGED outcome
  BY <1>2 DEF Ended
<1>3. CASE StartAttempt /\ pc # "done" /\ UNCHANGED outcome
  BY <1>3 DEF StartAttempt, Ended
<1>4. CASE \E kind \in Blocks : BlockStart(kind)
  BY <1>1, <1>4 DEF BlockStart
<1>5. CASE Tick \/ Bytes \/ Requests
  BY <1>1, <1>5 DEF Tick, Bytes, Requests, StreamHeaders, OtherHeaders, OtherFails, SendRequest
<1>6. CASE TextDelta \/ BlockStop \/ CallStop \/ PlainEvent \/ MessageStop \/ Abort \/ Over \/ UNCHANGED vars
  BY <1>1, <1>6 DEF TextDelta, BlockStop, CallStop, PlainEvent, MessageStop, Abort, Over, vars
<1>7. CASE LateEvent \/ \E e \in Errors : SourceThrows(e)
  BY <1>2, <1>7 DEF LateEvent, SourceThrows
<1>8. CASE SourceEnds \/ \E e \in Errors : StreamError(e)
  BY <1>8 DEF Ended, SourceEnds, StreamError, Accept, CloseWithoutTerminal
<1>9. CASE Layers
  <2>1. CASE Retry \/ GiveUp
    BY <2>1 DEF Retry, GiveUp, Ended
  <2>2. CASE Wake
    BY <1>3, <2>2 DEF Wake, Ended
  <2>3. CASE \E found \in BOOLEAN : LookForPeerToken(found)
    BY <1>1, <1>3, <2>3 DEF LookForPeerToken
  <2>4. CASE \E result \in {"token", "network", "fatal"} : RefreshToken(result)
    BY <1>1, <1>3, <2>4 DEF RefreshToken
  <2> QED
    BY <1>9, <2>1, <2>2, <2>3, <2>4 DEF Layers
<1> QED
  BY <1>4, <1>5, <1>6, <1>7, <1>8, <1>9 DEF Next, Source, Requests, Errors, FastErrors, SlowErrors

\* Blocks open and close: what streams is the last call, and it is kept only
\* by the end of an answer.
LEMMA BlockKept ==
  ASSUME AttemptTypes, Ended, BlockInv, [Next]_vars
  PROVE  BlockInv'
<1> USE DEF attempt, watchdog, bridge, wire
<1>1. CASE UNCHANGED <<thinking, cur, kept, opened, live>> /\ (outcome = "answer" => outcome' = "answer")
  BY <1>1 DEF BlockInv
<1>2. CASE StartAttempt
  BY <1>2 DEF StartAttempt, BlockInv, Nothing
<1>3. ASSUME NEW kind \in Blocks, BlockStart(kind) PROVE BlockInv'
  <2>1. /\ pc = "streaming" /\ outcome' = outcome /\ cur' = kind /\ kept' \in SUBSET (1..opened)
        /\ cur # "thinking"
        /\ opened' = opened + (IF kind = "call" THEN 1 ELSE 0)
        /\ live' = IF kind = "call" THEN opened' ELSE 0
        /\ thinking' = thinking + (IF kind = "thinking" THEN 1 ELSE 0)
    BY <1>3, FlushedTypes DEF BlockStart, Accept
  <2>2. thinking = 0 /\ opened \in Nat
    BY <2>1 DEF BlockInv, AttemptTypes, Nothing
  <2>3. CASE kind = "call"
    <3>1. live' = opened + 1 /\ opened' = opened + 1 /\ cur' = "call" /\ thinking' = 0
      BY <2>1, <2>2, <2>3
    <3>2. live' # 0 /\ live' \notin kept'
      BY <2>1, <2>2, <3>1
    <3> QED
      BY <3>1, <3>2 DEF BlockInv
  <2>4. CASE kind # "call"
    BY <2>1, <2>2, <2>4 DEF BlockInv, Blocks
  <2> QED
    BY <2>3, <2>4
<1>4. CASE BlockStop
  BY <1>4 DEF BlockStop, Accept, BlockInv, Nothing
<1>5. CASE CallStop
  BY <1>5 DEF CallStop, Accept, BlockInv, Nothing
<1>6. CASE SourceEnds
  <2>1. CASE outcome' = "answer"
    BY <1>6, <2>1 DEF SourceEnds, BlockInv
  <2>2. CASE outcome' # "answer"
    <3>1. UNCHANGED <<thinking, cur, kept, opened, live, outcome>>
      BY <1>6, <2>2 DEF SourceEnds, Return
    <3> QED
      BY <1>1, <3>1
  <2> QED
    BY <2>1, <2>2
<1>7. ASSUME NEW e, StreamError(e) PROVE BlockInv'
  BY <1>1, <1>7 DEF StreamError, Accept, CloseWithoutTerminal, Return, Ended, Nothing
<1>8. CASE Layers
  BY <1>1, <1>2, <1>8 DEF Layers, LookForPeerToken, RefreshToken, Retry, GiveUp, Wake, Ended, Nothing
<1>9. CASE Tick \/ Bytes \/ Requests
  BY <1>1, <1>9 DEF Tick, Bytes, Requests, StreamHeaders, OtherHeaders, OtherFails, SendRequest
<1>10. CASE TextDelta \/ PlainEvent \/ MessageStop \/ LateEvent \/ \E e \in Errors : SourceThrows(e)
  BY <1>1, <1>10 DEF TextDelta, PlainEvent, MessageStop, LateEvent, SourceThrows
<1>11. CASE Abort \/ Over \/ UNCHANGED vars
  BY <1>1, <1>11 DEF Abort, Over, vars
<1> QED
  BY <1>3, <1>4, <1>5, <1>6, <1>7, <1>8, <1>9, <1>10, <1>11
     DEF Next, Source, Requests, Errors, FastErrors, SlowErrors

\* The text on screen: an attempt that may be followed by another without a
\* marker has shown none.
LEMMA TextKept ==
  ASSUME AttemptTypes, SendTypes, Ended, TextInv, ~LateAuth, [Next]_vars
  PROVE  TextInv'
<1> USE DEF attempt, watchdog, bridge, retry
<1>1. CASE UNCHANGED <<pc, full, err, hasYielded, tail, outcome>> /\ (started => started')
  BY <1>1 DEF TextInv, LastSegmentIsAnswer
<1>2. CASE StartAttempt /\ tail = 0 /\ pc # "done" /\ UNCHANGED <<hasYielded, tail, outcome>>
  BY <1>2 DEF StartAttempt, TextInv, LastSegmentIsAnswer, Ended, Nothing
<1>3. ASSUME NEW e, Throw(e), pc = "streaming", e = "unauthorized" => ~started,
             started => started', UNCHANGED <<full, hasYielded, tail, outcome>>
      PROVE  TextInv'
  BY <1>3 DEF Throw, TextInv, LastSegmentIsAnswer, Ended, Nothing
<1>4. ASSUME pc = "streaming", pc' = "done", UNCHANGED <<full, hasYielded, tail>> PROVE TextInv'
  BY <1>4 DEF TextInv, LastSegmentIsAnswer
<1>5. CASE TextDelta
  <2>1. /\ pc' = "streaming" /\ tail = full /\ full' = full + 1 /\ tail' = tail + 1
        /\ hasYielded' = TRUE /\ started' = TRUE /\ pc = "streaming" /\ outcome' = outcome
    BY <1>5 DEF TextDelta, Accept, TextInv
  <2> QED
    BY <2>1 DEF TextInv, LastSegmentIsAnswer, Ended, Nothing
<1>6. CASE Tick \/ Bytes \/ Requests
  BY <1>1, <1>6 DEF Tick, Bytes, Requests, StreamHeaders, OtherHeaders, OtherFails, SendRequest
<1>7. CASE BlockStop \/ CallStop \/ PlainEvent \/ MessageStop \/ \E kind \in Blocks : BlockStart(kind)
  BY <1>1, <1>7 DEF BlockStop, CallStop, PlainEvent, MessageStop, BlockStart, Accept
<1>8. CASE LateEvent
  BY <1>3, <1>8 DEF LateEvent, AttemptTypes, Nothing
<1>9. ASSUME NEW e, SourceThrows(e) PROVE TextInv'
  <2>1. PICK f : Throw(f) /\ (f = "unauthorized" => ~started)
    <3>1. (IF reason # Nothing THEN reason ELSE e) = "unauthorized" => ~started
      BY <1>9 DEF SourceThrows, AttemptTypes
    <3> QED
      BY <1>9, <3>1 DEF SourceThrows
  <2> QED
    BY <1>3, <1>9, <2>1 DEF SourceThrows
<1>10. ASSUME NEW e, StreamError(e) PROVE TextInv'
  <2>1. pc = "streaming" /\ started' /\ e # "unauthorized" /\ UNCHANGED <<full, hasYielded, tail>>
    BY <1>10 DEF StreamError, Accept
  <2>2. (pc' = "done") \/ (\E f : f # "unauthorized" /\ Throw(f) /\ UNCHANGED outcome)
    BY <1>10, <2>1 DEF StreamError, CloseWithoutTerminal, Return
  <2> QED
    BY <1>3, <1>4, <2>1, <2>2
<1>11. CASE SourceEnds
  <2>1. pc = "streaming" /\ UNCHANGED <<started, full, hasYielded, tail>>
    BY <1>11 DEF SourceEnds
  <2>2. (pc' = "done") \/ (\E f : f # "unauthorized" /\ Throw(f) /\ UNCHANGED outcome)
    BY <1>11 DEF SourceEnds, Return, AttemptTypes
  <2> QED
    BY <1>3, <1>4, <2>1, <2>2
<1>12. ASSUME NEW found, LookForPeerToken(found) PROVE TextInv'
  <2>1. pc = "failed" /\ tail = 0
    BY <1>12 DEF LookForPeerToken, TextInv
  <2> QED
    BY <1>1, <1>2, <1>12, <2>1 DEF LookForPeerToken
<1>13. ASSUME NEW result \in {"token", "network", "fatal"}, RefreshToken(result) PROVE TextInv'
  <2>1. pc = "failed" /\ tail = 0 /\ UNCHANGED <<hasYielded, tail, outcome>>
    BY <1>13 DEF RefreshToken, TextInv
  <2>2. CASE StartAttempt
    BY <1>2, <2>1, <2>2
  <2>3. CASE UNCHANGED <<pc, attempt>>
    BY <2>1, <2>3 DEF TextInv, LastSegmentIsAnswer
  <2> QED
    BY <1>13, <2>2, <2>3 DEF RefreshToken
<1>14. CASE Retry
  BY <1>14 DEF Retry, TextInv, LastSegmentIsAnswer, Ended, Nothing
<1>15. CASE GiveUp
  <2>1. outcome' \in {"abort", "error"} /\ pc' = "done" /\ UNCHANGED <<hasYielded, tail>>
    BY <1>15 DEF GiveUp
  <2> QED
    BY <2>1 DEF TextInv, LastSegmentIsAnswer
<1>16. CASE Wake
  <2>1. pc = "sleeping" /\ tail = 0 /\ UNCHANGED <<hasYielded, tail>>
    BY <1>16 DEF Wake, TextInv
  <2>2. CASE aborted
    BY <1>16, <2>1, <2>2 DEF Wake, TextInv, LastSegmentIsAnswer
  <2>3. CASE ~aborted
    BY <1>2, <1>16, <2>1, <2>3 DEF Wake
  <2> QED
    BY <2>2, <2>3
<1>17. CASE Abort \/ Over \/ UNCHANGED vars
  BY <1>1, <1>17 DEF Abort, Over, vars
<1> QED
  BY <1>5, <1>6, <1>7, <1>8, <1>9, <1>10, <1>11, <1>12, <1>13, <1>14, <1>15, <1>16, <1>17
     DEF Next, Source, Requests, Layers

\* Every step keeps the invariant.
LEMMA NextInv == IInv /\ [Next]_vars => IInv'
<1> SUFFICES ASSUME IInv, [Next]_vars PROVE IInv'
  OBVIOUS
<1>1. AttemptTypes /\ SendTypes /\ Ended /\ TapCounts /\ TapInv /\ BlockInv
  BY TypesSplit DEF IInv
<1>2. AttemptTypes' /\ SendTypes'
  BY <1>1, AttemptKept, SendKept
<1>3. TypeOK'
  BY <1>2, TypesSplit, PTL
<1>4. Ended' /\ TapCounts' /\ TapInv' /\ BlockInv'
  BY <1>1, EndedKept, TapKept, BlockKept
<1>5. LateAuth \/ TextInv'
  BY <1>1, TextKept DEF IInv
<1> QED
  BY <1>3, <1>4, <1>5 DEF IInv

LEMMA Inductive == Spec => []IInv
  BY InitInv, NextInv, PTL DEF Spec

-----------------------------------------------------------------------------
(* Theorems                                                                 *)

\* Every variable of a send keeps its type; a thinking block is never counted
\* down below zero, whatever stops the provider sends.
THEOREM TypeCorrect == Spec => []TypeOK
  BY Inductive, PTL DEF IInv

\* However many other POSTs the provider makes and in whatever order they are
\* answered, the body being read is the one whose bytes reset the watchdog,
\* unless one was still in flight when the stream was sent, or has failed.
THEOREM BodiesAreWatched == Spec => []BodyIsWatched
<1>1. IInv => BodyIsWatched
  BY DEF IInv, TapInv, BodyIsWatched, Nothing
<1> QED
  BY <1>1, Inductive, PTL

\* A stream that closes without its end leaves no half-streamed call among
\* those the agent loop will execute.
THEOREM SalvageIsWhole == Spec => []SalvagedCallsAreWhole
<1>1. IInv => SalvagedCallsAreWhole
  <2> SUFFICES ASSUME IInv, outcome = "salvaged", live \in kept PROVE FALSE
    BY DEF SalvagedCallsAreWhole
  <2>1. kept \in SUBSET (1..opened) /\ opened \in Nat
    BY TypesSplit DEF IInv, AttemptTypes
  <2>2. live # 0
    BY <2>1
  <2> QED
    BY <2>2 DEF IInv, BlockInv
<1> QED
  BY <1>1, Inductive, PTL

\* When no 401 comes after output began, the text since the last marker is the
\* answer's: retries, stalls and refreshed tokens glue nothing together.
THEOREM ScreenIsAnswer ==
  ASSUME ~LateAuth
  PROVE  Spec => []LastSegmentIsAnswer
<1>1. IInv => LastSegmentIsAnswer
  BY DEF IInv, TextInv
<1> QED
  BY <1>1, Inductive, PTL
=============================================================================
