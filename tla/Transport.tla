------------------------------ MODULE Transport ------------------------------
(***************************************************************************)
(* One send of the canonical transport (src/src/llm/transport): withRetry  *)
(* around withAuthRefresh around withStreamWatchdog, with the bridge that  *)
(* turns canonical events into the text, blocks and result the agent loop  *)
(* consumes (adapter-legacy-stream.ts).  The source of the events, the     *)
(* clock, the credential store and the user's abort are the environment.   *)
(*                                                                         *)
(* An action is what happens for one event of the stream, one second of    *)
(* the watchdog's timer, or one await of the retry and refresh layers.     *)
(***************************************************************************)
EXTENDS Naturals, FiniteSets

CONSTANTS
    IdleTimeout,     \* streamIdleTimeoutMs, in timer ticks
    ThinkingTimeout, \* thinkingIdleTimeoutMs, after the clamp
    PreTimeout,      \* responseHeadersTimeoutMs
    HardTimeout,     \* attemptHardTimeoutMs
    LateAuth,        \* the source may report a 401 after output began
    MaxOthers,       \* bound: POSTs in flight beside the stream
    MaxText,         \* bound: text deltas in one attempt
    MaxCalls         \* bound: tool calls in one attempt

ASSUME TimeoutsAssumption ==
    /\ {IdleTimeout, ThinkingTimeout, PreTimeout, HardTimeout} \subseteq Nat \ {0}
    /\ IdleTimeout <= ThinkingTimeout
ASSUME BoundsAssumption == {MaxText, MaxCalls, MaxOthers} \subseteq Nat /\ LateAuth \in BOOLEAN

VARIABLES
    pc,           \* where the send stands
    aborted,      \* opts.signal
    started,      \* watchdog: streamStarted
    silent,       \* watchdog: seconds since lastEventAt
    elapsed,      \* watchdog: seconds since startedAt
    thinking,     \* watchdog: openThinkingBlocks
    stopSeen,     \* watchdog: messageStopReceived
    reason,       \* watchdog: why it aborted the attempt
    cur,          \* bridge: the open block
    kept,         \* bridge: the tool calls among blocks
    completed,    \* bridge: progress.completedToolCalls
    full,         \* bridge: deltas in fullText
    reasoned,     \* bridge: progress.sawReasoning
    opened,       \* wire: tool calls begun by this attempt's stream
    closed,       \* wire: of those, how many stops were sent
    request,      \* wire: the stream's request, or its open body
    others,       \* wire: other POSTs whose headers are awaited
    reserved,     \* bindPrimaryStreamRequest: who holds reservedId
    claimed,      \* bindPrimaryStreamRequest: primaryId is set
    exposed,      \* history: another POST has failed, or was awaited beside the stream
    live,         \* wire: the call whose arguments are still streaming, or 0
    err,          \* the error that ended the attempt
    tried,        \* auth-refresh: triedPeer, triedRefresh
    hasYielded,   \* retry: some attempt yielded text
    tail,         \* deltas shown since the last stall marker
    outcome       \* what the send gave the agent loop

watchdog == <<started, silent, elapsed, thinking, stopSeen, reason>>
bridge   == <<cur, kept, completed, full, reasoned>>
tap      == <<request, others, reserved, claimed, exposed>>
wire     == <<opened, closed, live>>
attempt  == <<watchdog, tap, bridge, wire>>
retry    == <<tried, hasYielded, tail>>
vars == <<pc, aborted, attempt, err, retry, outcome>>

Nothing == "none"
Blocks  == {"text", "thinking", "call"}

\* streamErrorType of what an attempt throws; the last three carry none.
FastErrors == {"overloaded", "network", "stream_idle", "attempt_too_long"}
SlowErrors == {"rate_limit"}
Errors == FastErrors \cup SlowErrors
             \cup {"closed", "stream_truncated", "fatal", "unauthorized", "cancel"}

Init ==
    /\ pc = "streaming" /\ aborted = FALSE
    /\ started = FALSE /\ silent = 0 /\ elapsed = 0 /\ thinking = 0
    /\ stopSeen = FALSE /\ reason = Nothing
    /\ cur = Nothing /\ kept = {} /\ completed = 0 /\ full = 0 /\ reasoned = FALSE
    /\ request = Nothing /\ others = 0 /\ reserved = Nothing /\ claimed = FALSE
    /\ exposed = FALSE
    /\ opened = 0 /\ closed = 0 /\ live = 0
    /\ err = Nothing /\ tried = {} /\ hasYielded = FALSE /\ tail = 0
    /\ outcome = Nothing

-----------------------------------------------------------------------------
(* The watchdog                                                             *)

IdleLimit == IF thinking > 0 THEN ThinkingTimeout ELSE IdleTimeout

\* Mutant: the hard ceiling is only looked at before the stream has started.
TimeUpWithoutCeiling(quiet, total) ==
    IF ~started
    THEN IF total >= PreTimeout THEN "stream_idle"
         ELSE IF total >= HardTimeout THEN "attempt_too_long" ELSE Nothing
    ELSE IF quiet >= IdleLimit THEN "stream_idle" ELSE Nothing

\* The verdict of one timer callback.
TimeUp(quiet, total) ==
    IF (IF started THEN quiet >= IdleLimit ELSE total >= PreTimeout) THEN "stream_idle"
    ELSE IF total >= HardTimeout THEN "attempt_too_long"
    ELSE Nothing

\* The interval callback, once per second, until the attempt is decided;
\* the age of an attempt is counted up to its limit.
Tick ==
    /\ pc = "streaming" /\ ~stopSeen /\ ~aborted /\ reason = Nothing
    /\ silent' = (IF started THEN silent + 1 ELSE 0)
    /\ elapsed' = IF elapsed < HardTimeout THEN elapsed + 1 ELSE elapsed
    /\ reason' = TimeUp(silent', elapsed')
    /\ UNCHANGED <<pc, aborted, started, thinking, stopSeen, tap, bridge, wire, err, retry, outcome>>

\* A body chunk that completes no event: an SSE comment or a heartbeat.
Bytes ==
    /\ pc = "streaming"
    /\ request = "body"
    /\ IF claimed THEN started' = TRUE /\ silent' = 0 ELSE UNCHANGED <<started, silent>>
    /\ UNCHANGED <<pc, aborted, elapsed, thinking, stopSeen, reason, tap, bridge, wire, err,
                   retry, outcome>>

-----------------------------------------------------------------------------
(* The requests of an attempt: bindPrimaryStreamRequest                     *)

\* The provider sends the stream's request, or before its headers some other
\* POST, such as a token exchange, whose label does not give it away.  The
\* first that may be the stream takes the reservation.
SendRequest(kind) ==
    /\ pc = "streaming"
    /\ \/ kind = "stream" /\ request = Nothing /\ request' = kind /\ UNCHANGED others
       \/ /\ kind = "other" /\ request # "body" /\ others < MaxOthers
          /\ others' = others + 1 /\ UNCHANGED request
    /\ reserved' = IF reserved = Nothing /\ ~claimed THEN kind ELSE reserved
    /\ exposed' = (exposed \/ (kind = "stream" /\ others > 0))
    /\ UNCHANGED <<pc, aborted, watchdog, claimed, bridge, wire, err, retry, outcome>>

\* Among the other POSTs in flight is the one that holds the reservation, or
\* one that does not.
InFlight(holder) ==
    IF holder THEN reserved = "other"
    ELSE others > (IF reserved = "other" THEN 1 ELSE 0)

\* Mutant: an answer that is not a stream keeps the reservation.
OtherHeadersKeeping(holder) ==
    /\ pc = "streaming" /\ InFlight(holder)
    /\ others' = others - 1
    /\ reserved' = IF holder THEN "gone" ELSE reserved
    /\ UNCHANGED <<pc, aborted, watchdog, request, claimed, exposed, bridge, wire, err, retry,
                   outcome>>

\* Headers classify the holder: one that is not a stream lets go.
OtherHeaders(holder) ==
    /\ pc = "streaming" /\ InFlight(holder)
    /\ others' = others - 1
    /\ reserved' = IF holder THEN Nothing ELSE reserved
    /\ UNCHANGED <<pc, aborted, watchdog, request, claimed, exposed, bridge, wire, err, retry,
                   outcome>>

\* A POST fails before its headers, and the provider goes on: onResponse is
\* never called, so the holder's reservation stays.
OtherFails(holder) ==
    /\ pc = "streaming" /\ InFlight(holder)
    /\ others' = others - 1
    /\ reserved' = IF holder THEN "gone" ELSE reserved
    /\ exposed' = TRUE
    /\ UNCHANGED <<pc, aborted, watchdog, request, claimed, bridge, wire, err, retry, outcome>>

\* The stream's headers: it is claimed, if it was sent with the reservation.
StreamHeaders ==
    /\ pc = "streaming" /\ request = "stream" /\ request' = "body"
    /\ claimed' = (reserved = "stream")
    /\ reserved' = IF reserved = "stream" THEN Nothing ELSE reserved
    /\ UNCHANGED <<pc, aborted, watchdog, others, exposed, bridge, wire, err, retry, outcome>>

-----------------------------------------------------------------------------
(* The end of an attempt, and the events of its stream                      *)

\* The attempt throws; withAuthRefresh and withRetry catch.
Throw(e) == pc' = "failed" /\ err' = e

\* An event after the watchdog tripped is not looked at: the loop throws.
LateEvent ==
    /\ pc = "streaming" /\ request = "body" /\ reason # Nothing
    /\ Throw(reason)
    /\ UNCHANGED <<aborted, attempt, retry, outcome>>

\* What the loop does for an event before handing it to the bridge.
Accept ==
    /\ pc = "streaming" /\ request = "body" /\ reason = Nothing
    /\ started' = TRUE /\ silent' = 0
    /\ UNCHANGED <<aborted, elapsed, reason, tap>>

-----------------------------------------------------------------------------
(* The bridge                                                               *)

\* flushCur: an open call joins the blocks, whoever closes it.
Flushed == IF cur = "call" THEN kept \cup {opened} ELSE kept

\* text_start, thinking_start, tool_use_start.  A thinking block is stopped
\* before another block begins; the stop of a text or a call may be deferred
\* beyond that (openai-chat.ts), when the arguments are through all the same.
BlockStart(kind) ==
    /\ Accept
    /\ cur # "thinking" /\ (cur = kind => kind = "call")
    /\ kind = "call" => opened < MaxCalls
    /\ cur' = kind /\ kept' = Flushed
    /\ opened' = opened + (IF kind = "call" THEN 1 ELSE 0)
    /\ live' = IF kind = "call" THEN opened' ELSE 0
    /\ thinking' = thinking + (IF kind = "thinking" THEN 1 ELSE 0)
    /\ reasoned' = (reasoned \/ kind = "thinking")
    /\ UNCHANGED <<pc, stopSeen, completed, full, closed, err, retry, outcome>>

\* text_delta and refusal_delta, the only events that reach the screen, also
\* when no text block is open, or no longer.
TextDelta ==
    /\ Accept
    /\ full < MaxText
    /\ full' = full + 1 /\ tail' = tail + 1 /\ hasYielded' = TRUE
    /\ UNCHANGED <<pc, thinking, stopSeen, cur, kept, completed, reasoned, wire, err, tried,
                   outcome>>

\* Mutant: every stop is counted as the end of a thinking block.
BlockStopMiscounted ==
    /\ Accept
    /\ cur \in {"text", "thinking"}
    /\ cur' = Nothing
    /\ thinking' = thinking - 1
    /\ UNCHANGED <<pc, stopSeen, kept, completed, full, reasoned, wire, err, retry, outcome>>

\* text_stop, thinking_stop.
BlockStop ==
    /\ Accept
    /\ cur \in {"text", "thinking"}
    /\ cur' = Nothing
    /\ thinking' = IF cur = "thinking" THEN thinking - 1 ELSE thinking
    /\ UNCHANGED <<pc, stopSeen, kept, completed, full, reasoned, wire, err, retry, outcome>>

\* tool_use_stop: the stops come in order, and only an open block counts.
CallStop ==
    /\ Accept
    /\ closed < opened
    /\ closed' = closed + 1 /\ live' = 0
    /\ kept' = Flushed
    /\ completed' = completed + (IF cur = "call" THEN 1 ELSE 0)
    /\ cur' = IF cur = "call" THEN Nothing ELSE cur
    /\ UNCHANGED <<pc, thinking, stopSeen, full, reasoned, opened, err, retry, outcome>>

\* An event that changes no block: a ping, a delta of thinking or arguments,
\* the stop of a text that another block has flushed.
PlainEvent ==
    /\ Accept
    /\ UNCHANGED <<pc, thinking, stopSeen, bridge, wire, err, retry, outcome>>

\* message_delta and message_stop; max_tokens may leave a block open.
MessageStop ==
    /\ Accept
    /\ ~stopSeen /\ stopSeen' = TRUE
    /\ UNCHANGED <<pc, thinking, bridge, wire, err, retry, outcome>>

\* The send returns a response to the agent loop.
Return(how, calls) == pc' = "done" /\ outcome' = how /\ kept' = calls

\* Mutant: the call that was still streaming is salvaged with the others.
CloseWithoutTerminalKeepingAll ==
    IF completed > 0 \/ full > 0
    THEN Return("salvaged", Flushed) /\ UNCHANGED err
    ELSE Throw("closed") /\ UNCHANGED <<kept, outcome>>

(***************************************************************************)
(* stream_closed_without_terminal: closed calls, or text, are returned and *)
(* an open call is dropped; with neither the attempt throws.               *)
(***************************************************************************)
CloseWithoutTerminal ==
    IF completed > 0 \/ full > 0
    THEN Return("salvaged", kept) /\ UNCHANGED err
    ELSE Throw("closed") /\ UNCHANGED <<kept, outcome>>

\* A stream_error event, tagged by its upstream type or its category.
StreamError(e) ==
    /\ Accept
    /\ ~stopSeen
    /\ e = "unauthorized" => LateAuth
    /\ IF e = "closed" THEN CloseWithoutTerminal
                       ELSE Throw(e) /\ UNCHANGED <<kept, outcome>>
    /\ UNCHANGED <<thinking, stopSeen, cur, completed, full, reasoned, wire, retry>>

\* The events end.  Without message_stop the watchdog says why; with it the
\* bridge keeps a block left open.
SourceEnds ==
    /\ pc = "streaming"
    /\ IF reason # Nothing THEN Throw(reason) /\ UNCHANGED <<kept, outcome>>
       ELSE IF ~stopSeen THEN Throw("stream_truncated") /\ UNCHANGED <<kept, outcome>>
       ELSE Return("answer", Flushed) /\ UNCHANGED err
    /\ UNCHANGED <<aborted, watchdog, tap, cur, completed, full, reasoned, wire, retry>>

(***************************************************************************)
(* The events throw: a refused or reset connection, an HTTP status, or the *)
(* abort of the signal.  A tripped watchdog renames whatever it is.        *)
(***************************************************************************)
SourceThrows(e) ==
    /\ pc = "streaming"
    /\ e \in {"overloaded", "rate_limit"} => ~started
    /\ e = "unauthorized" => ~started \/ LateAuth
    /\ e = "cancel" => aborted
    /\ Throw(IF reason # Nothing THEN reason ELSE e)
    /\ UNCHANGED <<aborted, attempt, retry, outcome>>

-----------------------------------------------------------------------------
(* The layers around an attempt                                             *)

\* A fresh generator: new watchdog, new bridge; the layers' state stays.
StartAttempt ==
    /\ pc' = "streaming"
    /\ started' = FALSE /\ silent' = 0 /\ elapsed' = 0 /\ thinking' = 0
    /\ stopSeen' = FALSE /\ reason' = Nothing
    /\ cur' = Nothing /\ kept' = {} /\ completed' = 0 /\ full' = 0 /\ reasoned' = FALSE
    /\ request' = Nothing /\ others' = 0 /\ reserved' = Nothing /\ claimed' = FALSE
    /\ exposed' = FALSE
    /\ opened' = 0 /\ closed' = 0 /\ live' = 0 /\ err' = Nothing

Recoverable == err = "unauthorized" /\ tried # {"peer", "refresh"}

\* withAuthRefresh, store first: adopt a token a peer process has rotated,
\* or find none.
LookForPeerToken(found) ==
    /\ pc = "failed" /\ err = "unauthorized" /\ "peer" \notin tried
    /\ tried' = tried \cup {"peer"}
    /\ IF found THEN StartAttempt ELSE UNCHANGED <<pc, attempt, err>>
    /\ UNCHANGED <<aborted, hasYielded, tail, outcome>>

\* Then a network refresh; what it throws takes the 401's place.
RefreshToken(result) ==
    /\ pc = "failed" /\ err = "unauthorized" /\ "peer" \in tried /\ "refresh" \notin tried
    /\ tried' = tried \cup {"refresh"}
    /\ IF result = "token" THEN StartAttempt
       ELSE err' = result /\ UNCHANGED <<pc, attempt>>
    /\ UNCHANGED <<aborted, hasYielded, tail, outcome>>

\* classifyRetryableStreamError and decideTerminalLessRecovery.
Retries(e) == \/ e \in FastErrors \cup SlowErrors
              \/ e = "closed" /\ completed = 0

\* Mutant: the marker is painted for stalls only.
RetryMarkingStalls ==
    /\ pc = "failed" /\ ~Recoverable /\ Retries(err)
    /\ pc' = "sleeping"
    /\ tail' = IF hasYielded /\ err = "stream_idle" THEN 0 ELSE tail
    /\ UNCHANGED <<aborted, attempt, err, tried, hasYielded, outcome>>

\* withRetry: a stall marker if text was shown, then the backoff sleep.
Retry ==
    /\ pc = "failed" /\ ~Recoverable /\ Retries(err)
    /\ pc' = "sleeping"
    /\ tail' = IF hasYielded THEN 0 ELSE tail
    /\ UNCHANGED <<aborted, attempt, err, tried, hasYielded, outcome>>

\* Anything else ends the send.
GiveUp ==
    /\ pc = "failed" /\ ~Recoverable /\ ~Retries(err)
    /\ pc' = "done" /\ outcome' = (IF err = "cancel" THEN "abort" ELSE "error")
    /\ UNCHANGED <<aborted, attempt, err, retry>>

\* Mutant: the sleep does not look at the signal.
WakeUnaware ==
    /\ pc = "sleeping"
    /\ StartAttempt /\ tried' = {}
    /\ UNCHANGED <<aborted, outcome, hasYielded, tail>>

\* The sleep ends: aborted, or with a new attempt and a new auth layer.
Wake ==
    /\ pc = "sleeping"
    /\ IF aborted
       THEN /\ pc' = "done" /\ outcome' = "abort"
            /\ UNCHANGED <<attempt, err, tried>>
       ELSE StartAttempt /\ tried' = {} /\ UNCHANGED outcome
    /\ UNCHANGED <<aborted, hasYielded, tail>>

\* Esc or Ctrl+C.
Abort ==
    /\ pc # "done" /\ ~aborted /\ aborted' = TRUE
    /\ UNCHANGED <<pc, attempt, err, retry, outcome>>

\* The send is over.
Over == pc = "done" /\ UNCHANGED vars

-----------------------------------------------------------------------------
Source ==
    \/ \E kind \in {"other", "stream"} : SendRequest(kind)
    \/ \E holder \in BOOLEAN : OtherHeaders(holder) \/ OtherFails(holder)
    \/ StreamHeaders \/ Bytes \/ LateEvent
    \/ TextDelta \/ BlockStop \/ CallStop \/ PlainEvent \/ MessageStop \/ SourceEnds
    \/ \E kind \in Blocks : BlockStart(kind)
    \/ \E e \in {"overloaded", "rate_limit", "closed", "fatal", "unauthorized"} : StreamError(e)
    \/ \E e \in {"overloaded", "rate_limit", "network", "fatal", "unauthorized", "cancel"} :
           SourceThrows(e)

Layers ==
    \/ \E found \in BOOLEAN : LookForPeerToken(found)
    \/ \E result \in {"token", "network", "fatal"} : RefreshToken(result)
    \/ Retry \/ GiveUp \/ Wake

Next == Tick \/ Source \/ Layers \/ Abort \/ Over

\* A source whose signal is aborted ends.
Unwind == /\ reason # Nothing \/ aborted
          /\ SourceEnds \/ \E e \in {"network", "cancel"} : SourceThrows(e)

Fairness == WF_vars(Tick) /\ WF_vars(Unwind) /\ WF_vars(Layers)
Spec == Init /\ [][Next]_vars /\ Fairness

-----------------------------------------------------------------------------
(* Properties                                                               *)

\* Every variable keeps its type.
TypeOK ==
    /\ pc \in {"streaming", "failed", "sleeping", "done"}
    /\ {aborted, started, stopSeen, reasoned, hasYielded} \subseteq BOOLEAN
    /\ {silent, elapsed, thinking, completed, full, opened, closed, live, tail} \subseteq Nat
    /\ reason \in {Nothing, "stream_idle", "attempt_too_long"}
    /\ cur \in Blocks \cup {Nothing} /\ kept \subseteq 1..opened
    /\ request \in {Nothing, "stream", "body"} /\ others \in Nat
    /\ reserved \in {Nothing, "other", "stream", "gone"} /\ {claimed, exposed} \subseteq BOOLEAN
    /\ err \in Errors \cup {Nothing} /\ tried \subseteq {"peer", "refresh"}
    /\ outcome \in {Nothing, "answer", "salvaged", "error", "abort"}

\* What the user has read since the last stall marker is the text of the
\* answer the agent loop records, whatever attempts, stalls and refreshed
\* tokens came before: no attempt's text is glued to another's.
LastSegmentIsAnswer == outcome \in {"answer", "salvaged"} => tail = full

\* However many other POSTs the provider made and in whatever order their
\* answers came, the stream whose body is being read is the one whose bytes
\* the watchdog counts, unless another POST was in flight when it was sent or
\* has failed before its headers.
BodyIsWatched == request = "body" => (claimed /\ reserved = Nothing) \/ exposed

\* A salvaged response holds no call whose arguments were still streaming
\* (adapter-legacy-stream.ts "never execute incomplete calls").
SalvagedCallsAreWhole == outcome = "salvaged" => live \notin kept

\* attempt-progress.ts: once a tool call is closed "the original request body
\* must never be replayed".
CallsAreNotReplayed ==
    [][pc # "streaming" /\ pc' = "streaming" => completed = 0]_vars

\* No attempt whose message_stop does not come lasts for ever, not even one
\* whose stream never falls silent (watchdog.ts "the hard attempt ceiling
\* remains the ultimate bound").
AttemptEnds == pc = "streaming" /\ ~stopSeen ~> pc # "streaming" \/ stopSeen

\* An abort ends the send, from any layer.
AbortEnds == aborted ~> pc = "done"
=============================================================================
