------------------------------ MODULE EventBus ------------------------------
(***************************************************************************)
(* The plugins' event bus (src/src/plugins/event-bus.ts): emit() queues    *)
(* one microtask with the listeners of the moment; each delivery may be    *)
(* throttled, put aside while the listener's last call is still running,   *)
(* or made.  A listener is one subscription; payloads are numbered in the  *)
(* order they were emitted.  What a listener does belongs to a module that *)
(* extends this one.                                                       *)
(***************************************************************************)
EXTENDS Naturals, Sequences

CONSTANTS
    Listeners,   \* subscriptions made while the bus lives
    EventOf,     \* the event each is for
    Coalesced,   \* those with {coalesce: true}
    Throttled,   \* those with a throttleMs
    MaxEmits     \* bound: payloads emitted

ASSUME ListenersAssumption == Coalesced \cup Throttled \subseteq Listeners
ASSUME EmitsAssumption == MaxEmits \in Nat

VARIABLES
    sub,        \* whether the listener is in the map: not yet, now, no more
    queue,      \* microtasks not finished, oldest first
    inFlight,   \* coalesced listeners whose last call is still running
    pending,    \* ListenerEntry.pending; 0 when null
    recent,     \* throttled listeners invoked less than throttleMs ago
    disposed,
    sent,       \* history: payloads emitted
    latest,     \* history: the last payload emitted to each listener
    seen        \* history: the last payload each was invoked with

busVars == <<sub, queue, inFlight, pending, recent, disposed, sent, latest, seen>>

\* lastInvokedAt is 0 and the clock starts with the process: a young process
\* may be inside a window that no call opened.
BusInit ==
    /\ sub \in [Listeners -> {"new", "on"}]
    /\ queue = <<>> /\ inFlight = {} /\ pending = [l \in Listeners |-> 0]
    /\ recent \in SUBSET Throttled
    /\ disposed = FALSE
    /\ sent = 0 /\ latest = [l \in Listeners |-> 0] /\ seen = [l \in Listeners |-> 0]

-----------------------------------------------------------------------------
\* on(): nothing once the bus is disposed.
Subscribe(l) ==
    /\ sub[l] = "new" /\ ~disposed
    /\ sub' = [sub EXCEPT ![l] = "on"]
    /\ UNCHANGED <<queue, inFlight, pending, recent, disposed, sent, latest, seen>>

\* The handle on() returned: the entry leaves the map, and keeps its slot.
Unsubscribe(l) ==
    /\ sub[l] = "on"
    /\ sub' = [sub EXCEPT ![l] = "off"]
    /\ UNCHANGED <<queue, inFlight, pending, recent, disposed, sent, latest, seen>>

Dispose ==
    /\ ~disposed /\ disposed' = TRUE
    /\ sub' = [l \in Listeners |-> IF sub[l] = "on" THEN "off" ELSE sub[l]]
    /\ UNCHANGED <<queue, inFlight, pending, recent, sent, latest, seen>>

\* emit(): returns at once when nobody listens.
Emit(event) ==
    LET to == {l \in Listeners : sub[l] = "on" /\ EventOf[l] = event} IN
    /\ ~disposed /\ sent < MaxEmits /\ to # {}
    /\ sent' = sent + 1
    /\ queue' = Append(queue, [payload |-> sent + 1, to |-> to])
    /\ latest' = [l \in Listeners |-> IF l \in to THEN sent + 1 ELSE latest[l]]
    /\ UNCHANGED <<sub, inFlight, pending, recent, disposed, seen>>

\* invoke(): fn throws or returns at once, or leaves a promise.
Invoke(l, payload, async) ==
    /\ seen' = [seen EXCEPT ![l] = payload]
    /\ recent' = IF l \in Throttled THEN recent \cup {l} ELSE recent
    /\ inFlight' = IF async /\ l \in Coalesced THEN inFlight \cup {l} ELSE inFlight \ {l}

\* Mutant: the slot keeps the first payload put aside.
StashFirst(l) ==
    pending' = IF pending[l] = 0 THEN [pending EXCEPT ![l] = Head(queue).payload] ELSE pending

\* A payload that meets a running call overwrites the slot.
Stash(l) == pending' = [pending EXCEPT ![l] = Head(queue).payload]

Live(l) == sub[l] = "on" /\ l \notin recent

\* The head microtask comes to l, which is invoked.
Hears(l) == queue # <<>> /\ l \in Head(queue).to /\ Live(l) /\ l \notin inFlight

(***************************************************************************)
(* The head microtask comes to listener l: membership is looked up again,  *)
(* then the throttle window, then the slot.  It goes from listener to      *)
(* listener without a pause, but each touches its own entry only.          *)
(***************************************************************************)
Deliver(l, async) ==
    /\ queue # <<>> /\ l \in Head(queue).to
    /\ LET rest == Head(queue).to \ {l} IN
       queue' = IF rest = {} THEN Tail(queue) ELSE [queue EXCEPT ![1].to = rest]
    /\ IF Hears(l)
       THEN Invoke(l, Head(queue).payload, async) /\ UNCHANGED pending
       ELSE /\ IF Live(l) THEN Stash(l) ELSE UNCHANGED pending
            /\ UNCHANGED <<seen, recent, inFlight>>
    /\ UNCHANGED <<sub, disposed, sent, latest>>

\* The running call of a coalesced listener ends; the slot is drained, even
\* when the listener has been unsubscribed meanwhile.
Settle(l, async) ==
    /\ l \in inFlight
    /\ pending' = [pending EXCEPT ![l] = 0]
    /\ IF pending[l] # 0
       THEN Invoke(l, pending[l], async)
       ELSE inFlight' = inFlight \ {l} /\ UNCHANGED <<seen, recent>>
    /\ UNCHANGED <<sub, queue, disposed, sent, latest>>

\* throttleMs have passed since l's last call.
WindowPasses(l) ==
    /\ l \in recent /\ recent' = recent \ {l}
    /\ UNCHANGED <<sub, queue, inFlight, pending, disposed, sent, latest, seen>>

-----------------------------------------------------------------------------
(* Properties                                                               *)

\* However calls, emits and slots interleave, a coalesced listener that has
\* nothing running and nothing on its way was last called with the latest
\* payload (event-bus.ts "we want the listener to keep up with the latest").
\* A throttled one is let off: its window drops payloads for good.
CatchesUp ==
    \A l \in Coalesced \ Throttled :
        \/ sub[l] # "on" \/ l \in inFlight
        \/ \E k \in DOMAIN queue : l \in queue[k].to
        \/ seen[l] = latest[l]
=============================================================================
