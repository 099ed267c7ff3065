------------------------------ MODULE LiveArea ------------------------------
(***************************************************************************)
(* The live area's scheduler (src/src/host/ui/status/live-area-scheduler.ts)*)
(* on the event bus.  A plugin's slot is called at start, by its timer and *)
(* by the events it asked for; a call may answer, fail, answer late or     *)
(* never, and a timeout frees the slot.  Calls are numbered by their tick. *)
(***************************************************************************)
EXTENDS EventBus

CONSTANTS
    Slots,      \* live-area slots, each with one refreshOn event
    MaxTicks    \* bound: calls of a slot

ASSUME SlotsAssumption == Slots \subseteq Listeners \ (Coalesced \cup Throttled)
ASSUME TicksAssumption == MaxTicks \in Nat \ {0}

VARIABLES
    slot,       \* SlotState, with the calls and timers that refer to it
    stopped
vars == <<busVars, slot, stopped>>

Plugins == Listeners \ Slots
Events  == {EventOf[l] : l \in Listeners}

\* tick: calls begun.  firing: SlotState.inFlight.  calls: promises not
\* settled, "late" once the timeout has set their latch.  timers: refresh
\* timers armed.  held: s.timer is one of them.  shown: the call whose
\* outcome is painted, and whether it had a value.
Call == [tick : 1..MaxTicks, late : BOOLEAN]
Slot == [tick : 0..MaxTicks, firing : BOOLEAN, calls : SUBSET Call, timers : Nat,
         held : BOOLEAN, shown : [tick : 0..MaxTicks, value : BOOLEAN], failed : BOOLEAN]

\* scheduleNext(): another timer, whether or not one is armed.
Scheduled(s) == IF stopped THEN s ELSE [s EXCEPT !.timers = @ + 1, !.held = TRUE]

\* fire(): a slot whose last call holds the gate is only scheduled again.
Fired(s) ==
    IF stopped THEN s ELSE IF s.firing THEN Scheduled(s) ELSE
    [s EXCEPT !.tick = @ + 1, !.firing = TRUE,
              !.calls = @ \cup {[tick |-> s.tick + 1, late |-> FALSE]}]

\* Mutant: handle() does not look whether the scheduler has stopped.
HandledAfterStop(s, call, out) ==
    Scheduled([s EXCEPT !.firing = FALSE, !.calls = @ \ {call},
                        !.shown = [tick |-> call.tick, value |-> out = "value"],
                        !.failed = out = "failure" \/ (@ /\ out # "value")])

\* handle() of a call whose latch is not set: out is a value, null, or null
\* after a failure.
Handled(s, call, out) ==
    LET freed == [s EXCEPT !.firing = FALSE, !.calls = @ \ {call},
                           !.failed = @ \/ out = "failure"] IN
    IF stopped THEN freed ELSE
    Scheduled([freed EXCEPT !.shown = [tick |-> call.tick, value |-> out = "value"],
                            !.failed = @ /\ out # "value"])

\* start(): the placeholder is painted, the listeners are on, and every slot
\* is fired.
Init ==
    /\ BusInit /\ \A s \in Slots : sub[s] = "on"
    /\ stopped = FALSE
    /\ slot = [s \in Slots |->
          Fired([tick |-> 0, firing |-> FALSE, calls |-> {}, timers |-> 0, held |-> FALSE,
                 shown |-> [tick |-> 0, value |-> FALSE], failed |-> FALSE])]

CanFire(s) == stopped \/ slot[s].firing \/ slot[s].tick < MaxTicks

-----------------------------------------------------------------------------
\* A refresh timer fires; s.timer is cleared whichever it was.
TimerFires(s) ==
    /\ slot[s].timers > 0 /\ CanFire(s)
    /\ slot' = [slot EXCEPT ![s] = Fired([slot[s] EXCEPT !.timers = @ - 1, !.held = FALSE])]
    /\ UNCHANGED <<busVars, stopped>>

\* A microtask of the bus reaches a slot's listener, which fires the slot.
EventFires(s) ==
    /\ CanFire(s)
    /\ Deliver(s, FALSE)
    /\ slot' = IF Hears(s) THEN [slot EXCEPT ![s] = Fired(@)] ELSE slot
    /\ UNCHANGED stopped

\* Mutant: no latch between the timeout and the answer.
AnswersUnlatched(s, call, out) ==
    /\ slot' = [slot EXCEPT ![s] = Handled(@, call, out)]
    /\ UNCHANGED <<busVars, stopped>>

\* A call's promise settles; once its latch is set nobody listens.
Answers(s, call, out) ==
    /\ slot' = [slot EXCEPT ![s] =
           IF call.late THEN [slot[s] EXCEPT !.calls = @ \ {call}]
                        ELSE Handled(slot[s], call, out)]
    /\ UNCHANGED <<busVars, stopped>>

\* Mutant: the timeout aborts the call and relies on its answer.
TimesOutTrusting(s) == UNCHANGED vars

\* The timeout aborts a call that does not answer within the two microtask
\* hops it is given: the gate is freed for it.
TimesOut(s) ==
    \E call \in slot[s].calls :
        /\ ~call.late
        /\ slot' = [slot EXCEPT ![s] =
               [Handled(slot[s], call, "failure") EXCEPT !.calls = @ \cup {[call EXCEPT !.late = TRUE]}]]
        /\ UNCHANGED <<busVars, stopped>>

\* stop(): of a slot's timers the one in s.timer is cleared.
Stop ==
    /\ ~stopped /\ stopped' = TRUE
    /\ sub' = [l \in Listeners |-> IF l \in Slots THEN "off" ELSE sub[l]]
    /\ slot' = [s \in Slots |->
           [slot[s] EXCEPT !.timers = IF slot[s].held THEN @ - 1 ELSE @, !.held = FALSE]]
    /\ UNCHANGED <<queue, inFlight, pending, recent, disposed, sent, latest, seen>>

-----------------------------------------------------------------------------
BusOnly ==
    /\ \/ Dispose
       \/ \E e \in Events : Emit(e)
       \/ \E l \in Plugins :
             \/ Subscribe(l) \/ Unsubscribe(l) \/ WindowPasses(l)
             \/ \E async \in BOOLEAN : Deliver(l, async) \/ Settle(l, async)
    /\ UNCHANGED <<slot, stopped>>

Next ==
    \/ BusOnly \/ Stop
    \/ \E s \in Slots :
          \/ TimerFires(s) \/ EventFires(s) \/ TimesOut(s)
          \/ \E call \in slot[s].calls, out \in {"value", "null", "failure"} :
                Answers(s, call, out)

\* Timers fire.  Nothing is asked of the plugins: a call may never settle.
Fairness == \A s \in Slots : WF_vars(TimerFires(s)) /\ WF_vars(TimesOut(s))
Spec == Init /\ [][Next]_vars /\ Fairness

-----------------------------------------------------------------------------
(* Properties                                                               *)

\* The slots, the subscriptions and the calls in flight keep their types, and a
\* slot has at most one call whose latch is open, the one that holds its gate.
SlotTypeOK ==
    /\ slot \in [Slots -> Slot] /\ stopped \in BOOLEAN
    /\ sub \in [Listeners -> {"new", "on", "off"}] /\ inFlight \subseteq Coalesced
    /\ \A s \in Slots :
          LET open == {c \in slot[s].calls : ~c.late} IN
          /\ slot[s].firing <=> open # {}
          /\ \A c, d \in open : c = d

\* What a slot shows never goes back to the outcome of an older call, though
\* calls that timed out may answer after newer ones; after stop() it does not
\* change at all.
ShownIsNewest ==
    [][\A s \in Slots : /\ slot'[s].shown.tick >= slot[s].shown.tick
                        /\ stopped => slot'[s].shown = slot[s].shown]_vars

\* A slot goes on being called until the scheduler stops, whatever the
\* plugin's calls do and whatever events arrive (fire(): a stuck request
\* "would deadlock every refresh path until restart").
SlotRefreshes == \A s \in Slots : <>(stopped \/ slot[s].tick = MaxTicks)
=============================================================================
