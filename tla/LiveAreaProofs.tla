---------------------------- MODULE LiveAreaProofs ----------------------------
(***************************************************************************)
(* What the live area and the event bus promise for any slots, listeners,  *)
(* events and bounds: one open call per slot, a display that never goes    *)
(* back, and coalesced listeners that end up with the latest payload.      *)
(***************************************************************************)
EXTENDS LiveArea, SequenceTheorems, TLAPS

USE ListenersAssumption, EmitsAssumption, SlotsAssumption, TicksAssumption

-----------------------------------------------------------------------------
(* One slot                                                                 *)

\* The calls whose latch is open: one, while the gate is held.
Gated(r) ==
    LET open == {c \in r.calls : ~c.late} IN
    /\ r.firing <=> open # {}
    /\ \A c, d \in open : c = d

\* The open call is the slot's last, and what is shown is of no later one.
InOrder(r) ==
    /\ \A c \in r.calls : ~c.late => c.tick = r.tick
    /\ r.shown.tick <= r.tick

\* What stop() will clear is armed.
Armed(r) == r.held => r.timers > 0

SlotInv(r) == r \in Slot /\ Gated(r) /\ InOrder(r) /\ Armed(r)

\* A slot's display goes forward, and stands still once the scheduler stopped.
GoesForward(r, q) == q.shown.tick >= r.shown.tick /\ (stopped => q.shown = r.shown)

\* Another timer changes neither the calls nor the display.
LEMMA ScheduledKeeps ==
  ASSUME NEW r, SlotInv(r)
  PROVE  SlotInv(Scheduled(r)) /\ Scheduled(r).shown = r.shown
<1>1. CASE stopped
  BY <1>1 DEF Scheduled
<1>2. CASE ~stopped
  <2>1. Scheduled(r) = [r EXCEPT !.timers = @ + 1, !.held = TRUE]
    BY <1>2 DEF Scheduled
  <2>2. r \in Slot /\ r.timers + 1 \in Nat /\ r.timers \in Nat
    BY DEF SlotInv, Slot
  <2>3. Scheduled(r) \in Slot
    BY <2>1, <2>2 DEF Slot
  <2>4. /\ Scheduled(r).timers = r.timers + 1 /\ Scheduled(r).calls = r.calls
        /\ Scheduled(r).shown = r.shown
    BY <2>1, <2>2 DEF Slot
  <2>5. Scheduled(r).firing = r.firing /\ Scheduled(r).tick = r.tick
    BY <2>1, <2>2 DEF Slot
  <2> QED
    BY <2>2, <2>3, <2>4, <2>5 DEF SlotInv, Gated, InOrder, Armed
<1> QED
  BY <1>1, <1>2

\* A call that is begun is the slot's last, and the only open one.
LEMMA FiredKeeps ==
  ASSUME NEW r, SlotInv(r), stopped \/ r.firing \/ r.tick < MaxTicks
  PROVE  SlotInv(Fired(r)) /\ Fired(r).shown = r.shown
<1>1. CASE stopped \/ r.firing
  BY <1>1, ScheduledKeeps DEF Fired
<1>2. CASE ~stopped /\ ~r.firing
  <2> DEFINE call == [tick |-> r.tick + 1, late |-> FALSE]
  <2>1. Fired(r) = [r EXCEPT !.tick = @ + 1, !.firing = TRUE, !.calls = @ \cup {call}]
    BY <1>2 DEF Fired
  <2>2. r \in Slot /\ r.tick \in 0..MaxTicks /\ r.tick < MaxTicks /\ r.shown.tick \in 0..MaxTicks
    BY <1>2 DEF SlotInv, Slot
  <2>3. call \in Call /\ ~call.late /\ call.tick = r.tick + 1
    BY <2>2 DEF Call
  <2>4. \A c \in r.calls : c.late
    BY <1>2 DEF SlotInv, Gated
  <2> HIDE DEF call
  <2>5. /\ Fired(r) \in Slot
        /\ Fired(r).tick = r.tick + 1 /\ Fired(r).firing = TRUE
        /\ Fired(r).calls = r.calls \cup {call}
        /\ Fired(r).shown = r.shown /\ Fired(r).held = r.held /\ Fired(r).timers = r.timers
    <3>1. r.tick + 1 \in 0..MaxTicks /\ r.calls \cup {call} \in SUBSET Call
      BY <2>2, <2>3 DEF Slot
    <3>2. Fired(r) \in Slot
      BY <2>1, <2>2, <3>1 DEF Slot
    <3>3. Fired(r).tick = r.tick + 1 /\ Fired(r).firing = TRUE /\ Fired(r).calls = r.calls \cup {call}
      BY <2>1, <2>2 DEF Slot
    <3>4. Fired(r).shown = r.shown /\ Fired(r).held = r.held /\ Fired(r).timers = r.timers
      BY <2>1, <2>2 DEF Slot
    <3> QED
      BY <3>2, <3>3, <3>4
  <2>6. Gated(Fired(r))
    BY <2>3, <2>4, <2>5 DEF Gated
  <2>7. InOrder(Fired(r)) /\ Armed(Fired(r))
    BY <2>2, <2>3, <2>4, <2>5 DEF SlotInv, InOrder, Armed
  <2> QED
    BY <2>5, <2>6, <2>7 DEF SlotInv
<1> QED
  BY <1>1, <1>2

\* The outcome of the open call frees the gate and is the newest there is.
LEMMA HandledKeeps ==
  ASSUME stopped \in BOOLEAN, NEW r, SlotInv(r), NEW call \in r.calls, ~call.late,
         NEW out \in {"value", "null", "failure"}
  PROVE  /\ SlotInv(Handled(r, call, out)) /\ GoesForward(r, Handled(r, call, out))
         /\ Handled(r, call, out).calls = r.calls \ {call}
         /\ Handled(r, call, out).firing = FALSE
<1> DEFINE freed == [r EXCEPT !.firing = FALSE, !.calls = @ \ {call},
                              !.failed = @ \/ out = "failure"]
           painted == [freed EXCEPT !.shown = [tick |-> call.tick, value |-> out = "value"],
                                    !.failed = @ /\ out # "value"]
<1>1. r \in Slot /\ call \in Call
  BY DEF SlotInv, Slot
<1>2. /\ freed \in Slot
      /\ freed.firing = FALSE /\ freed.calls = r.calls \ {call} /\ freed.tick = r.tick
      /\ freed.shown = r.shown /\ freed.held = r.held /\ freed.timers = r.timers
  BY <1>1 DEF Slot
<1>3. call.tick = r.tick /\ r.shown.tick <= r.tick /\ \A c \in r.calls \ {call} : c.late
  BY DEF SlotInv, Gated, InOrder
<1>4. SlotInv(freed)
  <2> HIDE DEF freed
  <2> QED
    BY <1>2, <1>3 DEF SlotInv, Gated, InOrder, Armed
<1>5. CASE stopped
  <2>1. Handled(r, call, out) = freed
    BY <1>5 DEF Handled
  <2> HIDE DEF freed
  <2> QED
    BY <1>1, <1>2, <1>4, <2>1 DEF GoesForward, Slot
<1>6. CASE ~stopped
  <2>1. /\ painted \in Slot
        /\ painted.firing = FALSE /\ painted.calls = r.calls \ {call} /\ painted.tick = r.tick
        /\ painted.shown.tick = call.tick /\ painted.held = r.held /\ painted.timers = r.timers
    <3> HIDE DEF freed
    <3>1. /\ [tick |-> call.tick, value |-> out = "value"] \in [tick : 0..MaxTicks, value : BOOLEAN]
          /\ (freed.failed /\ out # "value") \in BOOLEAN
      BY <1>1 DEF Call
    <3>2. painted \in Slot
      BY <1>2, <3>1 DEF Slot
    <3>3. painted.firing = freed.firing /\ painted.calls = freed.calls /\ painted.tick = freed.tick
      BY <1>2 DEF Slot
    <3>4. painted.shown.tick = call.tick /\ painted.held = freed.held /\ painted.timers = freed.timers
      BY <1>2 DEF Slot
    <3> QED
      BY <1>2, <3>2, <3>3, <3>4
  <2>2. Handled(r, call, out) = Scheduled(painted)
    BY <1>6 DEF Handled
  <2> HIDE DEF freed, painted
  <2>3. SlotInv(painted)
    BY <1>1, <1>3, <2>1 DEF SlotInv, Gated, InOrder, Armed, Slot
  <2>4. Scheduled(painted).calls = painted.calls /\ Scheduled(painted).firing = painted.firing
    BY <2>1 DEF Scheduled, Slot
  <2> QED
    BY <1>3, <1>6, <2>1, <2>2, <2>3, <2>4, ScheduledKeeps DEF GoesForward
<1> QED
  BY <1>5, <1>6

\* A call that timed out is open no more, and its answer changes nothing.
LEMMA LatchKeeps ==
  ASSUME NEW r, SlotInv(r), NEW call \in Call, call.late, NEW left \in SUBSET Call,
         left = r.calls \cup {call} \/ left = r.calls \ {call}
  PROVE  SlotInv([r EXCEPT !.calls = left]) /\ [r EXCEPT !.calls = left].shown = r.shown
<1> DEFINE q == [r EXCEPT !.calls = left]
<1>1. r \in Slot
  BY DEF SlotInv
<1>2. /\ q \in Slot /\ q.calls = left /\ q.firing = r.firing /\ q.tick = r.tick
      /\ q.shown = r.shown /\ q.held = r.held /\ q.timers = r.timers
  BY <1>1 DEF Slot
<1> HIDE DEF q
<1>3. {c \in q.calls : ~c.late} = {c \in r.calls : ~c.late}
  BY <1>2
<1> SUFFICES SlotInv(q) /\ q.shown = r.shown
  BY DEF q
<1> QED
  BY <1>2, <1>3 DEF SlotInv, Gated, InOrder, Armed

-----------------------------------------------------------------------------
(* The slots of the live area                                               *)

AreaInv == /\ SlotTypeOK
           /\ DOMAIN slot = Slots
           /\ \A s \in Slots : SlotInv(slot[s])

\* Every slot takes a step that keeps it, forward.
SlotsStep ==
    /\ slot' \in [Slots -> Slot]
    /\ \A s \in Slots : SlotInv(slot'[s]) /\ GoesForward(slot[s], slot'[s])

\* One slot that takes such a step is as good as all.
LEMMA OneSlotSteps ==
  ASSUME AreaInv, NEW s \in Slots, NEW q, slot' = [slot EXCEPT ![s] = q],
         SlotInv(q), GoesForward(slot[s], q)
  PROVE  SlotsStep
<1>1. slot \in [Slots -> Slot] /\ q \in Slot
  BY DEF AreaInv, SlotTypeOK, SlotInv
<1>2. slot' \in [Slots -> Slot] /\ slot'[s] = q /\ \A u \in Slots \ {s} : slot'[u] = slot[u]
  BY <1>1
<1>3. \A u \in Slots : slot[u].shown.tick >= slot[u].shown.tick
  BY <1>1 DEF Slot
<1> QED
  BY <1>2, <1>3 DEF SlotsStep, AreaInv, GoesForward

\* Slots that stay as they are do not go back.
LEMMA SlotsStay ==
  ASSUME AreaInv, UNCHANGED slot
  PROVE  SlotsStep
<1>1. slot \in [Slots -> Slot] /\ \A u \in Slots : slot[u].shown.tick >= slot[u].shown.tick
  BY DEF AreaInv, SlotTypeOK, Slot
<1> QED
  BY <1>1 DEF SlotsStep, AreaInv, GoesForward

\* A timer or an event fires the slot, a call answers or times out: in each
\* case the slot goes forward.
LEMMA SlotActions ==
  ASSUME AreaInv, NEW s \in Slots,
         \/ TimerFires(s) \/ EventFires(s) \/ TimesOut(s)
         \/ \E call \in slot[s].calls, out \in {"value", "null", "failure"} :
               Answers(s, call, out)
  PROVE  SlotsStep /\ UNCHANGED <<stopped, sub>>
<1> DEFINE r == slot[s]
<1>0. SlotInv(r) /\ r \in Slot /\ stopped \in BOOLEAN /\ slot \in [Slots -> Slot]
  BY DEF AreaInv, SlotTypeOK, SlotInv
<1>1. CASE TimerFires(s)
  <2> DEFINE q == [r EXCEPT !.timers = @ - 1, !.held = FALSE]
  <2>1. r.timers \in Nat /\ r.timers > 0
    BY <1>0, <1>1 DEF TimerFires, Slot
  <2>2. r.timers - 1 \in Nat
    BY <2>1
  <2>3. q \in Slot
    BY <1>0, <2>2 DEF Slot
  <2>4. /\ q.calls = r.calls /\ q.firing = r.firing /\ q.tick = r.tick
        /\ q.shown = r.shown /\ q.held = FALSE
    BY <1>0 DEF Slot
  <2>5. slot' = [slot EXCEPT ![s] = Fired(q)] /\ CanFire(s)
    BY <1>1, Zenon DEF TimerFires
  <2> HIDE DEF q
  <2>6. SlotInv(q)
    BY <1>0, <2>3, <2>4 DEF SlotInv, Gated, InOrder, Armed
  <2>7. SlotInv(Fired(q)) /\ Fired(q).shown = r.shown
    BY <2>4, <2>5, <2>6, FiredKeeps DEF CanFire
  <2>8. GoesForward(r, Fired(q))
    BY <1>0, <2>7 DEF GoesForward, Slot
  <2> QED
    BY <1>1, <2>5, <2>7, <2>8, OneSlotSteps DEF TimerFires, busVars
<1>2. CASE EventFires(s)
  <2>1. CanFire(s) /\ UNCHANGED <<stopped, sub>>
    BY <1>2 DEF EventFires, Deliver
  <2>2. CASE Hears(s)
    <3>1. slot' = [slot EXCEPT ![s] = Fired(r)]
      BY <1>0, <1>2, <2>2 DEF EventFires
    <3>2. SlotInv(Fired(r)) /\ Fired(r).shown = r.shown
      BY <1>0, <2>1, FiredKeeps DEF CanFire
    <3>3. GoesForward(r, Fired(r))
      BY <1>0, <3>2 DEF GoesForward, Slot
    <3> QED
      BY <2>1, <3>1, <3>2, <3>3, OneSlotSteps
  <2>3. CASE ~Hears(s)
    BY <1>2, <2>1, <2>3, SlotsStay DEF EventFires
  <2> QED
    BY <2>2, <2>3
<1>3. ASSUME NEW call \in r.calls, NEW out \in {"value", "null", "failure"}, Answers(s, call, out)
      PROVE  SlotsStep /\ UNCHANGED <<stopped, sub>>
  <2>1. CASE call.late
    <3>1. slot' = [slot EXCEPT ![s] = [r EXCEPT !.calls = r.calls \ {call}]]
      BY <1>3, <2>1, Zenon DEF Answers
    <3>2. call \in Call /\ r.calls \ {call} \in SUBSET Call
      BY <1>0 DEF Slot
    <3>3. /\ SlotInv([r EXCEPT !.calls = r.calls \ {call}])
          /\ [r EXCEPT !.calls = r.calls \ {call}].shown = r.shown
      BY <1>0, <2>1, <3>2, LatchKeeps
    <3>4. GoesForward(r, [r EXCEPT !.calls = r.calls \ {call}])
      BY <1>0, <3>3 DEF GoesForward, Slot
    <3> QED
      BY <1>3, <3>1, <3>3, <3>4, OneSlotSteps DEF Answers, busVars
  <2>2. CASE ~call.late
    <3>1. slot' = [slot EXCEPT ![s] = Handled(r, call, out)]
      BY <1>0, <1>3, <2>2 DEF Answers
    <3>2. SlotInv(Handled(r, call, out)) /\ GoesForward(r, Handled(r, call, out))
      BY <1>0, <2>2, HandledKeeps
    <3> QED
      BY <1>3, <3>1, <3>2, OneSlotSteps DEF Answers, busVars
  <2> QED
    BY <2>1, <2>2
<1>4. CASE TimesOut(s)
  <2>1. PICK call \in r.calls :
           /\ ~call.late
           /\ slot' = [slot EXCEPT ![s] =
                  [Handled(r, call, "failure") EXCEPT !.calls = @ \cup {[call EXCEPT !.late = TRUE]}]]
           /\ UNCHANGED <<busVars, stopped>>
    BY <1>4, Zenon DEF TimesOut
  <2> DEFINE q == Handled(r, call, "failure")
             late == [call EXCEPT !.late = TRUE]
  <2>2. SlotInv(q) /\ GoesForward(r, q)
    BY <1>0, <2>1, HandledKeeps
  <2>3. late \in Call /\ late.late
    BY <1>0 DEF Slot, Call
  <2> HIDE DEF q, late
  <2>4. q.calls \cup {late} \in SUBSET Call
    BY <2>2, <2>3 DEF SlotInv, Slot
  <2>5. /\ SlotInv([q EXCEPT !.calls = q.calls \cup {late}])
        /\ [q EXCEPT !.calls = q.calls \cup {late}].shown = q.shown
    BY <2>2, <2>3, <2>4, LatchKeeps
  <2>6. GoesForward(r, [q EXCEPT !.calls = q.calls \cup {late}])
    BY <2>2, <2>5 DEF GoesForward
  <2>7. slot' = [slot EXCEPT ![s] = [q EXCEPT !.calls = q.calls \cup {late}]]
    BY <2>1 DEF q, late
  <2> QED
    BY <2>1, <2>5, <2>6, <2>7, OneSlotSteps DEF busVars
<1> QED
  BY <1>1, <1>2, <1>3, <1>4

-----------------------------------------------------------------------------
(* The event bus                                                            *)

Message == [payload : Nat \ {0}, to : SUBSET Listeners]

BusTypes ==
    /\ sub \in [Listeners -> {"new", "on", "off"}] /\ inFlight \subseteq Coalesced
    /\ queue \in Seq(Message) /\ sent \in Nat
    /\ {pending, latest, seen} \subseteq [Listeners -> Nat]
    /\ recent \subseteq Throttled

Eager == Coalesced \ Throttled

\* Message k is the last one on its way to l.
LastFor(k, l) ==
    /\ k \in DOMAIN queue /\ l \in queue[k].to
    /\ \A j \in DOMAIN queue : j > k => l \notin queue[j].to

Awaits(l) == \E k \in DOMAIN queue : l \in queue[k].to

\* A payload is put aside only behind a running call.
SlotBehindCall == \A l \in Eager : pending[l] # 0 => l \in inFlight

\* The latest payload of a listener is the last on its way; else the one put
\* aside; else the one it was called with.
LatestIsSomewhere ==
    \A l \in Eager : sub[l] = "on" =>
        /\ \A k \in DOMAIN queue : LastFor(k, l) => queue[k].payload = latest[l]
        /\ Awaits(l) \/ (pending[l] # 0 /\ pending[l] = latest[l])
                      \/ (pending[l] = 0 /\ seen[l] = latest[l])

\* Nothing was emitted to a listener before it subscribed.
Unheard ==
    \A l \in Eager : sub[l] = "new" =>
        ~Awaits(l) /\ latest[l] = 0 /\ seen[l] = 0 /\ pending[l] = 0

BusInv == BusTypes /\ SlotBehindCall /\ LatestIsSomewhere /\ Unheard

\* Once nothing is on its way to a listener that is not running, it has been
\* called with the latest payload.
LEMMA BusCatchesUp == BusInv => CatchesUp
  BY DEF BusInv, SlotBehindCall, LatestIsSomewhere, Awaits, CatchesUp, Eager

\* At first nothing has been emitted.
LEMMA BusInitInv == BusInit => BusInv
<1> SUFFICES ASSUME BusInit PROVE BusInv
  OBVIOUS
<1>1. /\ queue = <<>> /\ queue \in Seq(Message) /\ DOMAIN queue = {} /\ sent = 0
      /\ inFlight = {} /\ recent \subseteq Throttled
      /\ sub \in [Listeners -> {"new", "on", "off"}]
  BY DEF BusInit
<1>2. /\ {pending, latest, seen} \subseteq [Listeners -> Nat]
      /\ \A l \in Listeners : pending[l] = 0 /\ latest[l] = 0 /\ seen[l] = 0
  BY DEF BusInit
<1>3. Eager \subseteq Listeners
  BY DEF Eager
<1> QED
  BY <1>1, <1>2, <1>3 DEF BusInv, BusTypes, SlotBehindCall, LatestIsSomewhere, Unheard, Awaits

\* What leaves the messages, the slots and the calls alone, and subscribes
\* only listeners that are new, keeps the invariant.
LEMMA SubscriptionInv ==
  ASSUME BusInv, sub' \in [Listeners -> {"new", "on", "off"}],
         \A l \in Listeners : /\ sub'[l] = "on" => sub[l] \in {"new", "on"}
                              /\ sub'[l] = "new" => sub[l] = "new",
         recent' \subseteq recent,
         UNCHANGED <<queue, inFlight, pending, sent, latest, seen>>
  PROVE  BusInv'
<1> USE DEF BusInv
<1>0. Eager \subseteq Listeners
  BY DEF Eager
<1>1. BusTypes' /\ SlotBehindCall'
  BY DEF BusTypes, SlotBehindCall
<1>2. LatestIsSomewhere'
  <2> SUFFICES ASSUME NEW l \in Eager, sub'[l] = "on"
               PROVE  /\ \A k \in DOMAIN queue : LastFor(k, l) => queue[k].payload = latest[l]
                      /\ Awaits(l) \/ (pending[l] # 0 /\ pending[l] = latest[l])
                                    \/ (pending[l] = 0 /\ seen[l] = latest[l])
    BY DEF LatestIsSomewhere, LastFor, Awaits
  <2>1. sub[l] \in {"new", "on"}
    BY <1>0
  <2> QED
    BY <2>1 DEF LatestIsSomewhere, Unheard, Awaits, LastFor
<1>3. Unheard'
  BY <1>0 DEF Unheard, Awaits
<1> QED
  BY <1>1, <1>2, <1>3

\* An emitted payload is the last on its way to each listener of the moment.
LEMMA EmitInv ==
  ASSUME BusInv, NEW event, Emit(event)
  PROVE  BusInv'
<1> USE DEF BusInv
<1> DEFINE to == {l \in Listeners : sub[l] = "on" /\ EventOf[l] = event}
           n == Len(queue)
<1>1. /\ sent' = sent + 1
      /\ queue' = Append(queue, [payload |-> sent + 1, to |-> to])
      /\ latest' = [l \in Listeners |-> IF l \in to THEN sent + 1 ELSE latest[l]]
      /\ UNCHANGED <<sub, inFlight, pending, recent, disposed, seen>>
  BY DEF Emit
<1>2. sent \in Nat /\ queue \in Seq(Message) /\ n \in Nat /\ DOMAIN queue = 1..n
  BY DEF BusTypes
<1>3. [payload |-> sent + 1, to |-> to] \in Message
  BY <1>2 DEF Message
<1> HIDE DEF n
<1>4. /\ queue' \in Seq(Message) /\ DOMAIN queue' = 1..(n + 1)
      /\ \A k \in 1..n : queue'[k] = queue[k]
      /\ queue'[n + 1] = [payload |-> sent + 1, to |-> to]
  BY <1>1, <1>2, <1>3 DEF n
<1>5. queue'[n + 1].payload = sent + 1 /\ queue'[n + 1].to = to
  BY <1>4
<1> HIDE DEF to
<1>6. BusTypes'
  BY <1>1, <1>2, <1>4 DEF BusTypes
<1>7. SlotBehindCall'
  BY <1>1 DEF SlotBehindCall
<1>8. LatestIsSomewhere'
  <2> SUFFICES ASSUME NEW l \in Eager, sub[l] = "on"
               PROVE  /\ \A k \in DOMAIN queue' : LastFor(k, l)' => queue'[k].payload = latest'[l]
                      /\ Awaits(l)' \/ (pending[l] # 0 /\ pending[l] = latest'[l])
                                     \/ (pending[l] = 0 /\ seen[l] = latest'[l])
    BY <1>1 DEF LatestIsSomewhere
  <2>0. l \in Listeners
    BY DEF Eager
  <2>1. CASE l \in to
    <3>1. latest'[l] = sent + 1 /\ Awaits(l)'
      BY <1>1, <1>2, <1>4, <1>5, <2>0, <2>1 DEF Awaits
    <3>2. \A k \in DOMAIN queue' : LastFor(k, l)' => k = n + 1
      BY <1>2, <1>4, <1>5, <2>1 DEF LastFor
    <3> QED
      BY <1>5, <3>1, <3>2
  <2>2. CASE l \notin to
    <3>1. latest'[l] = latest[l]
      BY <1>1, <2>0, <2>2
    <3>2. \A k \in DOMAIN queue' : l \in queue'[k].to => k \in 1..n /\ l \in queue[k].to
      BY <1>2, <1>4, <1>5, <2>2
    <3>3. \A k \in DOMAIN queue' : LastFor(k, l)' => LastFor(k, l) /\ queue'[k] = queue[k]
      BY <1>2, <1>4, <3>2 DEF LastFor
    <3>4. Awaits(l) => Awaits(l)'
      BY <1>2, <1>4 DEF Awaits
    <3>5. /\ \A k \in DOMAIN queue : LastFor(k, l) => queue[k].payload = latest[l]
          /\ Awaits(l) \/ (pending[l] # 0 /\ pending[l] = latest[l])
                        \/ (pending[l] = 0 /\ seen[l] = latest[l])
      BY DEF LatestIsSomewhere
    <3>6. \A k \in DOMAIN queue' : LastFor(k, l)' => queue'[k].payload = latest[l]
      BY <3>3, <3>5 DEF LastFor
    <3> QED
      BY <3>1, <3>4, <3>5, <3>6
  <2> QED
    BY <2>1, <2>2
<1>9. Unheard'
  <2> SUFFICES ASSUME NEW l \in Eager, sub[l] = "new"
               PROVE  ~Awaits(l)' /\ latest'[l] = 0
    BY <1>1 DEF Unheard
  <2>1. l \in Listeners /\ l \notin to
    BY DEF Eager, to
  <2> QED
    BY <1>1, <1>2, <1>4, <1>5, <2>1 DEF Unheard, Awaits
<1> QED
  BY <1>6, <1>7, <1>8, <1>9

\* Replacing the head of a queue of messages leaves the rest of it.
LEMMA HeadReplaced ==
  ASSUME NEW q \in Seq(Message), q # <<>>, NEW e \in Message, NEW r, r = [q EXCEPT ![1] = e]
  PROVE  /\ r \in Seq(Message) /\ DOMAIN r = 1..Len(q)
         /\ r[1] = e /\ \A k \in 2..Len(q) : r[k] = q[k]
<1>1. 1 \in 1..Len(q)
  OBVIOUS
<1>2. r \in Seq(Message)
  BY <1>1, ExceptSeq
<1>3. Len(r) = Len(q)
  BY <1>1, ExceptSeq
<1>4. r[1] = e /\ \A k \in 2..Len(q) : r[k] = q[k]
  OBVIOUS
<1> QED
  BY <1>2, <1>3, <1>4

\* So does taking listeners off its head.
LEMMA HeadShrinks ==
  ASSUME queue \in Seq(Message), queue # <<>>, NEW rest, [queue[1] EXCEPT !.to = rest] \in Message,
         queue' = [queue EXCEPT ![1] = [queue[1] EXCEPT !.to = rest]]
  PROVE  /\ queue' \in Seq(Message) /\ DOMAIN queue' = 1..Len(queue)
         /\ queue'[1] = [queue[1] EXCEPT !.to = rest]
         /\ \A k \in 2..Len(queue) : queue'[k] = queue[k]
<1>1. PICK e : e = [queue[1] EXCEPT !.to = rest]
  OBVIOUS
<1>2. e \in Message /\ queue' = [queue EXCEPT ![1] = e]
  BY <1>1
<1> QED
  BY <1>1, <1>2, HeadReplaced

\* The head message has reached one listener: what is on its way to the
\* others, and behind the head, is as before.
LEMMA HeadMoves ==
  ASSUME queue \in Seq(Message), queue # <<>>, NEW m \in Listeners, m \in Head(queue).to,
         queue' = IF Head(queue).to \ {m} = {} THEN Tail(queue)
                  ELSE [queue EXCEPT ![1].to = Head(queue).to \ {m}]
  PROVE  /\ queue' \in Seq(Message)
         /\ \A l \in Listeners \ {m} : Awaits(l) => Awaits(l)'
         /\ \A l \in Listeners : Awaits(l)' => Awaits(l)
         /\ \A l \in Listeners, k \in DOMAIN queue' : LastFor(k, l)' =>
               \E j \in DOMAIN queue : LastFor(j, l) /\ queue[j].payload = queue'[k].payload
         /\ ~Awaits(m)' => LastFor(1, m)
<1> DEFINE n == Len(queue)
           rest == Head(queue).to \ {m}
<1>1. n \in Nat /\ n > 0 /\ DOMAIN queue = 1..n /\ Head(queue) = queue[1] /\ queue[1] \in Message
  OBVIOUS
<1>2. CASE rest = {}
  <2>1. queue' = Tail(queue)
    BY <1>2
  <2>2. /\ queue' \in Seq(Message) /\ DOMAIN queue' = 1..(n - 1)
        /\ \A k \in 1..(n - 1) : queue'[k] = queue[k + 1]
    <3>1. queue' \in Seq(Message) /\ Len(queue') = n - 1
      BY <2>1, HeadTailProperties
    <3>2. \A k \in 1..Len(queue') : queue'[k] = queue[k + 1]
      BY <2>1, HeadTailProperties
    <3> QED
      BY <3>1, <3>2
  <2>3. queue[1].to = {m}
    BY <1>1, <1>2
  <2> HIDE DEF n
  <2>4. \A l \in Listeners \ {m} : Awaits(l) => Awaits(l)'
    <3> SUFFICES ASSUME NEW l \in Listeners \ {m}, NEW k \in 1..n, l \in queue[k].to
                 PROVE  Awaits(l)'
      BY <1>1 DEF Awaits
    <3>1. k # 1 /\ k - 1 \in 1..(n - 1) /\ queue'[k - 1] = queue[k]
      BY <1>1, <2>2, <2>3
    <3> QED
      BY <2>2, <3>1 DEF Awaits
  <2>5. \A l \in Listeners : Awaits(l)' => Awaits(l)
    <3> SUFFICES ASSUME NEW l \in Listeners, NEW k \in 1..(n - 1), l \in queue'[k].to
                 PROVE  Awaits(l)
      BY <2>2 DEF Awaits
    <3>1. k + 1 \in 1..n /\ queue'[k] = queue[k + 1]
      BY <1>1, <2>2
    <3> QED
      BY <1>1, <3>1 DEF Awaits
  <2>6. ASSUME NEW l \in Listeners, NEW k \in DOMAIN queue', LastFor(k, l)'
        PROVE  LastFor(k + 1, l) /\ queue[k + 1].payload = queue'[k].payload
    <3>1. k \in 1..(n - 1) /\ k + 1 \in 1..n /\ queue'[k] = queue[k + 1] /\ l \in queue[k + 1].to
      BY <1>1, <2>2, <2>6 DEF LastFor
    <3>2. ASSUME NEW j \in 1..n, j > k + 1 PROVE l \notin queue[j].to
      <4>1. j - 1 \in 1..(n - 1) /\ j - 1 > k /\ queue'[j - 1] = queue[j]
        BY <1>1, <2>2, <3>1, <3>2
      <4> QED
        BY <2>2, <2>6, <4>1 DEF LastFor
    <3> QED
      BY <1>1, <3>1, <3>2 DEF LastFor
  <2>7. ~Awaits(m)' => LastFor(1, m)
    <3> SUFFICES ASSUME ~Awaits(m)', NEW j \in 1..n, j > 1 PROVE m \notin queue[j].to
      BY <1>1, <2>3 DEF LastFor
    <3>1. j - 1 \in 1..(n - 1) /\ queue'[j - 1] = queue[j]
      BY <1>1, <2>2
    <3> QED
      BY <2>2, <3>1 DEF Awaits
  <2>8. \A l \in Listeners, k \in DOMAIN queue' : LastFor(k, l)' =>
           \E j \in DOMAIN queue : LastFor(j, l) /\ queue[j].payload = queue'[k].payload
    <3> SUFFICES ASSUME NEW l \in Listeners, NEW k \in DOMAIN queue', LastFor(k, l)'
                 PROVE  \E j \in DOMAIN queue : LastFor(j, l) /\ queue[j].payload = queue'[k].payload
      OBVIOUS
    <3>1. LastFor(k + 1, l) /\ queue[k + 1].payload = queue'[k].payload
      BY <2>6
    <3>2. k + 1 \in DOMAIN queue
      BY <3>1 DEF LastFor
    <3> QED
      BY <3>1, <3>2
  <2> QED
    BY <2>2, <2>4, <2>5, <2>7, <2>8
<1>3. CASE rest # {}
  <2>1. queue' = [queue EXCEPT ![1] = [queue[1] EXCEPT !.to = rest]]
    <3>1. queue' = [queue EXCEPT ![1].to = rest]
      BY <1>3
    <3> QED
      BY <3>1
  <2>2. rest \in SUBSET Listeners
    BY <1>1 DEF Message
  <2>3. [queue[1] EXCEPT !.to = rest] \in Message
    BY <1>1, <2>2 DEF Message
  <2>4. /\ queue' \in Seq(Message) /\ DOMAIN queue' = 1..n
        /\ queue'[1] = [queue[1] EXCEPT !.to = rest]
        /\ \A k \in 2..n : queue'[k] = queue[k]
    BY <2>1, <2>3, HeadShrinks
  <2>5. queue'[1].to = queue[1].to \ {m} /\ queue'[1].payload = queue[1].payload
    BY <1>1, <2>4 DEF Message
  <2> HIDE DEF n, rest
  <2>6. \A k \in 1..n : /\ queue'[k].payload = queue[k].payload
                        /\ \A l \in Listeners : l \in queue'[k].to => l \in queue[k].to
                        /\ \A l \in Listeners \ {m} : l \in queue[k].to => l \in queue'[k].to
                        /\ k # 1 => queue'[k] = queue[k]
    BY <1>1, <2>4, <2>5
  <2>7. /\ \A l \in Listeners \ {m} : Awaits(l) => Awaits(l)'
        /\ \A l \in Listeners : Awaits(l)' => Awaits(l)
    BY <1>1, <2>4, <2>6 DEF Awaits
  <2>8. \A l \in Listeners, k \in DOMAIN queue' : LastFor(k, l)' =>
           LastFor(k, l) /\ queue[k].payload = queue'[k].payload
    BY <1>1, <2>4, <2>6 DEF LastFor
  <2>9. ~Awaits(m)' => LastFor(1, m)
    BY <1>1, <2>4, <2>6 DEF LastFor, Awaits
  <2> QED
    BY <1>1, <2>4, <2>7, <2>8, <2>9
<1> QED
  BY <1>2, <1>3

\* What is on its way to a listener after the head has moved on is what was,
\* and the latest payload of a listener that still awaits one is as far.
LEMMA DeliverInv ==
  ASSUME BusInv, NEW m \in Listeners, NEW async \in BOOLEAN, Deliver(m, async)
  PROVE  BusInv'
<1> USE DEF BusInv
<1>0. /\ queue \in Seq(Message) /\ queue # <<>> /\ m \in Head(queue).to
      /\ queue' = IF Head(queue).to \ {m} = {} THEN Tail(queue)
                  ELSE [queue EXCEPT ![1].to = Head(queue).to \ {m}]
      /\ UNCHANGED <<sub, disposed, sent, latest>>
  BY DEF Deliver, BusTypes
<1>1. /\ queue' \in Seq(Message)
      /\ \A l \in Listeners \ {m} : Awaits(l) => Awaits(l)'
      /\ \A l \in Listeners : Awaits(l)' => Awaits(l)
      /\ \A l \in Listeners, k \in DOMAIN queue' : LastFor(k, l)' =>
            \E j \in DOMAIN queue : LastFor(j, l) /\ queue[j].payload = queue'[k].payload
      /\ ~Awaits(m)' => LastFor(1, m)
  BY <1>0, HeadMoves
<1>2. 1 \in DOMAIN queue /\ Head(queue) = queue[1] /\ queue[1] \in Message /\ Awaits(m)
  BY <1>0 DEF Awaits
<1> DEFINE load == queue[1].payload
<1>3. load \in Nat \ {0}
  BY <1>2 DEF Message
<1>4. \/ /\ sub[m] = "on" /\ m \notin inFlight /\ seen' = [seen EXCEPT ![m] = load]
         /\ pending' = pending /\ inFlight' \in {inFlight \cup {m}, inFlight \ {m}}
         /\ (m \notin Coalesced => inFlight' = inFlight \ {m})
         /\ recent' = IF m \in Throttled THEN recent \cup {m} ELSE recent
      \/ /\ Live(m) /\ m \in inFlight /\ pending' = [pending EXCEPT ![m] = load]
         /\ UNCHANGED <<seen, recent, inFlight>>
      \/ ~Live(m) /\ UNCHANGED <<pending, seen, recent, inFlight>>
  <2>1. CASE Hears(m)
    BY <1>2, <2>1 DEF Deliver, Hears, Live, Invoke
  <2>2. CASE ~Hears(m)
    BY <1>0, <1>2, <2>2 DEF Deliver, Hears, Stash
  <2> QED
    BY <2>1, <2>2
<1> HIDE DEF load
<1>5. BusTypes'
  <2>0. pending \in [Listeners -> Nat] /\ seen \in [Listeners -> Nat]
    BY DEF BusTypes
  <2>1. pending' \in [Listeners -> Nat] /\ seen' \in [Listeners -> Nat]
    <3>1. \A f \in [Listeners -> Nat] : [f EXCEPT ![m] = load] \in [Listeners -> Nat]
      BY <1>3
    <3>2. pending' \in {pending, [pending EXCEPT ![m] = load]}
      BY <1>4
    <3>3. seen' \in {seen, [seen EXCEPT ![m] = load]}
      BY <1>4
    <3> QED
      BY <2>0, <3>1, <3>2, <3>3
  <2>2. inFlight' \subseteq Coalesced /\ recent' \subseteq Throttled
    BY <1>4 DEF BusTypes
  <2> QED
    BY <1>0, <1>1, <2>1, <2>2 DEF BusTypes
<1>6. SlotBehindCall'
  <2> SUFFICES ASSUME NEW l \in Eager, pending'[l] # 0 PROVE l \in inFlight'
    BY DEF SlotBehindCall
  <2>1. CASE l = m
    BY <1>3, <1>4, <2>1 DEF SlotBehindCall, BusTypes, Eager
  <2>2. CASE l # m
    BY <1>4, <2>2 DEF SlotBehindCall, BusTypes, Eager
  <2> QED
    BY <2>1, <2>2
<1>7. \A l \in Eager \ {m} : pending'[l] = pending[l] /\ seen'[l] = seen[l]
  BY <1>4 DEF BusTypes, Eager
<1>8. LatestIsSomewhere'
  <2> SUFFICES ASSUME NEW l \in Eager, sub[l] = "on"
               PROVE  /\ \A k \in DOMAIN queue' : LastFor(k, l)' => queue'[k].payload = latest[l]
                      /\ Awaits(l)' \/ (pending'[l] # 0 /\ pending'[l] = latest[l])
                                     \/ (pending'[l] = 0 /\ seen'[l] = latest[l])
    BY <1>0 DEF LatestIsSomewhere
  <2>0. l \in Listeners /\ l \notin Throttled
    BY DEF Eager
  <2>1. /\ \A k \in DOMAIN queue : LastFor(k, l) => queue[k].payload = latest[l]
        /\ Awaits(l) \/ (pending[l] # 0 /\ pending[l] = latest[l])
                      \/ (pending[l] = 0 /\ seen[l] = latest[l])
    BY DEF LatestIsSomewhere
  <2>2. \A k \in DOMAIN queue' : LastFor(k, l)' => queue'[k].payload = latest[l]
    BY <1>1, <2>0, <2>1
  <2>3. CASE l # m
    BY <1>1, <1>7, <2>0, <2>1, <2>2, <2>3
  <2>4. CASE l = m
    <3> SUFFICES ASSUME ~Awaits(m)'
                 PROVE  \/ pending'[m] # 0 /\ pending'[m] = latest[m]
                        \/ pending'[m] = 0 /\ seen'[m] = latest[m]
      BY <2>2, <2>4
    <3>1. load = latest[m]
      BY <1>1, <1>2, <2>1, <2>4 DEF load
    <3>2. Live(m)
      BY <2>0, <2>4 DEF Live, BusTypes
    <3>3. m \notin inFlight => pending[m] = 0
      BY <2>4 DEF SlotBehindCall
    <3> QED
      BY <1>3, <1>4, <2>0, <3>1, <3>2, <3>3 DEF BusTypes
  <2> QED
    BY <2>3, <2>4
<1>9. Unheard'
  <2> SUFFICES ASSUME NEW l \in Eager, sub[l] = "new"
               PROVE  ~Awaits(l)' /\ seen'[l] = 0 /\ pending'[l] = 0 /\ latest[l] = 0
    BY <1>0 DEF Unheard
  <2>1. ~Awaits(l) /\ latest[l] = 0 /\ seen[l] = 0 /\ pending[l] = 0 /\ l \in Listeners
    BY DEF Unheard, Eager
  <2> QED
    BY <1>1, <1>2, <1>7, <2>1
<1> QED
  BY <1>5, <1>6, <1>8, <1>9

\* A call that ends takes what was put aside with it.
LEMMA SettleInv ==
  ASSUME BusInv, NEW m \in Listeners, NEW async \in BOOLEAN, Settle(m, async)
  PROVE  BusInv'
<1> USE DEF BusInv
<1>0. Eager \subseteq Listeners
  BY DEF Eager
<1>1. /\ m \in Coalesced /\ pending' = [pending EXCEPT ![m] = 0]
      /\ UNCHANGED <<sub, queue, disposed, sent, latest>>
      /\ \/ /\ pending[m] # 0 /\ seen' = [seen EXCEPT ![m] = pending[m]]
            /\ recent' = IF m \in Throttled THEN recent \cup {m} ELSE recent
         \/ pending[m] = 0 /\ UNCHANGED <<seen, recent>>
      /\ inFlight' \in {inFlight \cup {m}, inFlight \ {m}}
  BY DEF Settle, Invoke, BusTypes
<1>2. BusTypes'
  BY <1>1 DEF BusTypes
<1>3. SlotBehindCall'
  BY <1>0, <1>1 DEF SlotBehindCall, BusTypes
<1>4. LatestIsSomewhere'
  <2> SUFFICES ASSUME NEW l \in Eager, sub[l] = "on"
               PROVE  /\ \A k \in DOMAIN queue : LastFor(k, l) => queue[k].payload = latest[l]
                      /\ Awaits(l) \/ (pending'[l] # 0 /\ pending'[l] = latest[l])
                                    \/ (pending'[l] = 0 /\ seen'[l] = latest[l])
    BY <1>1 DEF LatestIsSomewhere, LastFor, Awaits
  <2>1. /\ \A k \in DOMAIN queue : LastFor(k, l) => queue[k].payload = latest[l]
        /\ Awaits(l) \/ (pending[l] # 0 /\ pending[l] = latest[l])
                      \/ (pending[l] = 0 /\ seen[l] = latest[l])
    BY DEF LatestIsSomewhere
  <2>2. l # m => pending'[l] = pending[l] /\ seen'[l] = seen[l]
    BY <1>0, <1>1 DEF BusTypes
  <2>3. pending'[m] = 0 /\ seen'[m] = IF pending[m] # 0 THEN pending[m] ELSE seen[m]
    BY <1>1 DEF BusTypes
  <2> QED
    BY <2>1, <2>2, <2>3
<1>5. Unheard'
  <2> SUFFICES ASSUME NEW l \in Eager, sub[l] = "new"
               PROVE  pending'[l] = 0 /\ seen'[l] = 0
    BY <1>1 DEF Unheard, Awaits
  <2>1. seen[l] = 0 /\ pending[l] = 0 /\ l \in Listeners
    BY <1>0 DEF Unheard
  <2> QED
    BY <1>1, <2>1 DEF BusTypes
<1> QED
  BY <1>2, <1>3, <1>4, <1>5

-----------------------------------------------------------------------------
(* The live area on its bus                                                 *)

IInv == AreaInv /\ BusInv

\* Every slot is fired at the start.
LEMMA InitInv == Init => IInv
<1> SUFFICES ASSUME Init PROVE IInv
  OBVIOUS
<1> DEFINE r == [tick |-> 0, firing |-> FALSE, calls |-> {}, timers |-> 0, held |-> FALSE,
                 shown |-> [tick |-> 0, value |-> FALSE], failed |-> FALSE]
<1>1. BusInv
  BY BusInitInv DEF Init
<1>2. stopped = FALSE /\ slot = [s \in Slots |-> Fired(r)]
  BY DEF Init
<1>3. SlotInv(r) /\ r.tick < MaxTicks
  <2>1. r \in Slot
    BY DEF Slot
  <2>2. r.calls = {} /\ r.firing = FALSE /\ r.tick = 0 /\ r.shown.tick = 0 /\ r.held = FALSE
    OBVIOUS
  <2> HIDE DEF r
  <2> QED
    BY <2>1, <2>2 DEF SlotInv, Gated, InOrder, Armed
<1> HIDE DEF r
<1>4. SlotInv(Fired(r)) /\ Fired(r) \in Slot
  BY <1>3, FiredKeeps DEF SlotInv
<1>5. SlotTypeOK
  BY <1>1, <1>2, <1>4 DEF SlotTypeOK, SlotInv, Gated, BusInv, BusTypes
<1> QED
  BY <1>1, <1>2, <1>4, <1>5 DEF IInv, AreaInv

\* stop() clears the timer that is armed, and nothing that is shown.
LEMMA StopSteps ==
  ASSUME AreaInv, Stop
  PROVE  SlotsStep
<1> SUFFICES ASSUME NEW s \in Slots
             PROVE  slot'[s] \in Slot /\ SlotInv(slot'[s]) /\ slot'[s].shown = slot[s].shown
  <2>1. slot' \in [Slots -> Slot]
    BY DEF Stop
  <2> QED
    BY <2>1 DEF SlotsStep, GoesForward, AreaInv, SlotInv, Slot
<1> DEFINE r == slot[s]
           n == IF r.held THEN r.timers - 1 ELSE r.timers
           q == [r EXCEPT !.timers = n, !.held = FALSE]
<1>1. SlotInv(r) /\ r \in Slot
  BY DEF AreaInv, SlotInv
<1>2. slot'[s] = q
  BY DEF Stop
<1>3. n \in Nat
  BY <1>1 DEF SlotInv, Armed, Slot
<1> HIDE DEF n
<1>4. q \in Slot
  BY <1>1, <1>3 DEF Slot
<1>5. q.calls = r.calls /\ q.firing = r.firing /\ q.tick = r.tick /\ q.shown = r.shown /\ q.held = FALSE
  BY <1>1 DEF Slot
<1> HIDE DEF q
<1>6. SlotInv(q)
  BY <1>1, <1>4, <1>5 DEF SlotInv, Gated, InOrder, Armed
<1> QED
  BY <1>2, <1>4, <1>5, <1>6

\* Every step takes the slots forward and keeps the bus.
LEMMA NextSteps ==
  ASSUME IInv, [Next]_vars
  PROVE  SlotsStep /\ BusInv' /\ stopped' \in BOOLEAN
<1> USE DEF IInv
<1>0. stopped \in BOOLEAN /\ sub \in [Listeners -> {"new", "on", "off"}]
  BY DEF AreaInv, SlotTypeOK
<1>1. CASE UNCHANGED vars
  <2>1. UNCHANGED <<slot, stopped, sub, queue, inFlight, pending, recent, sent, latest, seen>>
    BY <1>1 DEF vars, busVars
  <2> QED
    BY <1>0, <2>1, SlotsStay, SubscriptionInv
<1>2. CASE Stop
  <2>1. SlotsStep
    BY <1>2, StopSteps
  <2>2. BusInv' /\ stopped' \in BOOLEAN
    BY <1>0, <1>2, SubscriptionInv DEF Stop
  <2> QED
    BY <2>1, <2>2
<1>3. CASE BusOnly
  <2>1. SlotsStep /\ stopped' \in BOOLEAN
    BY <1>0, <1>3, SlotsStay DEF BusOnly
  <2>2. ASSUME NEW l \in Plugins, Subscribe(l) \/ Unsubscribe(l) \/ WindowPasses(l) PROVE BusInv'
    BY <1>0, <2>2, SubscriptionInv DEF Subscribe, Unsubscribe, WindowPasses, Plugins
  <2>3. ASSUME Dispose PROVE BusInv'
    BY <1>0, <2>3, SubscriptionInv DEF Dispose
  <2>4. ASSUME NEW l \in Plugins, NEW async \in BOOLEAN, Deliver(l, async) \/ Settle(l, async)
        PROVE  BusInv'
    BY <2>4, DeliverInv, SettleInv DEF Plugins
  <2> QED
    BY <1>3, <2>1, <2>2, <2>3, <2>4, EmitInv DEF BusOnly
<1>4. ASSUME NEW s \in Slots,
             \/ TimerFires(s) \/ EventFires(s) \/ TimesOut(s)
             \/ \E call \in slot[s].calls, out \in {"value", "null", "failure"} :
                   Answers(s, call, out)
      PROVE  SlotsStep /\ BusInv' /\ stopped' \in BOOLEAN
  <2>1. SlotsStep /\ stopped' \in BOOLEAN
    BY <1>0, <1>4, SlotActions
  <2>2. CASE EventFires(s)
    BY <2>1, <2>2, DeliverInv DEF EventFires
  <2>3. CASE ~EventFires(s)
    <3>1. UNCHANGED busVars
      BY <1>4, <2>3 DEF TimerFires, TimesOut, Answers
    <3>2. UNCHANGED <<sub, queue, inFlight, pending, recent, sent, latest, seen>>
      BY <3>1 DEF busVars
    <3> QED
      BY <1>0, <2>1, <3>2, SubscriptionInv
  <2> QED
    BY <2>2, <2>3
<1> QED
  BY <1>1, <1>2, <1>3, <1>4 DEF Next

\* Every step keeps the invariant, and shows nothing older than before.
LEMMA NextInv == IInv /\ [Next]_vars => IInv'
<1> SUFFICES ASSUME IInv, [Next]_vars PROVE IInv'
  OBVIOUS
<1>1. SlotsStep /\ BusInv' /\ stopped' \in BOOLEAN
  BY NextSteps
<1>2. SlotTypeOK'
  BY <1>1 DEF SlotTypeOK, SlotsStep, SlotInv, Gated, BusInv, BusTypes
<1> QED
  BY <1>1, <1>2 DEF IInv, AreaInv, SlotsStep

LEMMA Inductive == Spec => []IInv
  BY InitInv, NextInv, PTL DEF Spec

-----------------------------------------------------------------------------
(* Theorems                                                                 *)

\* The scheduler's state keeps its types, and a slot's gate is held by exactly one
\* call: a timeout or an answer frees it for the next, never for a second one.
THEOREM TypeCorrect == Spec => []SlotTypeOK
  BY Inductive, PTL DEF IInv, AreaInv

\* However emits, running calls and payloads put aside interleave, a coalesced
\* listener ends up called with the latest payload.
THEOREM EveryListenerCatchesUp == Spec => []CatchesUp
  BY Inductive, BusCatchesUp, PTL DEF IInv

\* No late answer, timeout, timer or event takes what a slot shows back to an
\* older call, and nothing changes it after stop().
THEOREM ShowsNewest == Spec => ShownIsNewest
<1>1. IInv /\ [Next]_vars =>
         [\A s \in Slots : /\ slot'[s].shown.tick >= slot[s].shown.tick
                           /\ stopped => slot'[s].shown = slot[s].shown]_vars
  BY NextSteps DEF SlotsStep, GoesForward
<1> QED
  BY <1>1, Inductive, PTL DEF Spec, ShownIsNewest
=============================================================================
