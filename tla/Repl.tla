--------------------------------- MODULE Repl ---------------------------------
(***************************************************************************)
(* The interactive host: the prompt queue, its snapshot on disk, the       *)
(* editor's buffer, the overlay that edits the queue, and the loop that    *)
(* runs one prompt after the other (src/src/host/repl-live-area.ts),       *)
(* composed with the keys of AbortQuit.                                    *)
(*                                                                         *)
(* Text is a set of fragments the user typed; a queued prompt is such a    *)
(* set, empty for the ones that carry no text.  The agent is what the host *)
(* sees of it: when a prompt reaches the session log, when a tool boundary *)
(* drains the queue, and how a run ends (AgentCore has the rest).  Saving  *)
(* the queue takes effect at once (SnapshotStore has the delays).          *)
(***************************************************************************)
EXTENDS AbortQuit, Sequences, SequencesExt

CONSTANTS
    MaxTyped,     \* bound: fragments typed in a behaviour
    MaxQueued,    \* bound: prompts queued by input at a time
    MaxRestarts   \* bound: restarts on the session in a behaviour

ASSUME ReplBounds == {MaxTyped, MaxQueued, MaxRestarts} \subseteq Nat

VARIABLES
    at,        \* where runReplLiveArea's loop stands
    queue,     \* queue
    saved,     \* what <sid>.queue holds
    nav,       \* queueNavIndex, from 1; 0 when the overlay is closed
    inflight,  \* the prompt the loop took
    buffer,    \* the editor's text
    logged,    \* fragments in the session log
    mode,      \* the mode note: delivered, or pending
    typed,     \* history: fragments typed
    submitted, \* history: fragments the host has accepted
    released,  \* history: fragments the user or a hook has taken away again
    handed,    \* history: fragments an abort has handed back to the editor
    restarts   \* history: restarts

queueVars == <<queue, saved, nav>>
ghosts == <<submitted, released, handed>>
vars == <<keyVars, at, queueVars, inflight, buffer, logged, mode, typed, ghosts, restarts>>

Fragments == 1..MaxTyped
Places == {"waiting", "loop", "starting", "preparing", "sent", "rounds", "settling",
           "recovering", "down"}

TextOf(items) == UNION ToSet(items)

\* The prompts that carry text, in their order: the k-th is the one with k of
\* them up to it.
WithText(items) ==
    LET kept == {i \in DOMAIN items : items[i] # {}}
        upTo(i) == {j \in kept : j <= i}
    IN  [k \in 1..Cardinality(kept) |->
            items[CHOOSE i \in kept : Cardinality(upTo(i)) = k]]

Init ==
    /\ fsm = "idle" /\ quick = FALSE /\ turn = "none"
    /\ at = "loop" /\ queue = <<>> /\ saved = <<>> /\ nav = 0
    /\ inflight = {} /\ buffer = {} /\ logged = {} /\ mode = "delivered"
    /\ typed = 0 /\ submitted = {} /\ released = {} /\ handed = {} /\ restarts = 0

-----------------------------------------------------------------------------
(* The queue                                                                *)

Alive == at # "down" /\ fsm # "quitting"

\* running: a turn is in flight, from its start to its finally block.
Running == at \in {"preparing", "sent", "rounds"}

\* Every change of the queue is saved.
SetQueue(items) == queue' = items /\ saved' = items

\* wakeWaiter.
Wake == at' = IF at = "waiting" THEN "loop" ELSE at

\* Mutant: the new prompt is not saved.
EnqueueUnsaved(text) ==
    /\ Len(queue) < MaxQueued
    /\ queue' = Append(queue, text) /\ UNCHANGED <<saved, nav>>
    /\ Wake
    /\ submitted' = submitted \cup text
    /\ released' = released \ text /\ handed' = handed \ text

\* Mutant: the loop is not woken.
EnqueueAsleep(text) ==
    /\ Len(queue) < MaxQueued
    /\ SetQueue(Append(queue, text)) /\ UNCHANGED <<nav, at>>
    /\ submitted' = submitted \cup text
    /\ released' = released \ text /\ handed' = handed \ text

\* enqueuePrompt: push, save, wake the loop.
Enqueue(text) ==
    /\ Len(queue) < MaxQueued
    /\ SetQueue(Append(queue, text)) /\ UNCHANGED nav
    /\ Wake
    /\ submitted' = submitted \cup text
    /\ released' = released \ text /\ handed' = handed \ text

-----------------------------------------------------------------------------
(* Keys and other input                                                     *)

\* A character; the open overlay swallows it.
Type ==
    /\ Alive /\ Engage
    /\ IF nav = 0 /\ typed < MaxTyped
       THEN typed' = typed + 1 /\ buffer' = buffer \cup {typed + 1}
       ELSE UNCHANGED <<typed, buffer>>
    /\ UNCHANGED <<at, queueVars, inflight, logged, mode, ghosts, restarts>>

\* Enter with the overlay closed; a blank prompt is ignored.
Submit ==
    /\ Alive /\ Engage /\ nav = 0 /\ buffer # {}
    /\ Enqueue(buffer) /\ buffer' = {}
    /\ UNCHANGED <<inflight, logged, mode, typed, restarts>>

\* /continue: a prompt without text.
Continue ==
    /\ Alive /\ Engage /\ nav = 0 /\ buffer = {}
    /\ Enqueue({})
    /\ UNCHANGED <<inflight, buffer, logged, mode, typed, restarts>>

\* prompt.inject: a plugin submits a prompt of its own.
Inject ==
    /\ Alive /\ typed < MaxTyped /\ typed' = typed + 1
    /\ Enqueue({typed + 1})
    /\ UNCHANGED <<keyVars, inflight, buffer, logged, mode, restarts>>

\* The i-th prompt goes back to the editor, to be edited.
Dequeue(i) ==
    /\ SetQueue(RemoveAt(queue, i)) /\ nav' = 0
    /\ buffer' = queue[i]
    /\ released' = released \cup queue[i]
    /\ UNCHANGED <<submitted, handed>>

\* Mutant: the row below the last one.
BottomPast == Len(queue) + 1

\* The most recently queued row, where the overlay opens.
Bottom == Len(queue)

\* The up arrow in an empty editor: one prompt comes back, more open the overlay.
ArrowUp ==
    /\ Alive /\ Engage /\ queue # <<>>
    /\ \/ nav = 0 /\ buffer = {} /\ Len(queue) = 1 /\ Dequeue(1)
       \/ /\ nav = 0 /\ buffer = {} /\ Len(queue) > 1
          /\ nav' = Bottom /\ UNCHANGED <<queue, saved, buffer, ghosts>>
       \/ /\ nav > 1
          /\ nav' = nav - 1 /\ UNCHANGED <<queue, saved, buffer, ghosts>>
    /\ UNCHANGED <<at, inflight, logged, mode, typed, restarts>>

Selected == IF nav <= Len(queue) THEN nav ELSE Len(queue)

\* Overlay, d or Enter; on a queue that is gone it still sets the buffer.
OverlayTakes ==
    /\ Alive /\ Engage /\ nav > 0
    /\ IF queue # <<>>
       THEN Dequeue(Selected)
       ELSE nav' = 0 /\ buffer' = {} /\ UNCHANGED <<queue, saved, ghosts>>
    /\ UNCHANGED <<at, inflight, logged, mode, typed, restarts>>

\* Overlay, x: the selected prompt is discarded.
OverlayDrops ==
    /\ Alive /\ Engage /\ nav > 0 /\ queue # <<>>
    /\ SetQueue(RemoveAt(queue, Selected))
    /\ nav' = IF Selected <= Len(queue) - 1 THEN Selected ELSE Len(queue) - 1
    /\ released' = released \cup queue[Selected]
    /\ UNCHANGED <<at, inflight, buffer, logged, mode, typed, submitted, handed, restarts>>

\* Overlay, k: every prompt goes back to the editor.
OverlayTakesAll ==
    /\ Alive /\ Engage /\ nav > 0
    /\ SetQueue(<<>>) /\ nav' = 0 /\ buffer' = TextOf(queue)
    /\ released' = released \cup TextOf(queue)
    /\ UNCHANGED <<at, inflight, logged, mode, typed, submitted, handed, restarts>>

\* The overlay closes before Escape can stop anything.
Escape ==
    /\ Alive
    /\ IF nav > 0 THEN nav' = 0 /\ quick' = FALSE /\ UNCHANGED <<fsm, turn>>
                  ELSE PressEsc /\ UNCHANGED nav
    /\ UNCHANGED <<at, queue, saved, inflight, buffer, logged, mode, typed, ghosts, restarts>>

CtrlC ==
    /\ Alive /\ PressCtrlC
    /\ UNCHANGED <<at, queueVars, inflight, buffer, logged, mode, typed, ghosts, restarts>>

Clock ==
    /\ at # "down" /\ (HatchCools \/ ArmedExpires)
    /\ UNCHANGED <<at, queueVars, inflight, buffer, logged, mode, typed, ghosts, restarts>>

\* Shift+Tab, forth to a mode the model does not know of, or back.
ToggleMode ==
    /\ Alive /\ Engage
    /\ mode' = IF mode = "delivered" THEN "pending" ELSE "delivered"
    /\ UNCHANGED <<at, queueVars, inflight, buffer, logged, typed, ghosts, restarts>>

\* Alt+M during a turn: an empty prompt is queued and the turn aborted, so
\* that the next turn delivers the mode.
InterruptForMode ==
    /\ Alive /\ Running /\ mode = "pending" /\ Len(queue) < MaxQueued
    /\ fsm' = Step(fsm, "printable") /\ quick' = FALSE
    /\ SetQueue(Append(queue, {})) /\ RequestAbort("interrupted")
    /\ UNCHANGED <<at, nav, inflight, buffer, logged, mode, typed, ghosts, restarts>>

\* A history edit was committed: the queued future goes with the old one.
Rewind ==
    /\ Alive
    /\ SetQueue(<<>>) /\ nav' = 0
    /\ released' = released \cup TextOf(queue)
    /\ UNCHANGED <<keyVars, at, inflight, buffer, logged, mode, typed, submitted, handed, restarts>>

Input ==
    \/ Type \/ Submit \/ Continue \/ Inject \/ ArrowUp \/ OverlayTakes \/ OverlayDrops
    \/ OverlayTakesAll \/ Escape \/ CtrlC \/ ToggleMode \/ InterruptForMode \/ Rewind

-----------------------------------------------------------------------------
(* The loop                                                                 *)

\* The loop's head: wait for a prompt, or take the oldest and save the rest.
Await ==
    /\ at = "loop" /\ fsm # "quitting" /\ queue = <<>>
    /\ at' = "waiting"
    /\ UNCHANGED <<keyVars, queueVars, inflight, buffer, logged, mode, typed, ghosts, restarts>>

Take ==
    /\ at = "loop" /\ fsm # "quitting" /\ queue # <<>>
    /\ inflight' = Head(queue) /\ SetQueue(Tail(queue))
    /\ at' = "starting"
    /\ UNCHANGED <<keyVars, nav, buffer, logged, mode, typed, ghosts, restarts>>

\* A turn.willStart hook halts the turn.
TurnHalted ==
    /\ at = "starting" /\ at' = "loop"
    /\ inflight' = {} /\ released' = released \cup inflight
    /\ UNCHANGED <<keyVars, queueVars, buffer, logged, mode, typed, submitted, handed, restarts>>

\* running = true; painting the decoration clamps the overlay's selection.
TurnStarts ==
    /\ at = "starting" /\ at' = "preparing"
    /\ TurnBegins
    /\ nav' = IF nav <= Len(queue) THEN nav ELSE Len(queue)
    /\ UNCHANGED <<queue, saved, inflight, buffer, logged, mode, typed, ghosts, restarts>>

\* run() has resolved the media of the prompt and logs it.
PromptLogged ==
    /\ at = "preparing" /\ at' = "sent"
    /\ logged' = logged \cup inflight /\ mode' = "delivered"
    /\ UNCHANGED <<keyVars, queueVars, inflight, buffer, typed, ghosts, restarts>>

\* A tool boundary: run() drains the queue into the turn and logs it.
Boundary ==
    /\ at \in {"sent", "rounds"} /\ at' = "rounds"
    /\ SetQueue(<<>>) /\ nav' = 0
    /\ logged' = logged \cup TextOf(queue)
    /\ mode' = "delivered"
    /\ UNCHANGED <<keyVars, inflight, buffer, typed, ghosts, restarts>>

\* run() is over: the turn leaves the bus and the machine, the overlay closes;
\* then the output still buffered is flushed.
RunEnds(how) ==
    /\ at \in {"sent", "rounds"}
    /\ at' = CASE turn # "on" \/ how = "aborted" -> "settling"
               [] how = "exceeded" /\ at = "sent" /\ inflight # {} -> "recovering"
               [] OTHER -> "loop"
    /\ TurnSettles /\ nav' = 0
    /\ inflight' = IF at' = "loop" THEN {} ELSE inflight
    /\ UNCHANGED <<queue, saved, buffer, logged, mode, typed, ghosts, restarts>>

\* The abort path: the prompt of the turn and all that is queued behind it
\* replace the editor's text.
HandBack ==
    /\ at = "settling" /\ at' = "loop"
    /\ SetQueue(<<>>) /\ UNCHANGED nav
    /\ buffer' = inflight \cup TextOf(queue)
    /\ handed' = handed \cup inflight \cup TextOf(queue)
    /\ inflight' = {}
    /\ UNCHANGED <<keyVars, logged, mode, typed, submitted, released, restarts>>

\* The context was exceeded: once compacted, the prompt is queued again.
Requeue ==
    /\ at = "recovering"
    /\ \/ SetQueue(Append(queue, inflight))
       \/ UNCHANGED <<queue, saved>>        \* the compaction failed
    /\ at' = "loop" /\ inflight' = {}
    /\ UNCHANGED <<keyVars, nav, buffer, logged, mode, typed, ghosts, restarts>>

Host ==
    \/ Await \/ Take \/ TurnHalted \/ TurnStarts \/ PromptLogged \/ HandBack \/ Requeue
    \/ \E how \in {"done", "failed", "exceeded", "aborted"} : RunEnds(how)

(***************************************************************************)
(* The process goes, by process.exit after a quit or killed.  A prompt     *)
(* taken and not yet logged goes with it, as the loop's comment accepts.   *)
(***************************************************************************)
Exit ==
    /\ at # "down" /\ at' = "down"
    /\ KeysReset
    /\ queue' = <<>> /\ nav' = 0 /\ buffer' = {} /\ inflight' = {} /\ mode' = "delivered"
    /\ released' = released \cup (inflight \ logged)
    /\ UNCHANGED <<saved, logged, typed, submitted, handed, restarts>>

Quit == fsm = "quitting" /\ Exit

\* The session is resumed: loadQueue leaves out the prompts without text.
Restart ==
    /\ at = "down" /\ restarts < MaxRestarts /\ restarts' = restarts + 1
    /\ queue' = WithText(saved)
    /\ at' = "loop"
    /\ UNCHANGED <<keyVars, saved, nav, inflight, buffer, logged, mode, typed, ghosts>>

Next == Input \/ Clock \/ Host \/ Boundary \/ Exit \/ Restart

Fairness == WF_vars(Host) /\ WF_vars(Quit)
Spec == Init /\ [][Next]_vars /\ Fairness

-----------------------------------------------------------------------------
(* Properties                                                               *)

\* Every variable keeps its type; the overlay is never open on a selection
\* outside the range the queue can have (a requeued prompt adds one to it).
ReplTypeOK ==
    /\ fsm \in FsmStates /\ quick \in BOOLEAN /\ turn \in Turns
    /\ at \in Places /\ mode \in {"delivered", "pending"}
    /\ {queue, saved} \subseteq Seq(SUBSET Fragments) /\ nav \in 0..MaxQueued+1
    /\ {inflight, buffer, logged, submitted, released, handed} \subseteq SUBSET Fragments
    /\ typed \in 0..MaxTyped /\ restarts \in 0..MaxRestarts

\* While a turn runs that nobody has aborted, Escape and Ctrl+C abort it: the
\* machine knows of the turn, whatever prompt, timer or turn came before.
TurnIsAbortable == turn = "on" => fsm \in {"working", "quitting"}

\* A prompt the host has accepted is in the saved queue, in the session log or
\* about to be logged, until the user or a hook takes it away or an abort hands
\* it back: through drains, requeues, rewinds, crashes and restarts.
NothingDropped ==
    submitted \ (released \cup handed)
        \subseteq TextOf(saved) \cup logged \cup inflight

\* No prompt waits in the queue for ever: it is taken, drained, handed back or
\* saved for the next process, whatever the user does meanwhile.
EveryPromptMoves ==
    \A f \in Fragments : f \in TextOf(queue) ~> f \notin TextOf(queue)

\* repl-live-area.ts "Persist the queue to <sid>.queue on every mutation so
\* submits typed during a busy turn survive process exit (clean Ctrl+C or
\* crash)".  Refuted: Ctrl+C first aborts the turn, which moves the queue into
\* the editor and clears the file; the Ctrl+C that quits loses the editor.
SubmitsSurviveExit == at = "down" => submitted \ released \subseteq TextOf(saved) \cup logged
=============================================================================
