------------------------------ MODULE AbortQuit ------------------------------
(***************************************************************************)
(* The keys that stop a turn or the program: the abort/quit state machine  *)
(* (src/src/bus/abort-quit-fsm.ts), its escape hatch, the abort bus of the *)
(* turn in flight (src/src/bus/abort-bus.ts), and the editor that feeds    *)
(* the one and carries out its effects on the other.                       *)
(*                                                                         *)
(* The armed footer's timer runs exactly while the machine is armed:       *)
(* show-armed starts it, hide-armed and quit stop it.                      *)
(***************************************************************************)
EXTENDS Naturals

VARIABLES
    fsm,    \* EditorController.fsmState
    quick,  \* EscapeHatch: the last key was a Ctrl+C, less than 500 ms ago
    turn    \* AbortBus: no turn, one in flight, or one aborted, and by whom

keyVars == <<fsm, quick, turn>>

FsmStates == {"idle", "working", "armed", "quitting"}
Turns == {"none", "on", "stopped", "interrupted"}

\* step(): the state each input leads to; quitting absorbs every input.
Table ==
    [ctrlC     |-> [idle |-> "armed",   working |-> "armed",   armed |-> "quitting"],
     esc       |-> [idle |-> "idle",    working |-> "working", armed |-> "idle"],
     printable |-> [idle |-> "idle",    working |-> "working", armed |-> "idle"],
     turnStart |-> [idle |-> "working", working |-> "working", armed |-> "working"],
     turnEnd   |-> [idle |-> "idle",    working |-> "idle",    armed |-> "armed"],
     tick      |-> [idle |-> "idle",    working |-> "working", armed |-> "idle"]]

\* Mutant: a turn that starts while the quit prompt is up leaves it up.
StepStayingArmed(s, input) ==
    IF s = "quitting" \/ (s = "armed" /\ input = "turnStart") THEN s ELSE Table[input][s]

Step(s, input) == IF s = "quitting" THEN s ELSE Table[input][s]

\* The inputs whose effects include abort-turn.
AbortsTurn(s, input) == s = "working" /\ input \in {"ctrlC", "esc"}

\* requestAbort: the first request of a turn counts, others do nothing.
RequestAbort(who) == turn' = IF turn = "on" THEN who ELSE turn

\* feedFsm and applyEffects.
Feed(input) ==
    /\ fsm' = Step(fsm, input)
    /\ IF AbortsTurn(fsm, input) THEN RequestAbort("stopped") ELSE UNCHANGED turn

\* Any key but Ctrl+C and Escape: dismisses the quit prompt.
Engage == Feed("printable") /\ quick' = FALSE

\* Escape, when no overlay claims it.
PressEsc == Feed("esc") /\ quick' = FALSE

\* Ctrl+C: the escape hatch looks first, and quits whatever the machine says.
PressCtrlC ==
    /\ quick' = TRUE
    /\ IF quick THEN fsm' = "quitting" /\ UNCHANGED turn ELSE Feed("ctrlC")

\* 500 ms pass since the last Ctrl+C.
HatchCools == quick /\ quick' = FALSE /\ UNCHANGED <<fsm, turn>>

\* The armed window of 10 s closes.
ArmedExpires == fsm = "armed" /\ Feed("tick") /\ UNCHANGED quick

\* notifyTurnStart, then beginTurn.
TurnBegins ==
    /\ fsm' = Step(fsm, "turnStart")
    /\ turn' = "on"
    /\ UNCHANGED quick

\* endTurn, then notifyTurnEnd.
TurnSettles ==
    /\ turn' = "none"
    /\ fsm' = Step(fsm, "turnEnd")
    /\ UNCHANGED quick

\* The process is gone: the machine of the next one starts idle.
KeysReset == fsm' = "idle" /\ quick' = FALSE /\ turn' = "none"
=============================================================================
