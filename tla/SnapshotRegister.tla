--------------------------- MODULE SnapshotRegister ---------------------------
(***************************************************************************)
(* What a reader of <sid>.queue (or <sid>.draft) may rely on, whatever the *)
(* writers buffer, coalesce or lose: the path always shows one complete    *)
(* snapshot, each change shows a snapshot its process saved in its present *)
(* life, and one process's snapshots appear in the order of its saves.     *)
(***************************************************************************)
EXTENDS Naturals

CONSTANTS Proc, MaxSaves

VARIABLES
    contents,  \* the snapshot a reader finds
    issued,    \* issued[p]: what p has saved since it started
    landed,    \* landed[p]: number of p's newest snapshot ever shown
    saves      \* save numbers given out

vars == <<contents, issued, landed, saves>>

Init ==
    /\ contents = [ver |-> 0, empty |-> TRUE]
    /\ issued = [p \in Proc |-> {}]
    /\ landed = [p \in Proc |-> 0]
    /\ saves = 0

\* A process asks for a snapshot to be kept.
Issue(p) ==
    \E e \in BOOLEAN :
        /\ saves < MaxSaves
        /\ saves' = saves + 1
        /\ issued' = [issued EXCEPT ![p] = @ \cup {[ver |-> saves + 1, empty |-> e]}]
        /\ UNCHANGED <<contents, landed>>

\* A snapshot newer than the process's last one becomes visible, at once.
Publish(p) ==
    \E s \in issued[p] :
        /\ s.ver > landed[p]
        /\ contents' = s
        /\ landed' = [landed EXCEPT ![p] = s.ver]
        /\ UNCHANGED <<issued, saves>>

\* The process dies: what it had not published will never be.
Forget(p) ==
    /\ issued' = [issued EXCEPT ![p] = {}]
    /\ UNCHANGED <<contents, landed, saves>>

Next == \E p \in Proc : Issue(p) \/ Publish(p) \/ Forget(p)

Spec == Init /\ [][Next]_vars
=============================================================================
