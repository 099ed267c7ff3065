------------------------------ MODULE MCFileEdit ------------------------------
(* Model-checking instances of FileEdit: tool calls of two processes.       *)
EXTENDS FileEdit

CONSTANTS p1, p2

\* Two calls of one process, and one of another.
Calls == {<<p1, 1>>, <<p1, 2>>, <<p2, 1>>}
Home == [t \in Calls |-> t[1]]

Tools == [t \in Calls |-> IF t[2] = 1 THEN "Edit" ELSE "Write"]
=============================================================================
