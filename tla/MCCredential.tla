----------------------------- MODULE MCCredential -----------------------------
(* A model-checking instance of Credential: two processes refreshing one    *)
(* entry under its lock, and a send of one of them with an entry of its own. *)
EXTENDS Credential

CONSTANTS p1, p2, q1, q2

Agents  == {<<p1, 1>>, <<p2, 1>>, <<p2, 2>>}
Host    == [t \in Task |-> t[1]]
Account == [t \in Task |-> IF t[2] = 1 THEN q1 ELSE q2]
Firsts  == {t \in Agents : t[2] = 1}
=============================================================================
