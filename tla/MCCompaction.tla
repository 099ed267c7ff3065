----------------------------- MODULE MCCompaction -----------------------------
(* Model-checking instances of Compaction: it starts with an empty log.     *)
EXTENDS Compaction

NewSession == {<<>>}
=============================================================================
