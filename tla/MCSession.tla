------------------------------ MODULE MCSession ------------------------------
(* Model-checking instances of Session: it starts with an empty log.        *)
EXTENDS Session

NewSession == {<<>>}
=============================================================================
