----------------------------- MODULE MCAgentCore -----------------------------
(* Model-checking instances of AgentCore.                                   *)
EXTENDS AgentCore

\* What session restore may hand over: nothing, or a tool turn whose
\* continuation was lost and whose prompt went back to the editor.
NewOrRestored ==
    {<<>>,
     <<UserMsg({}, <<Prompt(0)>>),
       AssistantMsg({100}, <<>>),
       UserMsg({[id |-> 100, outcome |-> "ran"]}, <<>>)>>}
=============================================================================
