----------------------------- MODULE MCLiveArea -----------------------------
(* A model-checking instance of LiveArea: a slot that refreshes on an event *)
(* a coalesced listener also hears, and a throttled listener.               *)
EXTENDS LiveArea

Subscriptions == {"quota", "ask", "meter"}
ListensFor == [l \in Subscriptions |-> IF l = "meter" THEN "input" ELSE "headers"]
=============================================================================
