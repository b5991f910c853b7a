--------------------------- MODULE MCDealLifecycle ---------------------------
(* DealLifecycle on two interchangeable readings of the conversation.       *)
EXTENDS DealLifecycle, TLC

Readings == Permutations(Terms)
=============================================================================
