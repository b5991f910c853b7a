------------------------------- MODULE MCClients -------------------------------
(* Clients on two interchangeable readings of the conversation.              *)
EXTENDS Clients

Readings == Permutations(Terms)
=============================================================================
