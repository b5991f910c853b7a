----------------------------- MODULE MCWebClient -----------------------------
(* Two people and two prices, interchangeable: a reading may have the price   *)
(* or the roles wrong.                                                        *)
EXTENDS WebClient, TLC

CONSTANT Names

MCTerms == {[price |-> n, buyer |-> b, seller |-> s] :
               n \in Prices, b \in Names, s \in Names}
           \ {[price |-> n, buyer |-> b, seller |-> b] : n \in Prices, b \in Names}

Interchangeable == Permutations(Prices) \cup Permutations(Names)
=============================================================================
