------------------------------- MODULE Custody -------------------------------
(***************************************************************************)
(* What the escrow promises the two parties about the price of one deal:   *)
(* it lies with exactly one holder, it goes into escrow at most once, and  *)
(* it leaves only after the record says for whom, to nobody else, once.    *)
(* There are no requests, no retries and no rows here; HandshakeService is *)
(* shown to implement it, with the holder read off the ledger.             *)
(***************************************************************************)
VARIABLES
    holder,    \* who has the money: "buyer", "escrow" or "seller"
    verdict    \* whom the record of the deal names to get it, "none" before

vars == <<holder, verdict>>

Init == holder = "buyer" /\ verdict = "none"

\* Custody is taken before it is recorded, so no record is needed for it.
Deposit ==
    /\ holder = "buyer" /\ verdict = "none"
    /\ holder' = "escrow"
    /\ UNCHANGED verdict

Rule ==
    /\ holder = "escrow" /\ verdict = "none"
    /\ verdict' \in {"buyer", "seller"}
    /\ UNCHANGED holder

PayOut ==
    /\ holder = "escrow" /\ verdict # "none"
    /\ holder' = verdict
    /\ UNCHANGED verdict

Next == Deposit \/ Rule \/ PayOut

Spec == Init /\ [][Next]_vars
=============================================================================
