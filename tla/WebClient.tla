------------------------------ MODULE WebClient ------------------------------
(***************************************************************************)
(* The web client from the first word to the frozen terms: the capture     *)
(* page proposes the deal, and the parties' phones take it from there.     *)
(* Whether the link was shared before the reading (a draft's page offers   *)
(* it) or will only be shared after the freeze is open at the start.       *)
(***************************************************************************)
EXTENDS CapturePage, Devices

VARIABLE linkShared

vars == <<captureVars, deviceVars, linkShared>>

Init ==
    /\ CaptureInit
    /\ DevicesInit
    /\ deal = NewDeal
    /\ linkShared \in BOOLEAN

\* A proposal that closes the session has moved the deal; what it proposes is
\* the witness's business (Reading).
DealFollows ==
    IF session'.closed /\ ~session.closed
    THEN \E terms \in Terms :
            \E t \in ProposeExtraction(deal, [name |-> "ProposeExtraction", terms |-> terms],
                                       "system", 0) :
               deal' = t.deal
    ELSE UNCHANGED deal

Capture ==
    /\ CaptureNext
    /\ DealFollows
    /\ UNCHANGED <<stored, active, pages, frozenAs, accepted, linkShared>>

\* The first phone navigates to the deal when it is proposed; another one needs
\* the link.
Phone ==
    /\ step = "left"
    /\ DevicesNext
    /\ \A d \in Phones \ {FirstPhone} : linkShared \/ UNCHANGED pages[d]
    /\ UNCHANGED <<captureVars, linkShared>>

Next == Capture \/ Phone

Spec == Init /\ [][Next]_vars
=============================================================================
