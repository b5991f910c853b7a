------------------------- MODULE DealDeadlinesProofs -------------------------
(***************************************************************************)
(* What holds of DealDeadlines for every length of the windows and every   *)
(* bound: whenever nothing is under way, exactly the timer of the deal's   *)
(* state is armed, with the date the parties are shown.                    *)
(***************************************************************************)
EXTENDS DealDeadlines, DealLifecycleProofs

-----------------------------------------------------------------------------
(* Tables of timers.                                                       *)

OneArmed(kind, due) == [k \in TimerKinds |-> IF k = kind THEN due ELSE None]
NoneArmed           == [k \in TimerKinds |-> None]

\* The table that goes with a state entered at some instant.
ArmedFor(state, entered) ==
    [k \in TimerKinds |->
        IF state \in DOMAIN Awaits /\ Awaits[state] = k THEN entered + Window[k] ELSE None]

LEMMA ArmedForStates ==
    ASSUME NEW entered
    PROVE  /\ ArmedFor("PendingAgreement", entered)
                 = OneArmed("AgreementExpiry", entered + AgreementWindow)
           /\ ArmedFor("Agreed", entered) = OneArmed("FundingExpiry", entered + FundingWindow)
           /\ ArmedFor("Funded", entered) = OneArmed("HandoffDeadline", entered + HandoffWindow)
           /\ ArmedFor("HandoffProved", entered)
                 = OneArmed("ReceiptWindow", entered + ReceiptWindow)
           /\ ArmedFor("Holding", entered) = OneArmed("ReleaseHold", entered + ReleaseHold)
           /\ \A s \in {"Draft", "Completed", "Refunded", "Cancelled", "Expired", "Disputed",
                        "Resolved"} : ArmedFor(s, entered) = NoneArmed
<1>1. /\ Window["AgreementExpiry"] = AgreementWindow
      /\ Window["FundingExpiry"] = FundingWindow
      /\ Window["HandoffDeadline"] = HandoffWindow
      /\ Window["ReceiptWindow"] = ReceiptWindow
      /\ Window["ReleaseHold"] = ReleaseHold
  BY DEF Window, TimerKinds
<1>2. /\ DOMAIN Awaits = {"PendingAgreement", "Agreed", "Funded", "HandoffProved", "Holding"}
      /\ Awaits["PendingAgreement"] = "AgreementExpiry"
      /\ Awaits["Agreed"] = "FundingExpiry"
      /\ Awaits["Funded"] = "HandoffDeadline"
      /\ Awaits["HandoffProved"] = "ReceiptWindow"
      /\ Awaits["Holding"] = "ReleaseHold"
  BY DEF Awaits
<1> QED
  BY <1>1, <1>2 DEF ArmedFor, OneArmed, NoneArmed

-----------------------------------------------------------------------------
(* What each arm of transition() asks of the timers.                       *)

\* The deal moves between states and asks for these timers.
Asks(d, t, from, to, requests) ==
    d.state \in from /\ t.deal.state \in to /\ t.timers = requests

TimersOf(d, t, cmd, at) ==
    \/ Asks(d, t, {"Draft"}, {"PendingAgreement"},
            <<SetTimer("AgreementExpiry", at + AgreementWindow)>>)
    \/ /\ Asks(d, t, {"PendingAgreement"}, {"PendingAgreement"}, << >>)
       /\ cmd.name # "Expire"
    \/ Asks(d, t, {"PendingAgreement"}, {"Agreed"},
            <<CancelTimer("AgreementExpiry"), SetTimer("FundingExpiry", at + FundingWindow)>>)
    \/ Asks(d, t, {"Agreed"}, {"Funded"},
            <<CancelTimer("FundingExpiry"), SetTimer("HandoffDeadline", at + HandoffWindow)>>)
    \/ Asks(d, t, {"Funded"}, {"HandoffProved"},
            <<CancelTimer("HandoffDeadline"), SetTimer("ReceiptWindow", at + ReceiptWindow)>>)
    \/ Asks(d, t, {"HandoffProved"}, {"Holding"},
            <<CancelTimer("ReceiptWindow"), SetTimer("ReleaseHold", at + ReleaseHold)>>)
    \/ /\ Asks(d, t, {"HandoffProved"}, {"Holding"},
               <<SetTimer("ReleaseHold", at + ReleaseHold)>>)
       /\ cmd.name = "Expire"
    \/ Asks(d, t, {"Disputed"}, {"Holding"}, <<SetTimer("ReleaseHold", at + ReleaseHold)>>)
    \/ Asks(d, t, {"Holding"}, {"Completed"}, <<CancelTimer("ReleaseHold")>>)
    \/ Asks(d, t, {"Funded", "HandoffProved", "Holding"}, {"Disputed"},
            <<CancelTimer("ReleaseHold"), CancelTimer("ReceiptWindow"),
              CancelTimer("HandoffDeadline")>>)
    \/ Asks(d, t, {"Disputed"}, {"Resolved"}, << >>)
    \/ Asks(d, t, {"Draft", "PendingAgreement", "Agreed"}, {"Cancelled", "Expired"},
            <<CancelTimer("AgreementExpiry"), CancelTimer("FundingExpiry")>>)
    \/ Asks(d, t, {"Funded"}, {"Refunded"}, <<CancelTimer("HandoffDeadline")>>)

LEMMA TransitionTimers ==
    ASSUME NEW d \in DealType, NEW cmd, NEW actor \in Actors, NEW at \in Nat,
           NEW t \in Transition(d, cmd, actor, at)
    PROVE  /\ TimersOf(d, t, cmd, at)
           /\ t.deal.state = "Holding" => t.deal.releaseDueAt = at + ReleaseHold
           /\ cmd.name = "ProposeExtraction" => d.state = "Draft"
<1>1. CASE t \in ProposeExtraction(d, cmd, actor, at)
  <2>1. /\ t.deal = [d EXCEPT !.version = @ + 1, !.state = "PendingAgreement",
                              !.terms = cmd.terms, !.termsRevision = 0, !.confirmed = Nobody]
        /\ t.timers = <<SetTimer("AgreementExpiry", at + AgreementWindow)>>
        /\ d.state = "Draft"
    BY <1>1 DEF ProposeExtraction, When
  <2>2. t.deal.state = "PendingAgreement"
    BY <2>1 DEF DealType
  <2> QED
    BY <2>1, <2>2 DEF TimersOf, Asks
<1>2. CASE t \in CorrectTerms(d, cmd, actor, at)
  <2>1. /\ t.deal = [d EXCEPT !.version = @ + 1, !.terms = cmd.terms,
                              !.termsRevision = @ + 1, !.confirmed = Nobody]
        /\ t.timers = << >>
        /\ d.state = "PendingAgreement" /\ cmd.name = "CorrectTerms"
    BY <1>2 DEF CorrectTerms, When
  <2>2. t.deal.state = "PendingAgreement"
    BY <2>1 DEF DealType
  <2> QED
    BY <2>1, <2>2 DEF TimersOf, Asks
<1>3. CASE t \in ConfirmTerms(d, cmd, actor, at)
  <2> DEFINE marked == [d EXCEPT !.version = @ + 1, !.confirmed[actor] = cmd.revision]
  <2>1. /\ \/ /\ t.deal = [marked EXCEPT !.state = "Agreed",
                                         !.termsHash = CanonicalHash(d.terms),
                                         !.frozenAt = at]
              /\ t.timers = <<CancelTimer("AgreementExpiry"),
                              SetTimer("FundingExpiry", at + FundingWindow)>>
           \/ t.deal = marked /\ t.timers = << >>
        /\ d.state = "PendingAgreement" /\ cmd.name = "ConfirmTerms"
    BY <1>3 DEF ConfirmTerms, When
  <2>2. \/ t.deal.state = "Agreed" /\ t.timers = <<CancelTimer("AgreementExpiry"),
                                       SetTimer("FundingExpiry", at + FundingWindow)>>
        \/ t.deal.state = "PendingAgreement" /\ t.timers = << >>
    BY <2>1 DEF DealType
  <2> QED
    BY <2>1, <2>2 DEF TimersOf, Asks
<1>4. CASE t \in Fund(d, cmd, actor, at)
  <2>1. /\ t.deal = [d EXCEPT !.version = @ + 1, !.state = "Funded"]
        /\ t.timers = <<CancelTimer("FundingExpiry"),
                          SetTimer("HandoffDeadline", at + HandoffWindow)>>
        /\ d.state = "Agreed" /\ cmd.name = "Fund"
    BY <1>4 DEF Fund, When
  <2>2. t.deal.state = "Funded"
    BY <2>1 DEF DealType
  <2> QED
    BY <2>1, <2>2 DEF TimersOf, Asks
<1>5. CASE t \in SubmitHandoffProof(d, cmd, actor, at)
  <2>1. /\ t.deal = [d EXCEPT !.version = @ + 1, !.state = "HandoffProved"]
        /\ t.timers = <<CancelTimer("HandoffDeadline"),
                          SetTimer("ReceiptWindow", at + ReceiptWindow)>>
        /\ d.state = "Funded" /\ cmd.name = "SubmitHandoffProof"
    BY <1>5 DEF SubmitHandoffProof, When
  <2>2. t.deal.state = "HandoffProved"
    BY <2>1 DEF DealType
  <2> QED
    BY <2>1, <2>2 DEF TimersOf, Asks
<1>6. CASE t \in ConfirmReceipt(d, cmd, actor, at)
  <2>1. /\ t.deal = [d EXCEPT !.version = @ + 1, !.state = "Holding",
                              !.releaseDueAt = at + ReleaseHold]
        /\ t.timers = <<CancelTimer("ReceiptWindow"),
                          SetTimer("ReleaseHold", at + ReleaseHold)>>
        /\ d.state = "HandoffProved" /\ cmd.name = "ConfirmReceipt"
    BY <1>6 DEF ConfirmReceipt, When
  <2>2. t.deal.state = "Holding" /\ t.deal.releaseDueAt = at + ReleaseHold
    BY <2>1 DEF DealType
  <2> QED
    BY <2>1, <2>2 DEF TimersOf, Asks
<1>7. CASE t \in AutoConfirmReceipt(d, cmd, actor, at)
  <2>1. /\ t.deal = [d EXCEPT !.version = @ + 1, !.state = "Holding",
                              !.releaseDueAt = at + ReleaseHold, !.receiptAutoConfirmed = TRUE]
        /\ t.timers = <<SetTimer("ReleaseHold", at + ReleaseHold)>>
        /\ d.state = "HandoffProved" /\ cmd.name = "Expire"
    BY <1>7 DEF AutoConfirmReceipt, When
  <2>2. t.deal.state = "Holding" /\ t.deal.releaseDueAt = at + ReleaseHold
    BY <2>1 DEF DealType
  <2> QED
    BY <2>1, <2>2 DEF TimersOf, Asks
<1>8. CASE t \in ReleaseFunds(d, cmd, actor, at)
  <2>1. /\ t.deal = [d EXCEPT !.version = @ + 1, !.state = "Completed", !.terminalAt = at]
        /\ t.timers = <<CancelTimer("ReleaseHold")>>
        /\ d.state = "Holding" /\ cmd.name = "ReleaseFunds"
    BY <1>8 DEF ReleaseFunds, When
  <2>2. t.deal.state = "Completed"
    BY <2>1 DEF DealType
  <2> QED
    BY <2>1, <2>2 DEF TimersOf, Asks
<1>9. CASE t \in OpenDispute(d, cmd, actor, at)
  <2>1. /\ t.deal = [d EXCEPT !.version = @ + 1, !.state = "Disputed"]
        /\ t.timers = <<CancelTimer("ReleaseHold"), CancelTimer("ReceiptWindow"),
                          CancelTimer("HandoffDeadline")>>
        /\ d.state \in {"Funded", "HandoffProved", "Holding"} /\ cmd.name = "OpenDispute"
    BY <1>9 DEF OpenDispute, When
  <2>2. t.deal.state = "Disputed"
    BY <2>1 DEF DealType
  <2> QED
    BY <2>1, <2>2 DEF TimersOf, Asks
<1>10. CASE t \in ResolveDispute(d, cmd, actor, at)
  <2>1. /\ \/ /\ t.deal = [d EXCEPT !.version = @ + 1, !.state = "Holding",
                                    !.releaseDueAt = at + ReleaseHold]
              /\ t.timers = <<SetTimer("ReleaseHold", at + ReleaseHold)>>
           \/ /\ t.deal = [d EXCEPT !.version = @ + 1, !.state = "Resolved",
                                    !.outcome = cmd.outcome, !.terminalAt = at]
              /\ t.timers = << >>
        /\ d.state = "Disputed" /\ cmd.name = "ResolveDispute"
    BY <1>10 DEF ResolveDispute, When
  <2>2. \/ /\ t.deal.state = "Holding" /\ t.deal.releaseDueAt = at + ReleaseHold
           /\ t.timers = <<SetTimer("ReleaseHold", at + ReleaseHold)>>
        \/ t.deal.state = "Resolved" /\ t.timers = << >>
    BY <2>1 DEF DealType
  <2> QED
    BY <2>1, <2>2 DEF TimersOf, Asks
<1>11. CASE t \in Cancel(d, cmd, actor, at)
  <2>1. /\ t.deal = [d EXCEPT !.version = @ + 1, !.state = "Cancelled", !.terminalAt = at]
        /\ t.timers = <<CancelTimer("AgreementExpiry"), CancelTimer("FundingExpiry")>>
        /\ d.state \in {"Draft", "PendingAgreement", "Agreed"} /\ cmd.name = "Cancel"
    BY <1>11 DEF Cancel, When, UnfundedStates
  <2>2. t.deal.state = "Cancelled"
    BY <2>1 DEF DealType
  <2> QED
    BY <2>1, <2>2 DEF TimersOf, Asks
<1>12. CASE t \in ExpireUnfunded(d, cmd, actor, at)
  <2>1. /\ t.deal = [d EXCEPT !.version = @ + 1, !.state = "Expired", !.terminalAt = at]
        /\ t.timers = <<CancelTimer("AgreementExpiry"), CancelTimer("FundingExpiry")>>
        /\ d.state \in {"Draft", "PendingAgreement", "Agreed"} /\ cmd.name = "Expire"
    BY <1>12 DEF ExpireUnfunded, When, UnfundedStates
  <2>2. t.deal.state = "Expired"
    BY <2>1 DEF DealType
  <2> QED
    BY <2>1, <2>2 DEF TimersOf, Asks
<1>13. CASE t \in RefundExpired(d, cmd, actor, at)
  <2>1. /\ t.deal = [d EXCEPT !.version = @ + 1, !.state = "Refunded", !.terminalAt = at]
        /\ t.timers = <<CancelTimer("HandoffDeadline")>>
        /\ d.state = "Funded" /\ cmd.name = "Expire"
    BY <1>13 DEF RefundExpired, When
  <2>2. t.deal.state = "Refunded"
    BY <2>1 DEF DealType
  <2> QED
    BY <2>1, <2>2 DEF TimersOf, Asks
<1> QED
  BY <1>1, <1>2, <1>3, <1>4, <1>5, <1>6, <1>7, <1>8, <1>9, <1>10, <1>11, <1>12, <1>13 DEF Transition

\* How the requests of a transition fit the state it leads to: what they ask of
\* a kind is what that state wants of it, and a kind they leave alone is wanted
\* as it was.  Confirming a receipt on time-out leaves the timer that ran out
\* alone: it relies on its being completed.
Fits(requests, old, new) ==
    /\ \A i \in DOMAIN requests : requests[i].due = new[requests[i].kind]
    /\ \A k \in TimerKinds :
          (\A i \in DOMAIN requests : requests[i].kind # k) => new[k] = old[k]

LEMMA TimersFit ==
    ASSUME NEW d \in DealType, NEW cmd, NEW actor \in Actors, NEW at \in Nat,
           NEW t \in Transition(d, cmd, actor, at), NEW entered,
           \/ cmd.name # "Expire"
           \/ d.state \in DOMAIN Awaits /\ cmd = TimerCommand(Awaits[d.state])
    PROVE  LET old == IF cmd.name = "Expire" THEN NoneArmed ELSE ArmedFor(d.state, entered)
               new == ArmedFor(t.deal.state, IF t.deal.state = d.state THEN entered ELSE at)
           IN  Fits(t.timers, old, new)
<1> DEFINE old == IF cmd.name = "Expire" THEN NoneArmed ELSE ArmedFor(d.state, entered)
           new == ArmedFor(t.deal.state, IF t.deal.state = d.state THEN entered ELSE at)
<1>1. TimersOf(d, t, cmd, at)
  BY TransitionTimers
<1>2. /\ \A kind, due : SetTimer(kind, due).kind = kind /\ SetTimer(kind, due).due = due
      /\ \A kind : CancelTimer(kind).kind = kind /\ CancelTimer(kind).due = None
  BY DEF SetTimer, CancelTimer
<1>3. /\ \A k \in TimerKinds : NoneArmed[k] = None
      /\ \A k, kind \in TimerKinds : \A due :
            OneArmed(kind, due)[k] = IF k = kind THEN due ELSE None
  BY DEF NoneArmed, OneArmed
<1>4. TimerKinds = {"AgreementExpiry", "FundingExpiry", "HandoffDeadline", "ReceiptWindow",
                    "ReleaseHold"}
  BY DEF TimerKinds
<1>5. CASE Asks(d, t, {"Draft"}, {"PendingAgreement"},
                <<SetTimer("AgreementExpiry", at + AgreementWindow)>>)
  <2>1. /\ d.state \in {"Draft"} /\ t.deal.state \in {"PendingAgreement"}
        /\ t.timers = <<SetTimer("AgreementExpiry", at + AgreementWindow)>>
    BY <1>5 DEF Asks
  <2>2. old = ArmedFor(d.state, entered) \/ old = NoneArmed
    OBVIOUS
  <2>q. DOMAIN t.timers = {1}
    BY <2>1
  <2> HIDE DEF old
  <2>4. Fits(t.timers, old, new)
    BY <1>2, <1>3, <1>4, <2>1, <2>2, <2>q, ArmedForStates DEF Fits
  <2> QED
    BY <2>4 DEF old
<1>6. CASE Asks(d, t, {"PendingAgreement"}, {"Agreed"},
                <<CancelTimer("AgreementExpiry"), SetTimer("FundingExpiry", at + FundingWindow)>>)
  <2>1. /\ d.state \in {"PendingAgreement"} /\ t.deal.state \in {"Agreed"}
        /\ t.timers = <<CancelTimer("AgreementExpiry"), SetTimer("FundingExpiry", at + FundingWindow)>>
    BY <1>6 DEF Asks
  <2>2. old = ArmedFor(d.state, entered) \/ old = NoneArmed
    OBVIOUS
  <2>q. DOMAIN t.timers = {1, 2}
    BY <2>1
  <2> HIDE DEF old
  <2>4. Fits(t.timers, old, new)
    BY <1>2, <1>3, <1>4, <2>1, <2>2, <2>q, ArmedForStates DEF Fits
  <2> QED
    BY <2>4 DEF old
<1>7. CASE Asks(d, t, {"Agreed"}, {"Funded"},
                <<CancelTimer("FundingExpiry"), SetTimer("HandoffDeadline", at + HandoffWindow)>>)
  <2>1. /\ d.state \in {"Agreed"} /\ t.deal.state \in {"Funded"}
        /\ t.timers = <<CancelTimer("FundingExpiry"), SetTimer("HandoffDeadline", at + HandoffWindow)>>
    BY <1>7 DEF Asks
  <2>2. old = ArmedFor(d.state, entered) \/ old = NoneArmed
    OBVIOUS
  <2>q. DOMAIN t.timers = {1, 2}
    BY <2>1
  <2> HIDE DEF old
  <2>4. Fits(t.timers, old, new)
    BY <1>2, <1>3, <1>4, <2>1, <2>2, <2>q, ArmedForStates DEF Fits
  <2> QED
    BY <2>4 DEF old
<1>8. CASE Asks(d, t, {"Funded"}, {"HandoffProved"},
                <<CancelTimer("HandoffDeadline"), SetTimer("ReceiptWindow", at + ReceiptWindow)>>)
  <2>1. /\ d.state \in {"Funded"} /\ t.deal.state \in {"HandoffProved"}
        /\ t.timers = <<CancelTimer("HandoffDeadline"), SetTimer("ReceiptWindow", at + ReceiptWindow)>>
    BY <1>8 DEF Asks
  <2>2. old = ArmedFor(d.state, entered) \/ old = NoneArmed
    OBVIOUS
  <2>q. DOMAIN t.timers = {1, 2}
    BY <2>1
  <2> HIDE DEF old
  <2>4. Fits(t.timers, old, new)
    BY <1>2, <1>3, <1>4, <2>1, <2>2, <2>q, ArmedForStates DEF Fits
  <2> QED
    BY <2>4 DEF old
<1>9. CASE Asks(d, t, {"HandoffProved"}, {"Holding"},
                <<CancelTimer("ReceiptWindow"), SetTimer("ReleaseHold", at + ReleaseHold)>>)
  <2>1. /\ d.state \in {"HandoffProved"} /\ t.deal.state \in {"Holding"}
        /\ t.timers = <<CancelTimer("ReceiptWindow"), SetTimer("ReleaseHold", at + ReleaseHold)>>
    BY <1>9 DEF Asks
  <2>2. old = ArmedFor(d.state, entered) \/ old = NoneArmed
    OBVIOUS
  <2>q. DOMAIN t.timers = {1, 2}
    BY <2>1
  <2> HIDE DEF old
  <2>4. Fits(t.timers, old, new)
    BY <1>2, <1>3, <1>4, <2>1, <2>2, <2>q, ArmedForStates DEF Fits
  <2> QED
    BY <2>4 DEF old
<1>10. CASE /\ Asks(d, t, {"HandoffProved"}, {"Holding"},
                   <<SetTimer("ReleaseHold", at + ReleaseHold)>>)
           /\ cmd.name = "Expire"
  <2>1. /\ d.state \in {"HandoffProved"} /\ t.deal.state \in {"Holding"}
        /\ t.timers = <<SetTimer("ReleaseHold", at + ReleaseHold)>>
    BY <1>10 DEF Asks
  <2>2. old = ArmedFor(d.state, entered) \/ old = NoneArmed
    OBVIOUS
  <2>3. old = NoneArmed
    BY <1>10
  <2>q. DOMAIN t.timers = {1}
    BY <2>1
  <2> HIDE DEF old
  <2>4. Fits(t.timers, old, new)
    BY <1>2, <1>3, <1>4, <2>1, <2>2, <2>q, ArmedForStates, <2>3 DEF Fits
  <2> QED
    BY <2>4 DEF old
<1>11. CASE Asks(d, t, {"Disputed"}, {"Holding"},
                <<SetTimer("ReleaseHold", at + ReleaseHold)>>)
  <2>1. /\ d.state \in {"Disputed"} /\ t.deal.state \in {"Holding"}
        /\ t.timers = <<SetTimer("ReleaseHold", at + ReleaseHold)>>
    BY <1>11 DEF Asks
  <2>2. old = ArmedFor(d.state, entered) \/ old = NoneArmed
    OBVIOUS
  <2>q. DOMAIN t.timers = {1}
    BY <2>1
  <2> HIDE DEF old
  <2>4. Fits(t.timers, old, new)
    BY <1>2, <1>3, <1>4, <2>1, <2>2, <2>q, ArmedForStates DEF Fits
  <2> QED
    BY <2>4 DEF old
<1>12. CASE Asks(d, t, {"Holding"}, {"Completed"},
                <<CancelTimer("ReleaseHold")>>)
  <2>1. /\ d.state \in {"Holding"} /\ t.deal.state \in {"Completed"}
        /\ t.timers = <<CancelTimer("ReleaseHold")>>
    BY <1>12 DEF Asks
  <2>2. old = ArmedFor(d.state, entered) \/ old = NoneArmed
    OBVIOUS
  <2>q. DOMAIN t.timers = {1}
    BY <2>1
  <2> HIDE DEF old
  <2>4. Fits(t.timers, old, new)
    BY <1>2, <1>3, <1>4, <2>1, <2>2, <2>q, ArmedForStates DEF Fits
  <2> QED
    BY <2>4 DEF old
<1>13. CASE Asks(d, t, {"Funded", "HandoffProved", "Holding"}, {"Disputed"},
                <<CancelTimer("ReleaseHold"), CancelTimer("ReceiptWindow"),
                  CancelTimer("HandoffDeadline")>>)
  <2>1. /\ d.state \in {"Funded", "HandoffProved", "Holding"} /\ t.deal.state \in {"Disputed"}
        /\ t.timers = <<CancelTimer("ReleaseHold"), CancelTimer("ReceiptWindow"),
                         CancelTimer("HandoffDeadline")>>
    BY <1>13 DEF Asks
  <2>2. old = ArmedFor(d.state, entered) \/ old = NoneArmed
    OBVIOUS
  <2>q. DOMAIN t.timers = {1, 2, 3}
    BY <2>1
  <2> HIDE DEF old
  <2>4. Fits(t.timers, old, new)
    BY <1>2, <1>3, <1>4, <2>1, <2>2, <2>q, ArmedForStates DEF Fits
  <2> QED
    BY <2>4 DEF old
<1>14. CASE Asks(d, t, {"Disputed"}, {"Resolved"},
                << >>)
  <2>1. /\ d.state \in {"Disputed"} /\ t.deal.state \in {"Resolved"}
        /\ t.timers = << >>
    BY <1>14 DEF Asks
  <2>2. old = ArmedFor(d.state, entered) \/ old = NoneArmed
    OBVIOUS
  <2>q. DOMAIN t.timers = {}
    BY <2>1
  <2> HIDE DEF old
  <2>4. Fits(t.timers, old, new)
    BY <1>2, <1>3, <1>4, <2>1, <2>2, <2>q, ArmedForStates DEF Fits
  <2> QED
    BY <2>4 DEF old
<1>15. CASE Asks(d, t, {"Draft", "PendingAgreement", "Agreed"}, {"Cancelled", "Expired"},
                <<CancelTimer("AgreementExpiry"), CancelTimer("FundingExpiry")>>)
  <2>1. /\ d.state \in {"Draft", "PendingAgreement", "Agreed"} /\ t.deal.state \in {"Cancelled", "Expired"}
        /\ t.timers = <<CancelTimer("AgreementExpiry"), CancelTimer("FundingExpiry")>>
    BY <1>15 DEF Asks
  <2>2. old = ArmedFor(d.state, entered) \/ old = NoneArmed
    OBVIOUS
  <2>q. DOMAIN t.timers = {1, 2}
    BY <2>1
  <2> HIDE DEF old
  <2>4. Fits(t.timers, old, new)
    BY <1>2, <1>3, <1>4, <2>1, <2>2, <2>q, ArmedForStates DEF Fits
  <2> QED
    BY <2>4 DEF old
<1>16. CASE Asks(d, t, {"Funded"}, {"Refunded"},
                <<CancelTimer("HandoffDeadline")>>)
  <2>1. /\ d.state \in {"Funded"} /\ t.deal.state \in {"Refunded"}
        /\ t.timers = <<CancelTimer("HandoffDeadline")>>
    BY <1>16 DEF Asks
  <2>2. old = ArmedFor(d.state, entered) \/ old = NoneArmed
    OBVIOUS
  <2>q. DOMAIN t.timers = {1}
    BY <2>1
  <2> HIDE DEF old
  <2>4. Fits(t.timers, old, new)
    BY <1>2, <1>3, <1>4, <2>1, <2>2, <2>q, ArmedForStates DEF Fits
  <2> QED
    BY <2>4 DEF old
<1>17. CASE /\ Asks(d, t, {"PendingAgreement"}, {"PendingAgreement"}, << >>)
            /\ cmd.name # "Expire"
  <2>1. d.state = "PendingAgreement" /\ t.deal.state = d.state /\ t.timers = << >>
    BY <1>17 DEF Asks
  <2>2. new = old /\ DOMAIN t.timers = {}
    BY <1>17, <2>1
  <2> QED
    BY <2>1, <2>2 DEF Fits
<1> QED
  BY <1>1, <1>5, <1>6, <1>7, <1>8, <1>9, <1>10, <1>11, <1>12, <1>13, <1>14, <1>15, <1>16, <1>17 DEF TimersOf

-----------------------------------------------------------------------------
(* The machine.                                                            *)

Target == ArmedFor(deal.state, since)

\* A statement still to run asks for what the state wants, a kind with none to
\* run is already as wanted, but for the fired timer: nothing wants it any more.
TimersInHand ==
    /\ \A i \in DOMAIN todo : todo[i].due = Target[todo[i].kind]
    /\ \A k \in TimerKinds \ {firing} :
          (\A i \in DOMAIN todo : todo[i].kind # k) => Target[k] = armed[k]
    /\ firing # "none" => firing \in TimerKinds /\ Target[firing] = None

\* What a sweep has claimed is the one timer the state awaits.
ClaimIsAwaited ==
    batch # {} =>
        /\ todo = << >> /\ firing = "none"
        /\ deal.state \in DOMAIN Awaits /\ batch = {Awaits[deal.state]}

TimersRight ==
    /\ since \in Nat /\ todo \in Seq(TimerRequest)
    /\ armed \in [TimerKinds -> MaybeNat]
    /\ TimersInHand
    /\ ClaimIsAwaited
    /\ deal.state = "Holding" => deal.releaseDueAt = since + ReleaseHold

TimedInv == IInv /\ TimersRight

\* The timer a state awaits is never moot.
LEMMA AwaitedApplies ==
    ASSUME NEW d, d.state \in DOMAIN Awaits, NEW at
    PROVE  Transition(d, TimerCommand(Awaits[d.state]), "system", at) # {}
<1>1. /\ DOMAIN Awaits = {"PendingAgreement", "Agreed", "Funded", "HandoffProved", "Holding"}
      /\ Awaits["PendingAgreement"] = "AgreementExpiry"
      /\ Awaits["Agreed"] = "FundingExpiry"
      /\ Awaits["Funded"] = "HandoffDeadline"
      /\ Awaits["HandoffProved"] = "ReceiptWindow"
      /\ Awaits["Holding"] = "ReleaseHold"
  BY DEF Awaits
<1>2. /\ TimerCommand("ReleaseHold").name = "ReleaseFunds"
      /\ \A k : k # "ReleaseHold" => TimerCommand(k).name = "Expire"
  BY DEF TimerCommand, Command
<1>3. CASE d.state \in {"PendingAgreement", "Agreed"}
  <2>1. ExpireUnfunded(d, TimerCommand(Awaits[d.state]), "system", at) # {}
    BY <1>1, <1>2, <1>3 DEF ExpireUnfunded, When, UnfundedStates
  <2> QED
    BY <2>1 DEF Transition
<1>4. CASE d.state = "Funded"
  <2>1. RefundExpired(d, TimerCommand(Awaits[d.state]), "system", at) # {}
    BY <1>1, <1>2, <1>4 DEF RefundExpired, When
  <2> QED
    BY <2>1 DEF Transition
<1>5. CASE d.state = "HandoffProved"
  <2>1. AutoConfirmReceipt(d, TimerCommand(Awaits[d.state]), "system", at) # {}
    BY <1>1, <1>2, <1>5 DEF AutoConfirmReceipt, When
  <2> QED
    BY <2>1 DEF Transition
<1>6. CASE d.state = "Holding"
  <2>1. ReleaseFunds(d, TimerCommand(Awaits[d.state]), "system", at) # {}
    BY <1>1, <1>2, <1>6 DEF ReleaseFunds, When
  <2> QED
    BY <2>1 DEF Transition
<1> QED
  BY <1>1, <1>3, <1>4, <1>5, <1>6

\* A decision with no statement left over: its requests fit the state it leads
\* to, and a release date is as long as the window from now.
LEMMA DecisionFits ==
    ASSUME TimedInv, NEW cmd, NEW actor \in Actors, WellFormed(cmd), TimedAccept(cmd, actor),
           \/ cmd.name # "Expire"
           \/ deal.state \in DOMAIN Awaits /\ cmd = TimerCommand(Awaits[deal.state])
    PROVE  /\ IInv'
           /\ since' \in Nat /\ todo' \in Seq(TimerRequest) /\ armed' = armed
           /\ deal'.state = "Holding" => deal'.releaseDueAt = since' + ReleaseHold
           /\ Fits(todo', IF cmd.name = "Expire" THEN NoneArmed ELSE Target, Target')
           /\ deal.state \in DOMAIN Awaits /\ deal'.state \in DOMAIN Awaits =>
                 \/ Awaits[deal.state] # Awaits[deal'.state]
                 \/ deal.state = "PendingAgreement" /\ cmd.name # "Expire"
<1>1. PICK t \in Transition(deal, cmd, actor, now) :
         /\ deal' = t.deal /\ todo' = t.timers /\ armed' = armed
         /\ since' = IF t.deal.state = deal.state THEN since ELSE now
  BY DEF TimedAccept
<1>2. deal \in DealType /\ now \in Nat /\ since \in Nat
  BY DEF TimedInv, IInv, TypeOK, TimersRight
<1>3. Accept(cmd, actor, now)
  BY DEF TimedAccept
<1>4. IInv'
  BY <1>2, <1>3, AcceptKeepsIInv DEF TimedInv
<1>5. t.timers \in Seq(TimerRequest)
  BY <1>2, TransitionIsTransition DEF TransitionType
<1>6. TimersOf(deal, t, cmd, now)
  BY <1>2, TransitionTimers
<1>7. deal'.state = "Holding" => deal'.releaseDueAt = now + ReleaseHold /\ deal.state # "Holding"
  BY <1>1, <1>2, <1>6, TransitionTimers DEF TimersOf, Asks
<1>8. Fits(t.timers, IF cmd.name = "Expire" THEN NoneArmed ELSE ArmedFor(deal.state, since),
           ArmedFor(t.deal.state, IF t.deal.state = deal.state THEN since ELSE now))
  BY <1>2, TimersFit
<1>9. /\ DOMAIN Awaits = {"PendingAgreement", "Agreed", "Funded", "HandoffProved", "Holding"}
      /\ Awaits["PendingAgreement"] = "AgreementExpiry"
      /\ Awaits["Agreed"] = "FundingExpiry"
      /\ Awaits["Funded"] = "HandoffDeadline"
      /\ Awaits["HandoffProved"] = "ReceiptWindow"
      /\ Awaits["Holding"] = "ReleaseHold"
  BY DEF Awaits
<1>10. deal.state \in DOMAIN Awaits /\ deal'.state \in DOMAIN Awaits =>
          \/ Awaits[deal.state] # Awaits[deal'.state]
          \/ deal.state = "PendingAgreement" /\ cmd.name # "Expire"
  <2>1. \/ deal.state # deal'.state
        \/ deal.state = "PendingAgreement" /\ cmd.name # "Expire"
        \/ deal.state \notin DOMAIN Awaits
    BY <1>1, <1>6, <1>9 DEF TimersOf, Asks
  <2> QED
    BY <1>9, <2>1
<1>11. Fits(todo', IF cmd.name = "Expire" THEN NoneArmed ELSE Target, Target')
  BY <1>1, <1>8 DEF Target
<1> QED
  BY <1>1, <1>2, <1>4, <1>5, <1>7, <1>10, <1>11

\* With nothing under way the table is the one the state wants.
LEMMA IdleIsArmed ==
    ASSUME TimedInv, todo = << >>, firing = "none"
    PROVE  armed = Target
<1>1. DOMAIN todo = {} /\ "none" \notin TimerKinds
  BY DEF TimerKinds
<1>2. \A k \in TimerKinds : Target[k] = armed[k]
  BY <1>1 DEF TimedInv, TimersRight, TimersInHand
<1> QED
  BY <1>2 DEF TimedInv, TimersRight, Target, ArmedFor

LEMMA RequestKeepsTimers ==
    ASSUME TimedInv, NEW cmd, NEW actor \in Actors, WellFormed(cmd), cmd.name # "Expire",
           Request(cmd, actor)
    PROVE  TimedInv'
<1>1. /\ todo = << >> /\ batch = {} /\ firing = "none" /\ batch' = {} /\ firing' = "none"
      /\ TimedAccept(cmd, actor)
  BY DEF Request, Idle, sweep
<1>2. /\ IInv'
      /\ since' \in Nat /\ todo' \in Seq(TimerRequest) /\ armed' = armed
      /\ deal'.state = "Holding" => deal'.releaseDueAt = since' + ReleaseHold
      /\ Fits(todo', Target, Target')
  BY <1>1, DecisionFits
<1>3. armed' = Target
  BY <1>1, <1>2, IdleIsArmed
<1>4. TimersInHand'
  BY <1>1, <1>2, <1>3 DEF TimersInHand, Fits
<1> QED
  BY <1>1, <1>2, <1>4 DEF TimedInv, TimersRight, ClaimIsAwaited

LEMMA PeopleKeepTimers ==
    ASSUME TimedInv, Witness \/ Party \/ Mediator
    PROVE  TimedInv'
<1>a. Parties \subseteq Actors /\ {"system", "mediator"} \subseteq Actors
  BY DEF Actors, Parties
<1>1. ASSUME NEW x \in Terms, NEW actor \in Actors, NEW n \in {"ProposeExtraction", "CorrectTerms"},
             Request([name |-> n, terms |-> x], actor)
      PROVE  TimedInv'
  BY <1>1, RequestKeepsTimers DEF WellFormed
<1>2. ASSUME NEW p \in Parties, NEW r \in 0 .. deal.termsRevision,
             Request([name |-> "ConfirmTerms", revision |-> r], p)
      PROVE  TimedInv'
  BY <1>2, <1>a, RequestKeepsTimers DEF WellFormed
<1>3. ASSUME NEW p \in Parties, NEW n \in Simple \ {"Expire"}, Request(Command(n), p)
      PROVE  TimedInv'
  BY <1>3, <1>a, RequestKeepsTimers DEF WellFormed, Command, Simple
<1>4. ASSUME NEW o \in DisputeOutcomes,
             Request([name |-> "ResolveDispute", outcome |-> o], "mediator")
      PROVE  TimedInv'
  BY <1>4, <1>a, RequestKeepsTimers DEF WellFormed
<1> QED
  BY <1>a, <1>1, <1>2, <1>3, <1>4 DEF Witness, Party, Mediator

LEMMA ApplyKeepsTimers ==
    ASSUME TimedInv, ApplyTimer
    PROVE  TimedInv'
<1> DEFINE head == Head(todo)
<1>1. /\ todo # << >> /\ todo' = Tail(todo)
      /\ armed' = [armed EXCEPT ![head.kind] = head.due]
      /\ UNCHANGED <<deal, chain, intents, now, batch, firing, since>>
  BY DEF ApplyTimer, vars, sweep
<1>2. /\ todo \in Seq(TimerRequest) /\ todo' \in Seq(TimerRequest)
      /\ head \in TimerRequest /\ head = todo[1] /\ 1 \in DOMAIN todo
      /\ \A i \in DOMAIN todo' : i + 1 \in DOMAIN todo /\ todo'[i] = todo[i + 1]
      /\ \A j \in DOMAIN todo : j = 1 \/ (j - 1 \in DOMAIN todo' /\ todo'[j - 1] = todo[j])
  <2>1. todo \in Seq(TimerRequest)
    BY DEF TimedInv, TimersRight
  <2> QED
    BY <1>1, <2>1
<1>3. head.kind \in TimerKinds /\ head.due \in MaybeNat
  BY <1>2 DEF TimerRequest
<1>4. armed \in [TimerKinds -> MaybeNat] /\ armed' \in [TimerKinds -> MaybeNat]
  BY <1>1, <1>3 DEF TimedInv, TimersRight
<1>5. Target' = Target
  BY <1>1 DEF Target
<1>6. /\ \A i \in DOMAIN todo : todo[i].due = Target[todo[i].kind]
      /\ \A k \in TimerKinds \ {firing} :
            (\A i \in DOMAIN todo : todo[i].kind # k) => Target[k] = armed[k]
      /\ firing # "none" => firing \in TimerKinds /\ Target[firing] = None
  BY DEF TimedInv, TimersRight, TimersInHand
<1> HIDE DEF head
<1>7. \A i \in DOMAIN todo' : todo'[i].due = Target[todo'[i].kind]
  BY <1>2, <1>6
<1>8. ASSUME NEW k \in TimerKinds \ {firing}, \A i \in DOMAIN todo' : todo'[i].kind # k
      PROVE  Target[k] = armed'[k]
  <2>1. CASE k = head.kind
    BY <1>1, <1>2, <1>4, <1>6, <2>1
  <2>2. CASE k # head.kind
    <3>1. \A i \in DOMAIN todo : todo[i].kind # k
      BY <1>2, <1>8, <2>2
    <3> QED
      BY <1>1, <1>4, <1>6, <2>2, <3>1
  <2> QED
    BY <2>1, <2>2
<1>9. TimersInHand'
  BY <1>1, <1>5, <1>6, <1>7, <1>8 DEF TimersInHand
<1>10. batch = {}
  BY <1>1 DEF TimedInv, TimersRight, ClaimIsAwaited
<1>11. IInv'
  BY <1>1
     DEF TimedInv, IInv, TypeOK, ChainIsVersion, HeldThenSettledOnce, BoundTermsAreConfirmed,
         Unbound
<1> QED
  BY <1>1, <1>2, <1>4, <1>9, <1>10, <1>11 DEF TimedInv, TimersRight, ClaimIsAwaited

LEMMA ClaimKeepsTimers ==
    ASSUME TimedInv, ClaimDue
    PROVE  TimedInv'
<1>1. /\ todo = << >> /\ firing = "none" /\ batch' = Due /\ Due # {}
      /\ UNCHANGED <<deal, chain, intents, now, armed, todo, firing, since>>
  BY DEF ClaimDue, Idle, vars
<1>2. armed = Target
  BY <1>1, IdleIsArmed
<1>3. deal.state \in DOMAIN Awaits /\ Due = {Awaits[deal.state]}
  BY <1>1, <1>2 DEF Due, Target, ArmedFor
<1>4. IInv'
  BY <1>1
     DEF TimedInv, IInv, TypeOK, ChainIsVersion, HeldThenSettledOnce, BoundTermsAreConfirmed,
         Unbound
<1> QED
  BY <1>1, <1>3, <1>4 DEF TimedInv, TimersRight, TimersInHand, ClaimIsAwaited, Target

LEMMA FireKeepsTimers ==
    ASSUME TimedInv, FireTask
    PROVE  TimedInv'
<1>1. PICK k \in batch :
         /\ batch' = batch \ {k} /\ firing' = k
         /\ \/ TimedAccept(TimerCommand(k), "system")
            \/ Transition(deal, TimerCommand(k), "system", now) = {}
  BY DEF FireTask
<1>2. /\ todo = << >> /\ firing = "none" /\ deal.state \in DOMAIN Awaits
      /\ k = Awaits[deal.state] /\ batch' = {} /\ k \in TimerKinds
  BY <1>1 DEF TimedInv, TimersRight, ClaimIsAwaited, FireTask, Awaits, TimerKinds
<1>3. TimedAccept(TimerCommand(k), "system")
  BY <1>1, <1>2, AwaitedApplies
<1>4. WellFormed(TimerCommand(k)) /\ "system" \in Actors
  BY DEF WellFormed, TimerCommand, Command, Actors
<1>5. /\ IInv'
      /\ since' \in Nat /\ todo' \in Seq(TimerRequest) /\ armed' = armed
      /\ deal'.state = "Holding" => deal'.releaseDueAt = since' + ReleaseHold
      /\ Fits(todo', IF TimerCommand(k).name = "Expire" THEN NoneArmed ELSE Target, Target')
      /\ deal'.state \in DOMAIN Awaits =>
                 \/ Awaits[deal.state] # Awaits[deal'.state]
                 \/ deal.state = "PendingAgreement" /\ TimerCommand(k).name # "Expire"
  BY <1>2, <1>3, <1>4, DecisionFits
<1>6. armed = Target
  BY <1>2, IdleIsArmed
<1>7. \A j \in TimerKinds \ {k} : armed[j] = None /\ NoneArmed[j] = None
  BY <1>2, <1>6 DEF Target, ArmedFor, NoneArmed
<1>8. Target'[k] = None
  <2>1. deal.state = "PendingAgreement" => TimerCommand(k).name = "Expire"
    BY <1>2 DEF Awaits, TimerCommand, Command
  <2>2. ~(deal'.state \in DOMAIN Awaits /\ Awaits[deal'.state] = k)
    BY <1>2, <1>5, <2>1
  <2> QED
    BY <1>2, <2>2 DEF Target, ArmedFor
<1>9. \A j \in TimerKinds \ {k} :
         (\A i \in DOMAIN todo' : todo'[i].kind # j) => Target'[j] = armed'[j]
  <2>1. \A j \in TimerKinds \ {k} :
           (IF TimerCommand(k).name = "Expire" THEN NoneArmed ELSE Target)[j] = armed[j]
    BY <1>6, <1>7
  <2> QED
    BY <1>5, <2>1 DEF Fits
<1>10. TimersInHand'
  BY <1>1, <1>2, <1>5, <1>8, <1>9 DEF TimersInHand, Fits
<1> QED
  BY <1>2, <1>5, <1>10 DEF TimedInv, TimersRight, ClaimIsAwaited

LEMMA CompleteKeepsTimers ==
    ASSUME TimedInv, CompleteTask
    PROVE  TimedInv'
<1>1. /\ todo = << >> /\ firing # "none" /\ firing' = "none"
      /\ armed' = [armed EXCEPT ![firing] = None]
      /\ UNCHANGED <<deal, chain, intents, now, todo, batch, since>>
  BY DEF CompleteTask, vars
<1>2. /\ firing \in TimerKinds /\ Target[firing] = None /\ DOMAIN todo = {}
      /\ \A k \in TimerKinds \ {firing} : Target[k] = armed[k]
      /\ armed \in [TimerKinds -> MaybeNat] /\ batch = {}
  BY <1>1 DEF TimedInv, TimersRight, TimersInHand, ClaimIsAwaited
<1>3. armed' \in [TimerKinds -> MaybeNat] /\ \A k \in TimerKinds : Target[k] = armed'[k]
  BY <1>1, <1>2 DEF MaybeNat
<1>4. TimersInHand' /\ ClaimIsAwaited'
  BY <1>1, <1>2, <1>3 DEF TimersInHand, ClaimIsAwaited, Target
<1>5. IInv'
  BY <1>1
     DEF TimedInv, IInv, TypeOK, ChainIsVersion, HeldThenSettledOnce, BoundTermsAreConfirmed,
         Unbound
<1> QED
  BY <1>1, <1>3, <1>4, <1>5 DEF TimedInv, TimersRight

LEMMA TimedStep ==
    ASSUME TimedInv, [TimedNext]_timedVars
    PROVE  TimedInv'
<1>1. CASE UNCHANGED <<deal, chain, intents, armed, todo, batch, firing, since>> /\ now' \in Nat
  <2>1. IInv'
    BY <1>1
       DEF TimedInv, IInv, TypeOK, ChainIsVersion, HeldThenSettledOnce, BoundTermsAreConfirmed,
           Unbound
  <2> QED
    BY <1>1, <2>1 DEF TimedInv, TimersRight, TimersInHand, ClaimIsAwaited, Target
<1>2. CASE UNCHANGED timedVars
  BY <1>1, <1>2 DEF timedVars, vars, sweep, TimedInv, IInv, TypeOK
<1>3. CASE Clock
  BY <1>1, <1>3 DEF Clock, Tick, sweep, TimedInv, IInv, TypeOK
<1> QED
  BY <1>2, <1>3, PeopleKeepTimers, ApplyKeepsTimers, ClaimKeepsTimers, FireKeepsTimers,
     CompleteKeepsTimers DEF TimedNext

LEMMA TimedInductive == TimedSpec => []TimedInv
<1>1. TimedInit => TimedInv
  <2> SUFFICES ASSUME TimedInit PROVE TimedInv
    OBVIOUS
  <2>1. /\ Init /\ armed = NoneArmed /\ since = 0 /\ deal.state = "Draft"
        /\ todo = << >> /\ batch = {} /\ firing = "none"
    BY DEF TimedInit, NoneArmed, Init, NewDeal
  <2>2. Target = armed
    BY <2>1, ArmedForStates DEF Target
  <2>3. armed \in [TimerKinds -> MaybeNat]
    BY <2>1 DEF NoneArmed, MaybeNat
  <2>4. DOMAIN todo = {} /\ todo \in Seq(TimerRequest)
    BY <2>1
  <2> QED
    BY <2>1, <2>2, <2>3, <2>4, InitIInv
       DEF TimedInv, TimersRight, TimersInHand, ClaimIsAwaited
<1>2. TimedInv /\ [TimedNext]_timedVars => TimedInv'
  BY TimedStep
<1> QED
  BY <1>1, <1>2, PTL DEF TimedSpec

-----------------------------------------------------------------------------
\* With nothing under way exactly the timer of the deal's state is armed, for
\* the full window: no arm of transition() leaves a timer behind or forgets to
\* set one, and no sweep takes a fresh one along.
THEOREM OnlyTheAwaitedTimer == TimedSpec => []ArmedTimerIsTheStates
<1>1. TimedInv => ArmedTimerIsTheStates
  BY IdleIsArmed DEF ArmedTimerIsTheStates, Idle, Target, ArmedFor
<1> QED
  BY <1>1, TimedInductive, PTL

\* The release date the parties are shown is the one the timer will act on,
\* after a dispute that was withdrawn too.
THEOREM ShownReleaseActs == TimedSpec => []ShownReleaseIsArmed
<1>1. TimedInv => ShownReleaseIsArmed
  <2> SUFFICES ASSUME TimedInv, Idle, deal.state = "Holding"
               PROVE  deal.releaseDueAt = armed["ReleaseHold"]
    BY DEF ShownReleaseIsArmed
  <2>1. armed = Target
    BY IdleIsArmed DEF Idle
  <2>2. armed = OneArmed("ReleaseHold", since + ReleaseHold)
    BY <2>1, ArmedForStates DEF Target
  <2> QED
    BY <2>2 DEF TimedInv, TimersRight, OneArmed, TimerKinds
<1> QED
  BY <1>1, TimedInductive, PTL
=============================================================================
