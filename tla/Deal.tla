-------------------------------- MODULE Deal --------------------------------
(***************************************************************************)
(* The domain of a handshake: one deal, the commands it accepts and what   *)
(* each of them does.  This is th-domain/src/state.rs: a pure function     *)
(*                                                                         *)
(*     transition(deal, command, actor, now) -> Transition | error         *)
(*                                                                         *)
(* with no clock, no database and no I/O.  Each match arm of the function  *)
(* is an operator of the same name here.  An operator returns the set of   *)
(* transitions the arm allows: a singleton when the arm accepts, the empty *)
(* set when it refuses.  Payloads, event texts and names are left out; the *)
(* terms of a deal are an opaque value.                                    *)
(***************************************************************************)
EXTENDS Integers, Sequences

CONSTANTS
    Terms,            \* readings of the conversation that pass terms.validate()
    NoTerms,          \* Option::None, and any reading that does not validate
    AgreementWindow, FundingWindow, HandoffWindow, ReceiptWindow, ReleaseHold

ASSUME TermsAssumption == NoTerms \notin Terms

ASSUME WindowsAssumption ==
    {AgreementWindow, FundingWindow, HandoffWindow, ReceiptWindow, ReleaseHold}
        \subseteq Nat \ {0}

-----------------------------------------------------------------------------
Parties == {"buyer", "seller"}
Actors  == Parties \cup {"system", "mediator"}

None     == -1
MaybeNat == Nat \cup {None}

\* canonical_hash keeps distinct terms apart and says nothing else about them.
CanonicalHash(terms) == [sha256 |-> terms]
NoHash               == CanonicalHash(NoTerms)

DisputeOutcomes == {"ReleaseToSeller", "RefundToBuyer", "Withdrawn"}

States ==
    {"Draft", "PendingAgreement", "Agreed", "Funded", "HandoffProved", "Holding",
     "Completed", "Refunded", "Cancelled", "Expired", "Disputed", "Resolved"}

TerminalStates == {"Completed", "Refunded", "Cancelled", "Expired", "Resolved"}
CustodyStates  == {"Funded", "HandoffProved", "Holding", "Disputed"}
UnfundedStates == {"Draft", "PendingAgreement", "Agreed"}

IsTerminal(d) == d.state \in TerminalStates
FundsHeld(d)  == d.state \in CustodyStates

TimerKinds ==
    {"AgreementExpiry", "FundingExpiry", "HandoffDeadline", "ReceiptWindow", "ReleaseHold"}

SettlementIntents == {"None", "Hold", "Release", "Refund"}

AttestationActions ==
    {"WitnessProposed", "TermsCorrected", "TermsConfirmed", "TermsFrozen", "FundsHeld",
     "HandoffProved", "ReceiptConfirmed", "FundsReleased", "DisputeOpened",
     "DisputeResolved", "Cancelled", "Expired", "FundsRefunded"}

DealType ==
    [ state                : States,
      outcome              : DisputeOutcomes \cup {"None"},
      version              : Nat,
      termsRevision        : Nat,
      confirmed            : [Parties -> MaybeNat],
      terms                : Terms \cup {NoTerms},
      termsHash            : [sha256 : Terms \cup {NoTerms}],
      receiptAutoConfirmed : BOOLEAN,
      frozenAt             : MaybeNat,
      releaseDueAt         : MaybeNat,
      terminalAt           : MaybeNat ]

Nobody == [p \in Parties |-> None]

NewDeal ==
    [ state |-> "Draft", outcome |-> "None", version |-> 0, termsRevision |-> 0,
      confirmed |-> Nobody, terms |-> NoTerms, termsHash |-> NoHash,
      receiptAutoConfirmed |-> FALSE,
      frozenAt |-> None, releaseDueAt |-> None, terminalAt |-> None ]

ConfirmedBy(d, p) == d.confirmed[p] = d.termsRevision

\* Mutation of BothConfirmed: one confirmation is enough.
EitherConfirmed(d) == \E p \in Parties : ConfirmedBy(d, p)

BothConfirmed(d) == \A p \in Parties : ConfirmedBy(d, p)

-----------------------------------------------------------------------------
(* Commands.  Revisions are Nat; a model bounds them with MaxRevision.     *)

Simple == {"Fund", "SubmitHandoffProof", "ConfirmReceipt", "ReleaseFunds",
           "OpenDispute", "Cancel", "Expire"}

Command(name) == [name |-> name]

CommandsUpTo(maxRevision) ==
         {[name |-> "ProposeExtraction", terms |-> t] : t \in Terms \cup {NoTerms}}
    \cup {[name |-> "CorrectTerms", terms |-> t] : t \in Terms \cup {NoTerms}}
    \cup {[name |-> "ConfirmTerms", revision |-> r] : r \in 0 .. maxRevision}
    \cup {[name |-> "ResolveDispute", outcome |-> o] : o \in DisputeOutcomes}
    \cup {Command(n) : n \in Simple}

\* Who may send what: propose_from_session runs as System, the mediation route
\* as Mediator, every other request as the party whose token it carries.
Sender(cmd) ==
    CASE cmd.name = "ProposeExtraction" -> {"system"}
      [] cmd.name = "ResolveDispute"    -> {"mediator"}
      [] cmd.name = "Expire"            -> {}
      [] OTHER                          -> Parties

RequestsUpTo(maxRevision) ==
    UNION {{[cmd |-> c, actor |-> a] : a \in Sender(c)} : c \in CommandsUpTo(maxRevision)}

SetTimer(kind, due) == [kind |-> kind, due |-> due]
CancelTimer(kind)   == [kind |-> kind, due |-> None]

TimerRequest == [kind : TimerKinds, due : MaybeNat]

TransitionType ==
    [ deal       : DealType,
      timers     : Seq(TimerRequest),
      settlement : SettlementIntents,
      action     : AttestationActions ]

When(guard, t) == IF guard THEN {t} ELSE {}

-----------------------------------------------------------------------------
(* The match arms of transition(), in the order of the source.  A terminal *)
(* deal matches none of them.                                              *)

\* Mutation of ProposeExtraction: a new reading may replace the proposed one.
ProposeAgain(d, cmd, actor, now) ==
    When(/\ d.state \in {"Draft", "PendingAgreement"}
         /\ cmd.name = "ProposeExtraction" /\ cmd.terms \in Terms,
         [ deal |-> [d EXCEPT !.version = @ + 1, !.state = "PendingAgreement",
                              !.terms = cmd.terms, !.termsRevision = 0,
                              !.confirmed = Nobody],
           timers |-> <<SetTimer("AgreementExpiry", now + AgreementWindow)>>,
           settlement |-> "None", action |-> "WitnessProposed" ])

ProposeExtraction(d, cmd, actor, now) ==
    When(/\ d.state = "Draft"
         /\ cmd.name = "ProposeExtraction"
         /\ cmd.terms \in Terms,
         [ deal |-> [d EXCEPT !.version = @ + 1,
                              !.state = "PendingAgreement",
                              !.terms = cmd.terms,
                              !.termsRevision = 0,
                              !.confirmed = Nobody],
           timers |-> <<SetTimer("AgreementExpiry", now + AgreementWindow)>>,
           settlement |-> "None",
           action |-> "WitnessProposed" ])

\* Mutations of CorrectTerms: the correction is made in place, confirmations and
\* revision standing; it is accepted after the freeze.
CorrectTermsInPlace(d, cmd, actor, now) ==
    When(/\ d.state = "PendingAgreement" /\ cmd.name = "CorrectTerms"
         /\ actor \in Parties /\ cmd.terms \in Terms,
         [ deal |-> [d EXCEPT !.version = @ + 1, !.terms = cmd.terms],
           timers |-> << >>, settlement |-> "None", action |-> "TermsCorrected" ])

CorrectTermsLate(d, cmd, actor, now) ==
    When(/\ d.state \in {"PendingAgreement", "Agreed"} /\ cmd.name = "CorrectTerms"
         /\ actor \in Parties /\ cmd.terms \in Terms,
         [ deal |-> [d EXCEPT !.version = @ + 1, !.terms = cmd.terms,
                              !.termsRevision = @ + 1, !.confirmed = Nobody],
           timers |-> << >>, settlement |-> "None", action |-> "TermsCorrected" ])

CorrectTerms(d, cmd, actor, now) ==
    When(/\ d.state = "PendingAgreement"
         /\ cmd.name = "CorrectTerms"
         /\ actor \in Parties
         /\ cmd.terms \in Terms,
         [ deal |-> [d EXCEPT !.version = @ + 1,
                              !.terms = cmd.terms,
                              !.termsRevision = @ + 1,
                              !.confirmed = Nobody],
           timers |-> << >>,
           settlement |-> "None",
           action |-> "TermsCorrected" ])

\* Mutation of ConfirmTerms: the freeze starts no funding window.
ConfirmTermsUntimed(d, cmd, actor, now) ==
    LET marked == [d EXCEPT !.version = @ + 1, !.confirmed[actor] = cmd.revision]
        frozen == [marked EXCEPT !.state = "Agreed", !.frozenAt = now,
                                 !.termsHash = CanonicalHash(d.terms)]
    IN  When(/\ d.state = "PendingAgreement" /\ cmd.name = "ConfirmTerms"
             /\ actor \in Parties /\ cmd.revision = d.termsRevision,
             IF BothConfirmed(marked)
             THEN [ deal |-> frozen, timers |-> <<CancelTimer("AgreementExpiry")>>,
                    settlement |-> "None", action |-> "TermsFrozen" ]
             ELSE [ deal |-> marked, timers |-> << >>,
                    settlement |-> "None", action |-> "TermsConfirmed" ])

\* The second confirmation of one revision freezes and hashes the terms.
ConfirmTerms(d, cmd, actor, now) ==
    LET marked == [d EXCEPT !.version = @ + 1, !.confirmed[actor] = cmd.revision]
    IN  When(/\ d.state = "PendingAgreement"
             /\ cmd.name = "ConfirmTerms"
             /\ actor \in Parties
             /\ cmd.revision = d.termsRevision
             /\ d.terms # NoTerms,
             IF BothConfirmed(marked)
             THEN [ deal |-> [marked EXCEPT !.state = "Agreed",
                                            !.termsHash = CanonicalHash(d.terms),
                                            !.frozenAt = now],
                    timers |-> <<CancelTimer("AgreementExpiry"),
                                 SetTimer("FundingExpiry", now + FundingWindow)>>,
                    settlement |-> "None",
                    action |-> "TermsFrozen" ]
             ELSE [ deal |-> marked,
                    timers |-> << >>,
                    settlement |-> "None",
                    action |-> "TermsConfirmed" ])

\* Mutation of Fund: custody starts no handoff deadline.
FundUntimed(d, cmd, actor, now) ==
    When(d.state = "Agreed" /\ cmd.name = "Fund" /\ actor = "buyer",
         [ deal |-> [d EXCEPT !.version = @ + 1, !.state = "Funded"],
           timers |-> <<CancelTimer("FundingExpiry")>>,
           settlement |-> "Hold", action |-> "FundsHeld" ])

Fund(d, cmd, actor, now) ==
    When(/\ d.state = "Agreed"
         /\ cmd.name = "Fund"
         /\ actor = "buyer"
         /\ d.terms # NoTerms,
         [ deal |-> [d EXCEPT !.version = @ + 1, !.state = "Funded"],
           timers |-> <<CancelTimer("FundingExpiry"),
                        SetTimer("HandoffDeadline", now + HandoffWindow)>>,
           settlement |-> "Hold",
           action |-> "FundsHeld" ])

SubmitHandoffProof(d, cmd, actor, now) ==
    When(/\ d.state = "Funded"
         /\ cmd.name = "SubmitHandoffProof"
         /\ actor = "seller",
         [ deal |-> [d EXCEPT !.version = @ + 1, !.state = "HandoffProved"],
           timers |-> <<CancelTimer("HandoffDeadline"),
                        SetTimer("ReceiptWindow", now + ReceiptWindow)>>,
           settlement |-> "None",
           action |-> "HandoffProved" ])

ConfirmReceipt(d, cmd, actor, now) ==
    When(/\ d.state = "HandoffProved"
         /\ cmd.name = "ConfirmReceipt"
         /\ actor = "buyer",
         [ deal |-> [d EXCEPT !.version = @ + 1,
                              !.state = "Holding",
                              !.releaseDueAt = now + ReleaseHold],
           timers |-> <<CancelTimer("ReceiptWindow"),
                        SetTimer("ReleaseHold", now + ReleaseHold)>>,
           settlement |-> "None",
           action |-> "ReceiptConfirmed" ])

\* Mutation of AutoConfirmReceipt: the receipt does not say it was automatic.
AutoConfirmUnlabelled(d, cmd, actor, now) ==
    When(d.state = "HandoffProved" /\ cmd.name = "Expire" /\ actor = "system",
         [ deal |-> [d EXCEPT !.version = @ + 1, !.state = "Holding",
                              !.releaseDueAt = now + ReleaseHold],
           timers |-> <<SetTimer("ReleaseHold", now + ReleaseHold)>>,
           settlement |-> "None", action |-> "ReceiptConfirmed" ])

\* The buyer went quiet: the release clock starts, and the receipt says so.
AutoConfirmReceipt(d, cmd, actor, now) ==
    When(/\ d.state = "HandoffProved"
         /\ cmd.name = "Expire"
         /\ actor = "system",
         [ deal |-> [d EXCEPT !.version = @ + 1,
                              !.state = "Holding",
                              !.releaseDueAt = now + ReleaseHold,
                              !.receiptAutoConfirmed = TRUE],
           timers |-> <<SetTimer("ReleaseHold", now + ReleaseHold)>>,
           settlement |-> "None",
           action |-> "ReceiptConfirmed" ])

\* Mutation of ReleaseFunds: any deal whose funds are held may release them.
ReleaseFromCustody(d, cmd, actor, now) ==
    When(FundsHeld(d) /\ cmd.name = "ReleaseFunds" /\ actor \in {"system", "buyer"},
         [ deal |-> [d EXCEPT !.version = @ + 1, !.state = "Completed",
                              !.terminalAt = now],
           timers |-> <<CancelTimer("ReleaseHold")>>,
           settlement |-> "Release", action |-> "FundsReleased" ])

ReleaseFunds(d, cmd, actor, now) ==
    When(/\ d.state = "Holding"
         /\ cmd.name = "ReleaseFunds"
         /\ actor \in {"system", "buyer"},
         [ deal |-> [d EXCEPT !.version = @ + 1,
                              !.state = "Completed",
                              !.terminalAt = now],
           timers |-> <<CancelTimer("ReleaseHold")>>,
           settlement |-> "Release",
           action |-> "FundsReleased" ])

\* Mutation of OpenDispute: the handoff deadline keeps running.
OpenDisputeKeepsDeadline(d, cmd, actor, now) ==
    When(/\ d.state \in {"Funded", "HandoffProved", "Holding"}
         /\ cmd.name = "OpenDispute" /\ actor \in Parties,
         [ deal |-> [d EXCEPT !.version = @ + 1, !.state = "Disputed"],
           timers |-> <<CancelTimer("ReleaseHold"), CancelTimer("ReceiptWindow")>>,
           settlement |-> "None", action |-> "DisputeOpened" ])

OpenDispute(d, cmd, actor, now) ==
    When(/\ d.state \in {"Funded", "HandoffProved", "Holding"}
         /\ cmd.name = "OpenDispute"
         /\ actor \in Parties,
         [ deal |-> [d EXCEPT !.version = @ + 1, !.state = "Disputed"],
           timers |-> <<CancelTimer("ReleaseHold"),
                        CancelTimer("ReceiptWindow"),
                        CancelTimer("HandoffDeadline")>>,
           settlement |-> "None",
           action |-> "DisputeOpened" ])

\* Mutations of ResolveDispute: a withdrawn dispute pays the seller and goes on;
\* it resumes the hold with the date of the interrupted one.
ResolveDisputePays(d, cmd, actor, now) ==
    When(d.state = "Disputed" /\ cmd.name = "ResolveDispute" /\ actor = "mediator",
         [ deal |-> [d EXCEPT !.version = @ + 1, !.state = "Holding",
                              !.releaseDueAt = now + ReleaseHold],
           timers |-> <<SetTimer("ReleaseHold", now + ReleaseHold)>>,
           settlement |-> "Release", action |-> "DisputeResolved" ])

ResolveDisputeOldDate(d, cmd, actor, now) ==
    When(d.state = "Disputed" /\ cmd.name = "ResolveDispute" /\ actor = "mediator",
         [ deal |-> [d EXCEPT !.version = @ + 1, !.state = "Holding"],
           timers |-> <<SetTimer("ReleaseHold", now + ReleaseHold)>>,
           settlement |-> "None", action |-> "DisputeResolved" ])

ResolveDispute(d, cmd, actor, now) ==
    LET closed == [d EXCEPT !.version = @ + 1,
                            !.state = "Resolved",
                            !.outcome = cmd.outcome,
                            !.terminalAt = now]
        resumed == [d EXCEPT !.version = @ + 1,
                             !.state = "Holding",
                             !.releaseDueAt = now + ReleaseHold]
        payout == IF cmd.outcome = "ReleaseToSeller" THEN "Release" ELSE "Refund"
    IN  When(/\ d.state = "Disputed"
             /\ cmd.name = "ResolveDispute"
             /\ actor = "mediator",
             IF cmd.outcome = "Withdrawn"
             THEN [ deal |-> resumed,
                    timers |-> <<SetTimer("ReleaseHold", now + ReleaseHold)>>,
                    settlement |-> "None",
                    action |-> "DisputeResolved" ]
             ELSE [ deal |-> closed,
                    timers |-> << >>,
                    settlement |-> payout,
                    action |-> "DisputeResolved" ])

Cancel(d, cmd, actor, now) ==
    When(/\ d.state \in UnfundedStates
         /\ cmd.name = "Cancel"
         /\ actor \in Parties,
         [ deal |-> [d EXCEPT !.version = @ + 1,
                              !.state = "Cancelled",
                              !.terminalAt = now],
           timers |-> <<CancelTimer("AgreementExpiry"), CancelTimer("FundingExpiry")>>,
           settlement |-> "None",
           action |-> "Cancelled" ])

\* Expire carries the name of the window, but no arm compares it with the state.
ExpireUnfunded(d, cmd, actor, now) ==
    When(/\ d.state \in UnfundedStates
         /\ cmd.name = "Expire"
         /\ actor = "system",
         [ deal |-> [d EXCEPT !.version = @ + 1,
                              !.state = "Expired",
                              !.terminalAt = now],
           timers |-> <<CancelTimer("AgreementExpiry"), CancelTimer("FundingExpiry")>>,
           settlement |-> "None",
           action |-> "Expired" ])

RefundExpired(d, cmd, actor, now) ==
    When(/\ d.state = "Funded"
         /\ cmd.name = "Expire"
         /\ actor = "system",
         [ deal |-> [d EXCEPT !.version = @ + 1,
                              !.state = "Refunded",
                              !.terminalAt = now],
           timers |-> <<CancelTimer("HandoffDeadline")>>,
           settlement |-> "Refund",
           action |-> "FundsRefunded" ])

Transition(d, cmd, actor, now) ==
         ProposeExtraction(d, cmd, actor, now)
    \cup CorrectTerms(d, cmd, actor, now)
    \cup ConfirmTerms(d, cmd, actor, now)
    \cup Fund(d, cmd, actor, now)
    \cup SubmitHandoffProof(d, cmd, actor, now)
    \cup ConfirmReceipt(d, cmd, actor, now)
    \cup AutoConfirmReceipt(d, cmd, actor, now)
    \cup ReleaseFunds(d, cmd, actor, now)
    \cup OpenDispute(d, cmd, actor, now)
    \cup ResolveDispute(d, cmd, actor, now)
    \cup Cancel(d, cmd, actor, now)
    \cup ExpireUnfunded(d, cmd, actor, now)
    \cup RefundExpired(d, cmd, actor, now)

\* How long the timer of each kind runs.
Window ==
    [k \in TimerKinds |->
        CASE k = "AgreementExpiry" -> AgreementWindow
          [] k = "FundingExpiry"   -> FundingWindow
          [] k = "HandoffDeadline" -> HandoffWindow
          [] k = "ReceiptWindow"   -> ReceiptWindow
          [] k = "ReleaseHold"     -> ReleaseHold]

\* What the deal waits for in each state that has a deadline.
Awaits ==
    [s \in {"PendingAgreement", "Agreed", "Funded", "HandoffProved", "Holding"} |->
        CASE s = "PendingAgreement" -> "AgreementExpiry"
          [] s = "Agreed"           -> "FundingExpiry"
          [] s = "Funded"           -> "HandoffDeadline"
          [] s = "HandoffProved"    -> "ReceiptWindow"
          [] s = "Holding"          -> "ReleaseHold"]

\* The attestations that start each timer, and those its running out leads to.
StartedBy ==
    [k \in TimerKinds |->
        CASE k = "AgreementExpiry" -> {"WitnessProposed"}
          [] k = "FundingExpiry"   -> {"TermsFrozen"}
          [] k = "HandoffDeadline" -> {"FundsHeld"}
          [] k = "ReceiptWindow"   -> {"HandoffProved"}
          [] k = "ReleaseHold"     -> {"ReceiptConfirmed", "DisputeResolved"}]

LeadsTo ==
    [k \in TimerKinds |->
        IF k = "ReleaseHold" THEN {"FundsReleased"}
        ELSE {"Expired", "FundsRefunded", "ReceiptConfirmed"}]

\* The command a due timer issues, as System (service.rs, fire_task).
TimerCommand(kind) ==
    Command(IF kind = "ReleaseHold" THEN "ReleaseFunds" ELSE "Expire")
=============================================================================
