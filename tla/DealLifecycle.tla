---------------------------- MODULE DealLifecycle ----------------------------
(***************************************************************************)
(* What the platform promises about one deal: every accepted command moves *)
(* the deal and appends exactly one attestation to its chain, in one step. *)
(* It has no requests in flight, no rows and no retries, and the system    *)
(* may fire a timer's command at any moment.  DealDeadlines adds the clock *)
(* to it, and HandshakeService is shown to implement it.                   *)
(*                                                                         *)
(* A command is decided as of some instant `at`, which an implementation   *)
(* may have read from its clock a while ago.                               *)
(***************************************************************************)
EXTENDS Deal

CONSTANTS MaxVersion,   \* bound: no command is issued to a deal of this version
          MaxTime       \* bound: the clock stops here

ASSUME BoundsAssumption == MaxVersion \in Nat /\ MaxTime \in Nat

VARIABLES
    deal,      \* the row of `deals`
    chain,     \* the rows of `attestations`, in order of seq
    intents,   \* every settlement the accepted commands asked for, in order
    now        \* wall clock

vars == <<deal, chain, intents, now>>

Row(action, actor, at) == [action |-> action, actor |-> actor, at |-> at]

LastAt == IF chain = << >> THEN 0 ELSE chain[Len(chain)].at

-----------------------------------------------------------------------------
Init ==
    /\ deal = NewDeal
    /\ chain = << >>
    /\ intents = << >>
    /\ now = 0

\* Mutation of Recorded: a transition that moves no money is recorded too.
RecordedAlways(t) == Append(intents, t.settlement)

Recorded(t) == IF t.settlement = "None" THEN intents ELSE Append(intents, t.settlement)

\* People stop at the bound; timers run out by themselves.
MayAct == deal.version < MaxVersion

\* One command by one actor, decided as of `at`: deal and chain move together.
Accept(cmd, actor, at) ==
    /\ \E t \in Transition(deal, cmd, actor, at) :
          /\ deal' = t.deal
          /\ chain' = Append(chain, Row(t.action, actor, at))
          /\ intents' = Recorded(t)
    /\ UNCHANGED now

WitnessProposes(at) ==
    MayAct /\ \E t \in Terms :
                  Accept([name |-> "ProposeExtraction", terms |-> t], "system", at)

PartyCorrects(at) ==
    MayAct /\ \E p \in Parties, t \in Terms :
                  Accept([name |-> "CorrectTerms", terms |-> t], p, at)

PartyConfirms(at) ==
    MayAct /\ \E p \in Parties, r \in 0 .. deal.termsRevision :
                  Accept([name |-> "ConfirmTerms", revision |-> r], p, at)

PartyActs(at) ==
    MayAct /\ \E p \in Parties, n \in Simple \ {"Expire"} : Accept(Command(n), p, at)

MediatorResolves(at) ==
    MayAct /\ \E o \in DisputeOutcomes :
                  Accept([name |-> "ResolveDispute", outcome |-> o], "mediator", at)

TimerFires(at) ==
    \E kind \in TimerKinds : Accept(TimerCommand(kind), "system", at)

Tick ==
    /\ now < MaxTime
    /\ now' = now + 1
    /\ UNCHANGED <<deal, chain, intents>>

Next ==
    \/ \E at \in LastAt .. now :
          \/ WitnessProposes(at)
          \/ PartyCorrects(at)
          \/ PartyConfirms(at)
          \/ PartyActs(at)
          \/ MediatorResolves(at)
          \/ TimerFires(at)
    \/ Tick

Spec == Init /\ [][Next]_vars

-----------------------------------------------------------------------------
(* Correctness.                                                            *)

TypeOK ==
    /\ deal \in DealType
    /\ chain \in Seq([action : AttestationActions, actor : Actors, at : Nat])
    /\ intents \in Seq(SettlementIntents \ {"None"})
    /\ now \in Nat

\* The chain holds one attestation per accepted command, so its next seq is
\* always the deal's version (state.rs bumps version, pg.rs inserts one row).
ChainIsVersion == Len(chain) = deal.version

\* Money is asked for in the order hold, then one release or one refund, and
\* DealState::funds_held() is true exactly between the two: no path of
\* commands, disputes and timers settles a deal twice or without a hold.
HeldThenSettledOnce ==
    /\ FundsHeld(deal) => intents = <<"Hold">>
    /\ deal.state \in UnfundedStates \cup {"Cancelled", "Expired"} => intents = << >>
    /\ deal.state \in {"Completed", "Refunded", "Resolved"} =>
          intents = <<"Hold", IF \/ deal.state = "Completed"
                                 \/ deal.outcome = "ReleaseToSeller"
                              THEN "Release" ELSE "Refund">>

\* The terms are bound by their hash exactly when both parties confirmed the
\* same, current revision of them, and the hash is of the terms on the row.
BoundTermsAreConfirmed ==
    /\ deal.termsHash # NoHash =>
          /\ \A p \in Parties : deal.confirmed[p] = deal.termsRevision
          /\ deal.terms \in Terms
          /\ deal.termsHash = CanonicalHash(deal.terms)
          /\ deal.frozenAt # None
    /\ deal.state \in CustodyStates \cup {"Agreed", "Completed", "Refunded", "Resolved"} =>
          deal.termsHash # NoHash

\* Behind every TermsFrozen attestation stands an earlier TermsConfirmed by the
\* other party, with no correction of the terms between the two.
FreezeTakesBothParties ==
    \A i \in DOMAIN chain : chain[i].action = "TermsFrozen" =>
        \E j \in 1 .. (i - 1) :
            /\ chain[j].action = "TermsConfirmed"
            /\ {chain[i].actor, chain[j].actor} = Parties
            /\ \A k \in j .. i : chain[k].action # "TermsCorrected"

Released == intents # << >> /\ intents[Len(intents)] = "Release"

\* A dispute has been reported withdrawn: the mediator closed it, not the deal.
Withdrawn(rows) ==
    /\ deal.state = "Completed"
    /\ \E r \in DOMAIN rows : rows[r].action = "DisputeResolved"

\* Funds reach the seller only after the buyer's hold, with every dispute
\* answered by the mediator, and because the buyer (or the timer) confirmed the
\* receipt after that hold or the mediator ruled for the seller.  The one way
\* past both is a dispute that was withdrawn: it decides nothing, and the deal
\* is resumed in Holding wherever it came from, receipt confirmed or not.
ReleaseHasGrounds ==
    Released =>
        \E h \in DOMAIN chain :
            /\ chain[h].action = "FundsHeld" /\ chain[h].actor = "buyer"
            /\ \A d \in DOMAIN chain : chain[d].action = "DisputeOpened" =>
                  \E r \in DOMAIN chain :
                      /\ r > d /\ chain[r].action = "DisputeResolved"
                      /\ chain[r].actor = "mediator"
            /\ \/ deal.outcome = "ReleaseToSeller"
               \/ \E g \in DOMAIN chain :
                     /\ g > h /\ chain[g].action = "ReceiptConfirmed"
                     /\ chain[g].actor # "seller"
               \/ Withdrawn(chain)

\* A receipt's label is honest: it says "auto-confirmed" exactly when the
\* chain's receipt confirmation was made by the system.
AutoConfirmedIsLabelled ==
    deal.receiptAutoConfirmed <=>
        \E i \in DOMAIN chain : /\ chain[i].action = "ReceiptConfirmed"
                                /\ chain[i].actor = "system"

\* Once hashed, the terms, their hash, revision and confirmations never change,
\* and a closed deal never changes at all.
BoundTermsStand ==
    [][ /\ deal.termsHash # NoHash =>
             /\ deal'.termsHash = deal.termsHash
             /\ deal'.terms = deal.terms
             /\ deal'.termsRevision = deal.termsRevision
             /\ deal'.confirmed = deal.confirmed
             /\ deal'.frozenAt = deal.frozenAt
        /\ IsTerminal(deal) => deal' = deal ]_vars

=============================================================================
