------------------------- MODULE DealLifecycleProofs -------------------------
(***************************************************************************)
(* What holds of DealLifecycle for every set of terms, every length of the *)
(* windows and every bound.  DealLemmas speaks of one accepted transition  *)
(* of Deal; the theorems carry it to the machine.                          *)
(***************************************************************************)
EXTENDS DealLifecycle, DealLemmas

-----------------------------------------------------------------------------
(* The machine: every step but the clock's is one well-formed accept.      *)

\* A deal not yet frozen has no hash, and only a resolution has an outcome.
Unbound ==
    /\ deal.state \in {"Draft", "PendingAgreement"} => deal.termsHash = NoHash
    /\ OutcomeIsResolution(deal)

IInv == /\ TypeOK
        /\ ChainIsVersion
        /\ HeldThenSettledOnce
        /\ BoundTermsAreConfirmed
        /\ Unbound

LEMMA LastAtIsNat ==
    ASSUME TypeOK
    PROVE  LastAt \in Nat
<1>1. CASE chain = << >>
  BY <1>1 DEF LastAt
<1>2. CASE chain # << >>
  <2>1. Len(chain) \in 1 .. Len(chain)
    BY <1>2 DEF TypeOK
  <2> DEFINE Rows == [action : AttestationActions, actor : Actors, at : Nat]
  <2>2. chain \in Seq(Rows)
    BY DEF TypeOK
  <2>3. \A row \in Rows : row.at \in Nat
    OBVIOUS
  <2> HIDE DEF Rows
  <2>4. chain[Len(chain)] \in Rows
    BY <2>1, <2>2
  <2> QED
    BY <1>2, <2>3, <2>4 DEF LastAt
<1> QED
  BY <1>1, <1>2

LEMMA InstantIsNat ==
    ASSUME TypeOK, NEW at \in LastAt .. now
    PROVE  at \in Nat
BY LastAtIsNat DEF TypeOK

LEMMA NextAccepts ==
    ASSUME TypeOK, Next
    PROVE  \/ Tick
           \/ \E cmd : \E actor \in Actors, at \in LastAt .. now :
                 WellFormed(cmd) /\ Accept(cmd, actor, at)
<1>a. Parties \subseteq Actors /\ "system" \in Actors /\ "mediator" \in Actors
  BY DEF Actors
<1>1. ASSUME NEW at \in LastAt .. now, WitnessProposes(at)
      PROVE  \E cmd : \E actor \in Actors : WellFormed(cmd) /\ Accept(cmd, actor, at)
  <2>1. PICK t \in Terms : Accept([name |-> "ProposeExtraction", terms |-> t], "system", at)
    BY <1>1 DEF WitnessProposes
  <2>2. WellFormed([name |-> "ProposeExtraction", terms |-> t])
    BY DEF WellFormed
  <2> QED
    BY <2>1, <2>2, <1>a DEF Accept
<1>2. ASSUME NEW at \in LastAt .. now, PartyCorrects(at)
      PROVE  \E cmd : \E actor \in Actors : WellFormed(cmd) /\ Accept(cmd, actor, at)
  <2>1. PICK p \in Parties, t \in Terms : Accept([name |-> "CorrectTerms", terms |-> t], p, at)
    BY <1>2 DEF PartyCorrects
  <2>2. WellFormed([name |-> "CorrectTerms", terms |-> t])
    BY DEF WellFormed
  <2> QED
    BY <2>1, <2>2, <1>a DEF Accept
<1>3. ASSUME NEW at \in LastAt .. now, PartyConfirms(at)
      PROVE  \E cmd : \E actor \in Actors : WellFormed(cmd) /\ Accept(cmd, actor, at)
  <2>1. PICK p \in Parties, r \in 0 .. deal.termsRevision :
           Accept([name |-> "ConfirmTerms", revision |-> r], p, at)
    BY <1>3 DEF PartyConfirms
  <2>2. WellFormed([name |-> "ConfirmTerms", revision |-> r])
    BY DEF WellFormed
  <2> QED
    BY <2>1, <2>2, <1>a DEF Accept
<1>4. ASSUME NEW at \in LastAt .. now, PartyActs(at)
      PROVE  \E cmd : \E actor \in Actors : WellFormed(cmd) /\ Accept(cmd, actor, at)
  <2>1. PICK p \in Parties, n \in Simple : Accept(Command(n), p, at)
    BY <1>4 DEF PartyActs
  <2>2. WellFormed(Command(n))
    BY DEF WellFormed, Command, Simple
  <2> QED
    BY <2>1, <2>2, <1>a DEF Accept
<1>5. ASSUME NEW at \in LastAt .. now, MediatorResolves(at)
      PROVE  \E cmd : \E actor \in Actors : WellFormed(cmd) /\ Accept(cmd, actor, at)
  <2>1. PICK o \in DisputeOutcomes :
           Accept([name |-> "ResolveDispute", outcome |-> o], "mediator", at)
    BY <1>5 DEF MediatorResolves
  <2>2. WellFormed([name |-> "ResolveDispute", outcome |-> o])
    BY DEF WellFormed
  <2> QED
    BY <2>1, <2>2, <1>a DEF Accept
<1>6. ASSUME NEW at \in LastAt .. now, TimerFires(at)
      PROVE  \E cmd : \E actor \in Actors : WellFormed(cmd) /\ Accept(cmd, actor, at)
  <2>1. PICK kind \in TimerKinds : Accept(TimerCommand(kind), "system", at)
    BY <1>6 DEF TimerFires
  <2>2. WellFormed(TimerCommand(kind))
    BY DEF WellFormed, TimerCommand, Command
  <2> QED
    BY <2>1, <2>2, <1>a DEF Accept
<1> QED
  BY <1>1, <1>2, <1>3, <1>4, <1>5, <1>6 DEF Next

LEMMA AcceptTyped ==
    ASSUME TypeOK, ChainIsVersion, NEW cmd, WellFormed(cmd), NEW actor \in Actors,
           NEW at \in Nat, Accept(cmd, actor, at)
    PROVE  TypeOK' /\ ChainIsVersion'
<1>1. PICK t \in Transition(deal, cmd, actor, at) :
         /\ deal' = t.deal /\ chain' = Append(chain, Row(t.action, actor, at))
         /\ intents' = Recorded(t) /\ now' = now
  BY DEF Accept
<1>2. /\ t.deal \in DealType /\ t.deal.version = deal.version + 1
      /\ t.settlement \in SettlementIntents /\ t.action \in AttestationActions
  BY TransitionTyped DEF TypeOK
<1>3. chain' \in Seq([action : AttestationActions, actor : Actors, at : Nat])
  <2>1. Row(t.action, actor, at) \in [action : AttestationActions, actor : Actors, at : Nat]
    BY <1>2 DEF Row
  <2> QED
    BY <1>1, <2>1 DEF TypeOK
<1>4. intents' \in Seq(SettlementIntents \ {"None"})
  <2>1. CASE t.settlement = "None"
    BY <1>1, <2>1 DEF Recorded, TypeOK
  <2>2. CASE t.settlement # "None"
    BY <1>1, <1>2, <2>2 DEF Recorded, TypeOK
  <2> QED
    BY <2>1, <2>2
<1>5. Len(chain') = Len(chain) + 1
  BY <1>1 DEF TypeOK
<1> QED
  BY <1>1, <1>2, <1>3, <1>4, <1>5 DEF TypeOK, ChainIsVersion

\* Money moves along the edges in the order hold, then one release or refund.
LEMMA AcceptSettles ==
    ASSUME TypeOK, HeldThenSettledOnce, Unbound, NEW cmd, WellFormed(cmd),
           NEW actor \in Actors, NEW at \in Nat, Accept(cmd, actor, at)
    PROVE  HeldThenSettledOnce' /\ OutcomeIsResolution(deal')
<1>1. PICK t \in Transition(deal, cmd, actor, at) :
         deal' = t.deal /\ intents' = Asked(intents, t)
  BY DEF Accept, Recorded, Asked
<1>2. deal \in DealType /\ MoneyInOrder(deal, intents)
  BY DEF TypeOK, HeldThenSettledOnce, MoneyInOrder, Unbound
<1>3. MoneyInOrder(deal', intents')
  BY <1>1, <1>2, TransitionSettles
<1> QED
  BY <1>3 DEF MoneyInOrder, HeldThenSettledOnce

\* The hash appears at the freeze, and the terms stand from then on.
LEMMA AcceptBinds ==
    ASSUME TypeOK, BoundTermsAreConfirmed, Unbound, NEW cmd, WellFormed(cmd),
           NEW actor \in Actors, NEW at \in Nat, Accept(cmd, actor, at)
    PROVE  /\ BoundTermsAreConfirmed'
           /\ deal'.state \in {"Draft", "PendingAgreement"} => deal'.termsHash = NoHash
           /\ deal.termsHash # NoHash => SameTerms(deal, deal')
           /\ ~IsTerminal(deal)
<1>1. PICK t \in Transition(deal, cmd, actor, at) : deal' = t.deal
  BY DEF Accept
<1>2. deal \in DealType
  BY DEF TypeOK
<1>4. CASE Negotiates(deal, t.deal, at)
  BY <1>1, <1>4
     DEF Negotiates, BoundTermsAreConfirmed, Unbound, CustodyStates, IsTerminal, TerminalStates
<1>5. CASE Freezes(deal, t.deal, at)
  <2>1. CanonicalHash(deal.terms) # NoHash /\ at # None
    BY <1>5, TermsAssumption DEF Freezes, CanonicalHash, NoHash, None
  <2> QED
    BY <1>1, <1>5, <2>1
       DEF Freezes, BoundTermsAreConfirmed, Unbound, IsTerminal, TerminalStates
<1>6. CASE /\ <<deal.state, t.deal.state, t.settlement>> \in Edges
           /\ SameTerms(deal, t.deal)
  <2>1. /\ deal.state \in CustodyStates \cup UnfundedStates
        /\ t.deal.state \notin {"Draft", "PendingAgreement"}
        /\ t.deal.state \in CustodyStates \cup {"Agreed", "Completed", "Refunded", "Resolved"} =>
              deal.state \in CustodyStates \cup {"Agreed"}
    BY <1>6 DEF Edges, CustodyStates, UnfundedStates
  <2>2. ~IsTerminal(deal)
    BY <2>1 DEF CustodyStates, UnfundedStates, IsTerminal, TerminalStates
  <2> QED
    BY <1>1, <1>6, <2>1, <2>2 DEF SameTerms, BoundTermsAreConfirmed
<1>7. CASE Resolves(deal, t) /\ SameTerms(deal, t.deal)
  BY <1>1, <1>7
     DEF Resolves, SameTerms, BoundTermsAreConfirmed, CustodyStates, IsTerminal, TerminalStates
<1> QED
  BY <1>1, <1>2, <1>4, <1>5, <1>6, <1>7, TransitionEffect

-----------------------------------------------------------------------------
LEMMA InitIInv == Init => IInv
<1> SUFFICES ASSUME Init PROVE IInv
  OBVIOUS
<1>1. deal = NewDeal /\ chain = << >> /\ intents = << >> /\ now = 0
  BY DEF Init
<1>2. NewDeal \in DealType
  BY DEF NewDeal, DealType, States, MaybeNat, None, Nobody, NoHash, CanonicalHash
<1>3. /\ NewDeal.state = "Draft" /\ NewDeal.version = 0 /\ NewDeal.outcome = "None"
      /\ NewDeal.termsHash = NoHash
  BY DEF NewDeal
<1>4. TypeOK /\ ChainIsVersion
  BY <1>1, <1>2, <1>3 DEF TypeOK, ChainIsVersion
<1>5. HeldThenSettledOnce /\ BoundTermsAreConfirmed /\ Unbound
  BY <1>1, <1>3
     DEF HeldThenSettledOnce, BoundTermsAreConfirmed, Unbound, OutcomeIsResolution, FundsHeld,
         UnfundedStates, CustodyStates
<1> QED
  BY <1>4, <1>5 DEF IInv

LEMMA AcceptKeepsIInv ==
    ASSUME IInv, NEW cmd, WellFormed(cmd), NEW actor \in Actors, NEW at \in Nat,
           Accept(cmd, actor, at)
    PROVE  IInv'
<1>1. TypeOK' /\ ChainIsVersion'
  BY AcceptTyped DEF IInv
<1>2. HeldThenSettledOnce' /\ OutcomeIsResolution(deal')
  BY AcceptSettles DEF IInv
<1>3. /\ BoundTermsAreConfirmed'
      /\ deal'.state \in {"Draft", "PendingAgreement"} => deal'.termsHash = NoHash
  BY AcceptBinds DEF IInv
<1> QED
  BY <1>1, <1>2, <1>3 DEF IInv, Unbound

LEMMA StepKeepsIInv == IInv /\ [Next]_vars => IInv'
<1> SUFFICES ASSUME IInv, [Next]_vars PROVE IInv'
  OBVIOUS
<1>t. TypeOK
  BY DEF IInv
<1>1. CASE UNCHANGED vars
  BY <1>1
     DEF vars, IInv, TypeOK, ChainIsVersion, HeldThenSettledOnce, BoundTermsAreConfirmed, Unbound
<1>2. CASE Tick
  BY <1>2
     DEF Tick, IInv, TypeOK, ChainIsVersion, HeldThenSettledOnce, BoundTermsAreConfirmed, Unbound
<1>3. ASSUME NEW cmd, NEW actor \in Actors, NEW at \in LastAt .. now,
             WellFormed(cmd), Accept(cmd, actor, at)
      PROVE  IInv'
  BY <1>t, <1>3, InstantIsNat, AcceptKeepsIInv
<1> QED
  BY <1>t, <1>1, <1>2, <1>3, NextAccepts

LEMMA Inductive == Spec => []IInv
BY InitIInv, StepKeepsIInv, PTL DEF Spec

-----------------------------------------------------------------------------
(* The chain as evidence: what its rows say of how the deal got here.      *)

BuyerFunded(row) == row.action = "FundsHeld" /\ row.actor = "buyer"

HasHold(rows) == \E h \in DOMAIN rows : BuyerFunded(rows[h])

Receipt(row) == row.action = "ReceiptConfirmed" /\ row.actor # "seller"

\* The receipt was confirmed after the hold at h, or a dispute has been closed.
ReceiptAfter(rows, h) == \E g \in DOMAIN rows : g > h /\ Receipt(rows[g])
DisputeClosed(rows)   == \E r \in DOMAIN rows : rows[r].action = "DisputeResolved"

Answers(rows, r, d) ==
    r > d /\ rows[r].action = "DisputeResolved" /\ rows[r].actor = "mediator"

DisputesAnswered(rows) ==
    \A d \in DOMAIN rows : rows[d].action = "DisputeOpened" =>
        \E r \in DOMAIN rows : Answers(rows, r, d)

\* What a deal in Holding has behind it.
Grounds(rows) ==
    \E h \in DOMAIN rows : /\ BuyerFunded(rows[h])
                           /\ ReceiptAfter(rows, h) \/ DisputeClosed(rows)

\* A confirmation by p that no correction has come after.
ConfirmationStands(p) ==
    \E j \in DOMAIN chain :
        /\ chain[j].action = "TermsConfirmed" /\ chain[j].actor = p
        /\ \A k \in j .. Len(chain) : chain[k].action # "TermsCorrected"

Evidence ==
    /\ FreezeTakesBothParties
    /\ ReleaseHasGrounds
    /\ AutoConfirmedIsLabelled
    /\ intents # << >> => HasHold(chain)
    /\ deal.state = "Holding" => Grounds(chain)
    /\ deal.state # "Disputed" => DisputesAnswered(chain)
    /\ deal.state = "PendingAgreement" =>
          \A p \in Parties : ConfirmedBy(deal, p) => ConfirmationStands(p)

\* The rows so far stand; one is added at the end.
Extends(row) ==
    /\ Len(chain) \in Nat
    /\ DOMAIN chain = 1 .. Len(chain)
    /\ DOMAIN chain' = 1 .. (Len(chain) + 1)
    /\ Len(chain') = Len(chain) + 1
    /\ \A i \in 1 .. Len(chain) : chain'[i] = chain[i]
    /\ chain'[Len(chain) + 1] = row

LEMMA AcceptExtends ==
    ASSUME TypeOK, NEW cmd, WellFormed(cmd), NEW actor \in Actors, NEW at \in Nat,
           NEW t \in Transition(deal, cmd, actor, at),
           chain' = Append(chain, Row(t.action, actor, at))
    PROVE  Extends([action |-> t.action, actor |-> actor, at |-> at])
<1> DEFINE Rows == [action : AttestationActions, actor : Actors, at : Nat]
           row == [action |-> t.action, actor |-> actor, at |-> at]
<1>1. chain \in Seq(Rows) /\ row \in Rows
  BY TransitionTyped DEF TypeOK
<1>2. chain' = Append(chain, row)
  BY DEF Row
<1> HIDE DEF Rows, row
<1>3. Extends(row)
  BY <1>1, <1>2, AppendProperties DEF Extends
<1> QED
  BY <1>3 DEF row

\* Money has been taken before a release clock starts or money goes out.
LEMMA HoldComesFirst ==
    ASSUME TypeOK, HeldThenSettledOnce, NEW cmd, WellFormed(cmd), NEW actor \in Actors,
           NEW at \in Nat, NEW t \in Transition(deal, cmd, actor, at),
           t.settlement \in {"Release", "Refund"} \/ t.deal.state = "Holding"
    PROVE  intents # << >>
<1>1. deal \in DealType
  BY DEF TypeOK
<1>2. deal.state \in CustodyStates
  BY <1>1, TransitionEffect DEF Negotiates, Freezes, Edges, Resolves, CustodyStates
<1> QED
  BY <1>2 DEF HeldThenSettledOnce, FundsHeld

LEMMA AcceptKeepsLabel ==
    ASSUME AutoConfirmedIsLabelled, NEW row, Extends(row), NEW t, deal' = t.deal,
           row.action = t.action, AttestsReceipt(deal, t, row.actor)
    PROVE  AutoConfirmedIsLabelled'
<1> DEFINE ByTimer(r) == r.action = "ReceiptConfirmed" /\ r.actor = "system"
<1>1. (\E i \in DOMAIN chain' : ByTimer(chain'[i])) <=>
         (ByTimer(row) \/ \E i \in DOMAIN chain : ByTimer(chain[i]))
  BY DEF Extends
<1>2. deal'.receiptAutoConfirmed <=> (deal.receiptAutoConfirmed \/ ByTimer(row))
  BY DEF AttestsReceipt
<1> QED
  BY <1>1, <1>2 DEF AutoConfirmedIsLabelled

LEMMA AcceptKeepsGrounds ==
    ASSUME TypeOK, Evidence, ~Released, NEW row, Extends(row), NEW t,
           deal' = t.deal, intents' = Recorded(t), row.action = t.action,
           t.settlement \in SettlementIntents,
           AttestsMoney(deal, t, row.actor),
           (t.settlement \in {"Release", "Refund"} \/ t.deal.state = "Holding")
              => intents # << >>
    PROVE  /\ ReleaseHasGrounds'
           /\ intents' # << >> => HasHold(chain')
           /\ deal'.state = "Holding" => Grounds(chain')
           /\ deal'.state # "Disputed" => DisputesAnswered(chain')
<1> DEFINE last == Len(chain) + 1
<1>1. /\ \A i \in DOMAIN chain : i \in DOMAIN chain' /\ i < last /\ chain'[i] = chain[i]
      /\ \A i \in DOMAIN chain' : i \in DOMAIN chain \/ i = last
      /\ last \in DOMAIN chain' /\ chain'[last] = row
  BY DEF Extends
<1> HIDE DEF last
<1>2. ASSUME NEW h \in DOMAIN chain, BuyerFunded(chain[h])
      PROVE  /\ h \in DOMAIN chain' /\ BuyerFunded(chain'[h]) /\ h < last
             /\ ReceiptAfter(chain, h) => ReceiptAfter(chain', h)
             /\ Receipt(row) => ReceiptAfter(chain', h)
  BY <1>1, <1>2 DEF ReceiptAfter
<1>3. /\ DisputeClosed(chain) => DisputeClosed(chain')
      /\ row.action = "DisputeResolved" => DisputeClosed(chain')
  BY <1>1 DEF DisputeClosed
<1>4. intents # << >> => \E h \in DOMAIN chain : BuyerFunded(chain[h])
  BY DEF Evidence, HasHold
<1>5. deal'.state = "Holding" => Grounds(chain')
  <2> SUFFICES ASSUME deal'.state = "Holding" PROVE Grounds(chain')
    OBVIOUS
  <2>1. PICK h \in DOMAIN chain : BuyerFunded(chain[h])
    BY <1>4
  <2>2. Receipt(row) \/ row.action = "DisputeResolved"
    BY DEF AttestsMoney, Receipt
  <2>3. h \in DOMAIN chain' /\ BuyerFunded(chain'[h])
    BY <1>2, <2>1
  <2>4. ReceiptAfter(chain', h) \/ DisputeClosed(chain')
    BY <1>2, <1>3, <2>1, <2>2
  <2> QED
    BY <2>3, <2>4 DEF Grounds
<1>6. deal'.state # "Disputed" => DisputesAnswered(chain')
  <2> SUFFICES ASSUME deal'.state # "Disputed",
                      NEW d \in DOMAIN chain', chain'[d].action = "DisputeOpened"
               PROVE  \E r \in DOMAIN chain' : Answers(chain', r, d)
    BY DEF DisputesAnswered
  <2>1. d \in DOMAIN chain /\ d < last /\ chain[d].action = "DisputeOpened"
    BY <1>1 DEF AttestsMoney
  <2>2. CASE deal.state = "Disputed"
    <3>1. Answers(chain', last, d)
      BY <1>1, <2>1, <2>2 DEF AttestsMoney, Answers
    <3> QED
      BY <1>1, <3>1
  <2>3. CASE deal.state # "Disputed"
    <3>1. PICK r \in DOMAIN chain : Answers(chain, r, d)
      BY <2>1, <2>3 DEF Evidence, DisputesAnswered
    <3>2. r \in DOMAIN chain' /\ Answers(chain', r, d)
      BY <1>1, <3>1 DEF Answers
    <3> QED
      BY <3>2
  <2> QED
    BY <2>2, <2>3
<1>7. intents' # << >> => HasHold(chain')
  <2>1. CASE intents # << >>
    BY <1>2, <1>4, <2>1 DEF HasHold
  <2>2. CASE t.settlement = "Hold"
    <3>1. last \in DOMAIN chain' /\ BuyerFunded(chain'[last])
      BY <1>1, <2>2 DEF AttestsMoney, BuyerFunded
    <3> QED
      BY <3>1 DEF HasHold
  <2>3. CASE t.settlement = "None" /\ intents = << >>
    BY <2>3 DEF Recorded
  <2>4. CASE t.settlement \in {"Release", "Refund"}
    BY <2>1, <2>4
  <2> QED
    BY <2>1, <2>2, <2>3, <2>4 DEF SettlementIntents
<1>8. Released' => t.settlement = "Release"
  <2>1. CASE t.settlement = "None"
    BY <2>1 DEF Recorded, Released
  <2>2. CASE t.settlement # "None"
    <3>1. intents' = Append(intents, t.settlement) /\ intents \in Seq(SettlementIntents)
      BY <2>2 DEF Recorded, TypeOK
    <3>2. intents'[Len(intents')] = t.settlement
      BY <3>1, AppendProperties
    <3> QED
      BY <3>2 DEF Released
  <2> QED
    BY <2>1, <2>2
<1>9. ReleaseHasGrounds'
  <2> SUFFICES ASSUME t.settlement = "Release"
               PROVE  \E h \in DOMAIN chain' :
                         /\ BuyerFunded(chain'[h])
                         /\ DisputesAnswered(chain')
                         /\ \/ deal'.outcome = "ReleaseToSeller"
                            \/ ReceiptAfter(chain', h)
                            \/ deal'.state = "Completed" /\ DisputeClosed(chain')
    BY <1>8 DEF ReleaseHasGrounds, BuyerFunded, DisputesAnswered, Answers, ReceiptAfter,
                Receipt, Withdrawn, DisputeClosed
  <2>1. CASE deal.state = "Holding" /\ deal'.state = "Completed"
    <3>1. PICK h \in DOMAIN chain : /\ BuyerFunded(chain[h])
                                    /\ ReceiptAfter(chain, h) \/ DisputeClosed(chain)
      BY <2>1 DEF Evidence, Grounds
    <3>2. h \in DOMAIN chain' /\ BuyerFunded(chain'[h])
      BY <1>2, <3>1
    <3>3. ReceiptAfter(chain', h) \/ DisputeClosed(chain')
      BY <1>2, <1>3, <3>1
    <3> QED
      BY <1>6, <2>1, <3>2, <3>3
  <2>2. CASE deal'.outcome = "ReleaseToSeller" /\ deal'.state # "Disputed"
    <3>1. PICK h \in DOMAIN chain : BuyerFunded(chain[h])
      BY <1>4
    <3>2. h \in DOMAIN chain' /\ BuyerFunded(chain'[h])
      BY <1>2, <3>1
    <3> QED
      BY <1>6, <2>2, <3>2
  <2> QED
    BY <2>1, <2>2 DEF AttestsMoney
<1> QED
  BY <1>5, <1>6, <1>7, <1>9

LEMMA AcceptKeepsConfirmations ==
    ASSUME TypeOK, Evidence, NEW row, Extends(row), NEW t, deal' = t.deal,
           row.action = t.action, AttestsConfirmations(deal, t, row.actor)
    PROVE  /\ FreezeTakesBothParties'
           /\ deal'.state = "PendingAgreement" =>
                 \A p \in Parties : ConfirmedBy(deal', p) => ConfirmationStands(p)'
<1> DEFINE last == Len(chain) + 1
<1>1. ASSUME NEW p \in Parties, ConfirmationStands(p), row.action # "TermsCorrected"
      PROVE  ConfirmationStands(p)'
  <2>1. PICK j \in DOMAIN chain :
           /\ chain[j].action = "TermsConfirmed" /\ chain[j].actor = p
           /\ \A k \in j .. Len(chain) : chain[k].action # "TermsCorrected"
    BY <1>1 DEF ConfirmationStands
  <2>2. \A k \in j .. Len(chain') : chain'[k].action # "TermsCorrected"
    BY <1>1, <2>1 DEF Extends
  <2>3. j \in DOMAIN chain' /\ chain'[j] = chain[j]
    BY DEF Extends
  <2> QED
    BY <2>1, <2>2, <2>3 DEF ConfirmationStands
<1>2. ASSUME NEW p \in Parties, row.action = "TermsConfirmed", row.actor = p
      PROVE  ConfirmationStands(p)'
  <2>1. last \in DOMAIN chain' /\ chain'[last] = row /\ Len(chain') = last /\ last \in Nat
    BY DEF Extends
  <2>2. \A k \in last .. Len(chain') : chain'[k].action # "TermsCorrected"
    BY <1>2, <2>1
  <2> QED
    BY <1>2, <2>1, <2>2 DEF ConfirmationStands
<1>3. ASSUME deal'.state = "PendingAgreement", NEW p \in Parties, ConfirmedBy(deal', p)
      PROVE  ConfirmationStands(p)'
  BY <1>1, <1>2, <1>3 DEF AttestsConfirmations, Evidence
<1>4. ASSUME NEW i \in DOMAIN chain', chain'[i].action = "TermsFrozen"
      PROVE  \E j \in 1 .. (i - 1) :
                /\ chain'[j].action = "TermsConfirmed"
                /\ {chain'[i].actor, chain'[j].actor} = Parties
                /\ \A k \in j .. i : chain'[k].action # "TermsCorrected"
  <2>1. CASE i \in 1 .. Len(chain)
    <3>1. PICK j \in 1 .. (i - 1) :
             /\ chain[j].action = "TermsConfirmed"
             /\ {chain[i].actor, chain[j].actor} = Parties
             /\ \A k \in j .. i : chain[k].action # "TermsCorrected"
      BY <1>4, <2>1 DEF Extends, Evidence, FreezeTakesBothParties
    <3>2. \A k \in j .. i : k \in 1 .. Len(chain) /\ chain'[k] = chain[k]
      BY <2>1, <3>1 DEF Extends
    <3> QED
      BY <2>1, <3>1, <3>2 DEF Extends
  <2>2. CASE i = last
    <3>1. row.action = "TermsFrozen" /\ chain'[i] = row /\ Len(chain) \in Nat
      BY <1>4, <2>2 DEF Extends
    <3>2. /\ deal.state = "PendingAgreement" /\ row.actor \in Parties
          /\ \A p \in Parties \ {row.actor} : ConfirmedBy(deal, p)
      BY <3>1 DEF AttestsConfirmations
    <3>3. PICK p \in Parties : p # row.actor /\ {row.actor, p} = Parties
      BY <3>2 DEF Parties
    <3>4. ConfirmationStands(p)
      BY <3>2, <3>3 DEF Evidence
    <3>5. PICK j \in DOMAIN chain :
             /\ chain[j].action = "TermsConfirmed" /\ chain[j].actor = p
             /\ \A k \in j .. Len(chain) : chain[k].action # "TermsCorrected"
      BY <3>4 DEF ConfirmationStands
    <3>6. j \in 1 .. (i - 1) /\ chain'[j] = chain[j]
      BY <2>2, <3>1 DEF Extends
    <3>7. \A k \in j .. i : chain'[k].action # "TermsCorrected"
      <4> SUFFICES ASSUME NEW k \in j .. i PROVE chain'[k].action # "TermsCorrected"
        OBVIOUS
      <4>1. CASE k = i
        BY <3>1, <4>1
      <4>2. CASE k \in j .. Len(chain)
        BY <3>5, <3>6, <4>2 DEF Extends
      <4> QED
        BY <2>2, <3>1, <3>6, <4>1, <4>2
    <3> QED
      BY <3>1, <3>3, <3>5, <3>6, <3>7
  <2> QED
    BY <2>1, <2>2 DEF Extends
<1> QED
  BY <1>3, <1>4 DEF FreezeTakesBothParties

LEMMA AcceptKeepsEvidence ==
    ASSUME IInv, Evidence, NEW cmd, WellFormed(cmd), NEW actor \in Actors,
           NEW at \in LastAt .. now, Accept(cmd, actor, at)
    PROVE  Evidence'
<1>1. PICK t \in Transition(deal, cmd, actor, at) :
         /\ deal' = t.deal /\ chain' = Append(chain, Row(t.action, actor, at))
         /\ intents' = Recorded(t) /\ now' = now
  BY DEF Accept
<1>2. TypeOK /\ HeldThenSettledOnce /\ deal \in DealType
  BY DEF IInv, TypeOK
<1>3. at \in Nat /\ LastAt \in Nat
  BY <1>2, InstantIsNat, LastAtIsNat
<1> DEFINE row == [action |-> t.action, actor |-> actor, at |-> at]
<1>4. Extends(row)
  BY <1>1, <1>2, <1>3, AcceptExtends
<1>5. /\ AttestsReceipt(deal, t, actor)
      /\ AttestsMoney(deal, t, actor)
      /\ AttestsConfirmations(deal, t, actor)
  BY <1>2, <1>3, TransitionAttests
<1>6. t.settlement \in SettlementIntents
  BY <1>2, <1>3, TransitionTyped
<1>7. (t.settlement \in {"Release", "Refund"} \/ t.deal.state = "Holding") => intents # << >>
  BY <1>2, <1>3, HoldComesFirst
<1>8. row.action = t.action /\ row.actor = actor /\ row.at = at
  OBVIOUS
<1> HIDE DEF row
<1>10. AutoConfirmedIsLabelled'
  BY <1>1, <1>4, <1>5, <1>8, AcceptKeepsLabel DEF Evidence
<1>r. ~Released
  <2>1. ~IsTerminal(deal)
    BY <1>2, <1>3, AcceptBinds DEF IInv
  <2>2. FundsHeld(deal) \/ deal.state \in UnfundedStates
    BY <1>2, <2>1 DEF DealType, States, IsTerminal, TerminalStates, FundsHeld, CustodyStates,
                      UnfundedStates
  <2>3. intents = <<"Hold">> \/ intents = << >>
    BY <1>2, <2>2 DEF HeldThenSettledOnce
  <2> QED
    BY <2>3 DEF Released
<1>11. /\ ReleaseHasGrounds'
       /\ intents' # << >> => HasHold(chain')
       /\ deal'.state = "Holding" => Grounds(chain')
       /\ deal'.state # "Disputed" => DisputesAnswered(chain')
  BY <1>1, <1>2, <1>4, <1>5, <1>6, <1>7, <1>8, <1>r, AcceptKeepsGrounds
<1>12. /\ FreezeTakesBothParties'
       /\ deal'.state = "PendingAgreement" =>
             \A p \in Parties : ConfirmedBy(deal', p) => ConfirmationStands(p)'
  BY <1>1, <1>2, <1>4, <1>5, <1>8, AcceptKeepsConfirmations
<1> QED
  BY <1>10, <1>11, <1>12 DEF Evidence

LEMMA InitEvidence == Init => Evidence
<1> SUFFICES ASSUME Init PROVE Evidence
  OBVIOUS
<1>1. deal = NewDeal /\ chain = << >> /\ intents = << >> /\ now = 0
  BY DEF Init
<1>2. NewDeal.state = "Draft" /\ NewDeal.receiptAutoConfirmed = FALSE
  BY DEF NewDeal
<1>3. DOMAIN chain = {}
  BY <1>1
<1> QED
  BY <1>1, <1>2, <1>3
     DEF Evidence, FreezeTakesBothParties, ReleaseHasGrounds,
         AutoConfirmedIsLabelled, Released, DisputesAnswered

LEMMA StepKeepsEvidence == IInv /\ Evidence /\ [Next]_vars => Evidence'
<1> SUFFICES ASSUME IInv, Evidence, [Next]_vars PROVE Evidence'
  OBVIOUS
<1>t. TypeOK
  BY DEF IInv
<1>1. CASE UNCHANGED <<deal, chain, intents>>
  BY <1>1
     DEF Evidence, FreezeTakesBothParties, ReleaseHasGrounds, Released, Withdrawn,
         AutoConfirmedIsLabelled, ConfirmationStands
<1>2. ASSUME NEW cmd, NEW actor \in Actors, NEW at \in LastAt .. now,
             WellFormed(cmd), Accept(cmd, actor, at)
      PROVE  Evidence'
  BY <1>2, AcceptKeepsEvidence
<1>3. CASE UNCHANGED vars
  BY <1>1, <1>3 DEF vars
<1>4. CASE Tick
  BY <1>1, <1>4 DEF Tick
<1> QED
  BY <1>t, <1>2, <1>3, <1>4, NextAccepts

LEMMA EvidenceInductive == Spec => []Evidence
BY InitEvidence, StepKeepsEvidence, Inductive, PTL DEF Spec

-----------------------------------------------------------------------------
(* Rows, chain and settlements keep their types.                           *)
THEOREM TypeCorrect == Spec => []TypeOK
<1>1. IInv => TypeOK
  BY DEF IInv
<1> QED
  BY <1>1, Inductive, PTL

(* One attestation per accepted command: the chain is as long as the       *)
(* version, so seq never collides and never leaves a gap.                  *)
THEOREM OneAttestationPerCommand == Spec => []ChainIsVersion
<1>1. IInv => ChainIsVersion
  BY DEF IInv
<1> QED
  BY <1>1, Inductive, PTL

(* Whatever path a deal takes, its money is held once, settled at most     *)
(* once, to the side its closing state names, and only after the hold.     *)
THEOREM MoneySettledOnce == Spec => []HeldThenSettledOnce
<1>1. IInv => HeldThenSettledOnce
  BY DEF IInv
<1> QED
  BY <1>1, Inductive, PTL

(* A hash binds terms both parties confirmed at one revision, and no deal  *)
(* takes money without it.                                                 *)
THEOREM HashBindsConfirmedTerms == Spec => []BoundTermsAreConfirmed
<1>1. IInv => BoundTermsAreConfirmed
  BY DEF IInv
<1> QED
  BY <1>1, Inductive, PTL

(* Frozen terms are never touched again, and a closed deal never moves.    *)
THEOREM FrozenTermsStand == Spec => BoundTermsStand
<1>1. ASSUME IInv, [Next]_vars
      PROVE  [ /\ deal.termsHash # NoHash => SameTerms(deal, deal')
               /\ IsTerminal(deal) => deal' = deal ]_vars
  <2>t. TypeOK
    BY <1>1 DEF IInv
  <2>1. CASE UNCHANGED vars
    BY <2>1
  <2>2. CASE Tick
    BY <2>2 DEF Tick, SameTerms
  <2>3. ASSUME NEW cmd, NEW actor \in Actors, NEW at \in LastAt .. now,
               WellFormed(cmd), Accept(cmd, actor, at)
        PROVE  /\ deal.termsHash # NoHash => SameTerms(deal, deal')
               /\ ~IsTerminal(deal)
    BY <1>1, <2>t, <2>3, InstantIsNat, AcceptBinds DEF IInv
  <2> QED
    BY <1>1, <2>t, <2>1, <2>2, <2>3, NextAccepts
<1>2. ASSUME IInv, [Next]_vars
      PROVE  [ /\ deal.termsHash # NoHash =>
                    /\ deal'.termsHash = deal.termsHash
                    /\ deal'.terms = deal.terms
                    /\ deal'.termsRevision = deal.termsRevision
                    /\ deal'.confirmed = deal.confirmed
                    /\ deal'.frozenAt = deal.frozenAt
               /\ IsTerminal(deal) => deal' = deal ]_vars
  BY <1>1, <1>2 DEF SameTerms
<1> QED
  BY <1>2, Inductive, PTL DEF Spec, BoundTermsStand

(* Behind every freeze stand both parties' confirmations of one reading,   *)
(* uncorrected in between.                                                 *)
THEOREM FreezesTakeBothParties == Spec => []FreezeTakesBothParties
<1>1. Evidence => FreezeTakesBothParties
  BY DEF Evidence
<1> QED
  BY <1>1, EvidenceInductive, PTL

(* The seller is only ever paid after the buyer's hold, with no dispute    *)
(* unanswered, and on a receipt the seller did not give or the mediator's  *)
(* ruling, unless a dispute was withdrawn.                                 *)
THEOREM ReleasesHaveGrounds == Spec => []ReleaseHasGrounds
<1>1. Evidence => ReleaseHasGrounds
  BY DEF Evidence
<1> QED
  BY <1>1, EvidenceInductive, PTL

(* A receipt says "auto-confirmed" exactly when a timer confirmed it.      *)
THEOREM AutoConfirmationIsLabelled == Spec => []AutoConfirmedIsLabelled
<1>1. Evidence => AutoConfirmedIsLabelled
  BY DEF Evidence
<1> QED
  BY <1>1, EvidenceInductive, PTL
=============================================================================
