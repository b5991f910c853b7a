----------------------------- MODULE DealLemmas -----------------------------
(***************************************************************************)
(* What one accepted transition of Deal does, for every set of terms and   *)
(* every length of the windows: to the types, to the state, to the money   *)
(* asked for and to the terms.  The proofs about the machines built from   *)
(* Deal rest on these facts.                                               *)
(***************************************************************************)
EXTENDS Deal, SequenceTheorems, TLAPS

\* The one field of a command the type of its effect depends on.
WellFormed(cmd) == cmd.name = "ResolveDispute" => cmd.outcome \in DisputeOutcomes

-----------------------------------------------------------------------------
(* Every transition bumps the version by one and yields a well-typed deal. *)
LEMMA TransitionTyped ==
    ASSUME NEW d \in DealType, NEW cmd, WellFormed(cmd), NEW actor \in Actors,
           NEW at \in Nat, NEW t \in Transition(d, cmd, actor, at)
    PROVE  /\ t.deal \in DealType
           /\ t.deal.version = d.version + 1
           /\ t.settlement \in SettlementIntents
           /\ t.action \in AttestationActions
<1>v. d.version + 1 \in Nat /\ d.termsRevision + 1 \in Nat
  BY DEF DealType
<1>s. {"PendingAgreement", "Agreed", "Funded", "HandoffProved", "Holding", "Completed",
       "Refunded", "Cancelled", "Expired", "Disputed", "Resolved"} \subseteq States
  BY DEF States
<1>w. at + ReleaseHold \in MaybeNat
  BY WindowsAssumption DEF MaybeNat
<1>n. at \in MaybeNat /\ Nobody \in [Parties -> MaybeNat]
  BY DEF MaybeNat, Nobody
<1>1. CASE t \in ProposeExtraction(d, cmd, actor, at)
  <2>1. /\ t.deal = [d EXCEPT !.version = @ + 1, !.state = "PendingAgreement", !.terms = cmd.terms,
                                          !.termsRevision = 0, !.confirmed = Nobody]
        /\ t.settlement = "None" /\ t.action = "WitnessProposed"
    BY <1>1 DEF ProposeExtraction, When
  <2>2. cmd.terms \in Terms
    BY <1>1 DEF ProposeExtraction, When
  <2>3. t.deal \in DealType /\ t.deal.version = d.version + 1
    <3> DEFINE moved == [d EXCEPT !.version = @ + 1, !.state = "PendingAgreement"]
    <3>1. moved \in DealType /\ moved.version = d.version + 1
      BY <1>v, <1>s DEF DealType
    <3>2. PICK first \in Nat :
             t.deal = [moved EXCEPT !.terms = cmd.terms, !.termsRevision = first,
                                    !.confirmed = Nobody]
      BY <2>1
    <3> HIDE DEF moved
    <3> QED
      BY <2>2, <3>1, <3>2, <1>n DEF DealType
  <2> QED
    BY <2>1, <2>3 DEF SettlementIntents, AttestationActions
<1>2. CASE t \in CorrectTerms(d, cmd, actor, at)
  <2>1. /\ t.deal = [d EXCEPT !.version = @ + 1, !.terms = cmd.terms, !.termsRevision = @ + 1,
                                          !.confirmed = Nobody]
        /\ t.settlement = "None" /\ t.action = "TermsCorrected"
    BY <1>2 DEF CorrectTerms, When
  <2>2. cmd.terms \in Terms
    BY <1>2 DEF CorrectTerms, When
  <2>3. t.deal \in DealType /\ t.deal.version = d.version + 1
    BY <2>1, <2>2, <1>v, <1>s, <1>w, <1>n DEF DealType
  <2> QED
    BY <2>1, <2>3 DEF SettlementIntents, AttestationActions
<1>3. CASE t \in ConfirmTerms(d, cmd, actor, at)
  <2> DEFINE marked == [d EXCEPT !.version = @ + 1, !.confirmed[actor] = cmd.revision]
             frozen == [marked EXCEPT !.state = "Agreed",
                                      !.termsHash = CanonicalHash(d.terms),
                                      !.frozenAt = at]
  <2>1. actor \in Parties /\ cmd.revision \in MaybeNat
    BY <1>3 DEF ConfirmTerms, When, DealType, MaybeNat
  <2>2. marked \in DealType /\ marked.version = d.version + 1
    BY <2>1, <1>v DEF DealType
  <2>3. CanonicalHash(d.terms) \in [sha256 : Terms \cup {NoTerms}]
    BY DEF DealType, CanonicalHash
  <2>4. frozen \in DealType /\ frozen.version = d.version + 1
    <3> HIDE DEF marked
    <3> QED BY <2>2, <2>3, <1>s, <1>n DEF DealType
  <2>5. \/ t.deal = frozen /\ t.settlement = "None" /\ t.action = "TermsFrozen"
        \/ t.deal = marked /\ t.settlement = "None" /\ t.action = "TermsConfirmed"
    BY <1>3 DEF ConfirmTerms, When
  <2> HIDE DEF marked, frozen
  <2> QED
    BY <2>2, <2>4, <2>5 DEF SettlementIntents, AttestationActions
<1>4. CASE t \in Fund(d, cmd, actor, at)
  <2>1. /\ t.deal = [d EXCEPT !.version = @ + 1, !.state = "Funded"]
        /\ t.settlement = "Hold" /\ t.action = "FundsHeld"
    BY <1>4 DEF Fund, When
  <2>3. t.deal \in DealType /\ t.deal.version = d.version + 1
    BY <2>1, <1>v, <1>s, <1>w, <1>n DEF DealType
  <2> QED
    BY <2>1, <2>3 DEF SettlementIntents, AttestationActions
<1>5. CASE t \in SubmitHandoffProof(d, cmd, actor, at)
  <2>1. /\ t.deal = [d EXCEPT !.version = @ + 1, !.state = "HandoffProved"]
        /\ t.settlement = "None" /\ t.action = "HandoffProved"
    BY <1>5 DEF SubmitHandoffProof, When
  <2>3. t.deal \in DealType /\ t.deal.version = d.version + 1
    BY <2>1, <1>v, <1>s, <1>w, <1>n DEF DealType
  <2> QED
    BY <2>1, <2>3 DEF SettlementIntents, AttestationActions
<1>6. CASE t \in ConfirmReceipt(d, cmd, actor, at)
  <2>1. /\ t.deal = [d EXCEPT !.version = @ + 1, !.state = "Holding", !.releaseDueAt = at + ReleaseHold]
        /\ t.settlement = "None" /\ t.action = "ReceiptConfirmed"
    BY <1>6 DEF ConfirmReceipt, When
  <2>3. t.deal \in DealType /\ t.deal.version = d.version + 1
    BY <2>1, <1>v, <1>s, <1>w, <1>n DEF DealType
  <2> QED
    BY <2>1, <2>3 DEF SettlementIntents, AttestationActions
<1>7. CASE t \in AutoConfirmReceipt(d, cmd, actor, at)
  <2>1. /\ t.deal = [d EXCEPT !.version = @ + 1, !.state = "Holding", !.releaseDueAt = at + ReleaseHold,
                                          !.receiptAutoConfirmed = TRUE]
        /\ t.settlement = "None" /\ t.action = "ReceiptConfirmed"
    BY <1>7 DEF AutoConfirmReceipt, When
  <2>3. t.deal \in DealType /\ t.deal.version = d.version + 1
    BY <2>1, <1>v, <1>s, <1>w, <1>n DEF DealType
  <2> QED
    BY <2>1, <2>3 DEF SettlementIntents, AttestationActions
<1>8. CASE t \in ReleaseFunds(d, cmd, actor, at)
  <2>1. /\ t.deal = [d EXCEPT !.version = @ + 1, !.state = "Completed", !.terminalAt = at]
        /\ t.settlement = "Release" /\ t.action = "FundsReleased"
    BY <1>8 DEF ReleaseFunds, When
  <2>3. t.deal \in DealType /\ t.deal.version = d.version + 1
    BY <2>1, <1>v, <1>s, <1>w, <1>n DEF DealType
  <2> QED
    BY <2>1, <2>3 DEF SettlementIntents, AttestationActions
<1>9. CASE t \in OpenDispute(d, cmd, actor, at)
  <2>1. /\ t.deal = [d EXCEPT !.version = @ + 1, !.state = "Disputed"]
        /\ t.settlement = "None" /\ t.action = "DisputeOpened"
    BY <1>9 DEF OpenDispute, When
  <2>3. t.deal \in DealType /\ t.deal.version = d.version + 1
    BY <2>1, <1>v, <1>s, <1>w, <1>n DEF DealType
  <2> QED
    BY <2>1, <2>3 DEF SettlementIntents, AttestationActions
<1>10. CASE t \in ResolveDispute(d, cmd, actor, at)
  <2> DEFINE closed == [d EXCEPT !.version = @ + 1, !.state = "Resolved",
                                 !.outcome = cmd.outcome, !.terminalAt = at]
             resumed == [d EXCEPT !.version = @ + 1, !.state = "Holding",
                                  !.releaseDueAt = at + ReleaseHold]
  <2>1. cmd.outcome \in DisputeOutcomes \cup {"None"}
    BY <1>10 DEF ResolveDispute, When, WellFormed
  <2>2. closed \in DealType /\ closed.version = d.version + 1
    BY <2>1, <1>v, <1>s, <1>n DEF DealType
  <2>3. resumed \in DealType /\ resumed.version = d.version + 1
    BY <1>v, <1>s, <1>w DEF DealType
  <2>4. /\ t.deal \in {closed, resumed}
        /\ t.settlement \in {"None", "Release", "Refund"}
        /\ t.action = "DisputeResolved"
    BY <1>10 DEF ResolveDispute, When
  <2> HIDE DEF closed, resumed
  <2> QED
    BY <2>2, <2>3, <2>4 DEF SettlementIntents, AttestationActions
<1>11. CASE t \in Cancel(d, cmd, actor, at)
  <2>1. /\ t.deal = [d EXCEPT !.version = @ + 1, !.state = "Cancelled", !.terminalAt = at]
        /\ t.settlement = "None" /\ t.action = "Cancelled"
    BY <1>11 DEF Cancel, When
  <2>3. t.deal \in DealType /\ t.deal.version = d.version + 1
    BY <2>1, <1>v, <1>s, <1>w, <1>n DEF DealType
  <2> QED
    BY <2>1, <2>3 DEF SettlementIntents, AttestationActions
<1>12. CASE t \in ExpireUnfunded(d, cmd, actor, at)
  <2>1. /\ t.deal = [d EXCEPT !.version = @ + 1, !.state = "Expired", !.terminalAt = at]
        /\ t.settlement = "None" /\ t.action = "Expired"
    BY <1>12 DEF ExpireUnfunded, When
  <2>3. t.deal \in DealType /\ t.deal.version = d.version + 1
    BY <2>1, <1>v, <1>s, <1>w, <1>n DEF DealType
  <2> QED
    BY <2>1, <2>3 DEF SettlementIntents, AttestationActions
<1>13. CASE t \in RefundExpired(d, cmd, actor, at)
  <2>1. /\ t.deal = [d EXCEPT !.version = @ + 1, !.state = "Refunded", !.terminalAt = at]
        /\ t.settlement = "Refund" /\ t.action = "FundsRefunded"
    BY <1>13 DEF RefundExpired, When
  <2>3. t.deal \in DealType /\ t.deal.version = d.version + 1
    BY <2>1, <1>v, <1>s, <1>w, <1>n DEF DealType
  <2> QED
    BY <2>1, <2>3 DEF SettlementIntents, AttestationActions
<1> QED
  BY <1>1, <1>2, <1>3, <1>4, <1>5, <1>6, <1>7, <1>8, <1>9, <1>10, <1>11, <1>12, <1>13 DEF Transition
-----------------------------------------------------------------------------
(* What a transition does to the state, the money and the terms of a deal. *)

SameTerms(d, e) ==
    /\ e.terms = d.terms
    /\ e.termsHash = d.termsHash
    /\ e.termsRevision = d.termsRevision
    /\ e.confirmed = d.confirmed
    /\ e.frozenAt = d.frozenAt

\* The negotiation: no money, and the terms not yet hashed.
Negotiates(d, e, at) ==
    /\ e.state = "PendingAgreement" /\ e.termsHash = d.termsHash
    /\ d.state \in {"Draft", "PendingAgreement"}

Freezes(d, e, at) ==
    /\ d.state = "PendingAgreement" /\ e.state = "Agreed"
    /\ d.terms \in Terms
    /\ e.terms = d.terms
    /\ e.termsHash = CanonicalHash(d.terms)
    /\ \A p \in Parties : e.confirmed[p] = e.termsRevision
    /\ e.frozenAt = at

\* Everything else: the state moves and the terms stand.
Edges ==
    { <<"Agreed", "Funded", "Hold">>,
      <<"Funded", "HandoffProved", "None">>,
      <<"HandoffProved", "Holding", "None">>,
      <<"Holding", "Completed", "Release">>,
      <<"Funded", "Refunded", "Refund">>,
      <<"Funded", "Disputed", "None">>,
      <<"HandoffProved", "Disputed", "None">>,
      <<"Holding", "Disputed", "None">>,
      <<"Disputed", "Holding", "None">> }
    \cup {"Draft", "PendingAgreement", "Agreed"} \X {"Cancelled", "Expired"} \X {"None"}

Resolves(d, t) ==
    /\ d.state = "Disputed" /\ t.deal.state = "Resolved"
    /\ \/ t.deal.outcome = "ReleaseToSeller" /\ t.settlement = "Release"
       \/ t.deal.outcome = "RefundToBuyer" /\ t.settlement = "Refund"

LEMMA TransitionEffect ==
    ASSUME NEW d \in DealType, NEW cmd, WellFormed(cmd), NEW actor \in Actors,
           NEW at \in Nat, NEW t \in Transition(d, cmd, actor, at)
    PROVE  \/ /\ Negotiates(d, t.deal, at)
              /\ t.deal.outcome = d.outcome /\ t.settlement = "None"
           \/ /\ Freezes(d, t.deal, at)
              /\ t.deal.outcome = d.outcome /\ t.settlement = "None"
           \/ /\ <<d.state, t.deal.state, t.settlement>> \in Edges
              /\ t.deal.outcome = d.outcome /\ SameTerms(d, t.deal)
           \/ Resolves(d, t) /\ SameTerms(d, t.deal)
<1>1. CASE t \in ProposeExtraction(d, cmd, actor, at)
  <2>1. /\ t.deal = [d EXCEPT !.version = @ + 1, !.state = "PendingAgreement",
                              !.terms = cmd.terms, !.termsRevision = 0, !.confirmed = Nobody]
        /\ t.settlement = "None" /\ d.state = "Draft"
    BY <1>1 DEF ProposeExtraction, When
  <2>2. /\ t.deal.state = "PendingAgreement"
        /\ t.deal.termsHash = d.termsHash
        /\ t.deal.outcome = d.outcome
    <3> DEFINE moved == [d EXCEPT !.version = @ + 1, !.state = "PendingAgreement"]
    <3>1. /\ moved.state = "PendingAgreement" /\ moved.termsHash = d.termsHash
          /\ moved.outcome = d.outcome /\ DOMAIN moved = DOMAIN d
      BY DEF DealType
    <3>2. PICK first \in Nat :
             t.deal = [moved EXCEPT !.terms = cmd.terms, !.termsRevision = first,
                                    !.confirmed = Nobody]
      BY <2>1
    <3> HIDE DEF moved
    <3> QED
      BY <3>1, <3>2 DEF DealType
  <2> QED
    BY <2>1, <2>2 DEF Negotiates
<1>2. CASE t \in CorrectTerms(d, cmd, actor, at)
  <2>1. /\ t.deal = [d EXCEPT !.version = @ + 1, !.terms = cmd.terms, !.termsRevision = @ + 1,
                              !.confirmed = Nobody]
        /\ t.settlement = "None" /\ d.state = "PendingAgreement"
    BY <1>2 DEF CorrectTerms, When
  <2>2. /\ t.deal.state = "PendingAgreement"
        /\ t.deal.termsHash = d.termsHash
        /\ t.deal.outcome = d.outcome
    BY <2>1 DEF DealType
  <2> QED
    BY <2>1, <2>2 DEF Negotiates
<1>3. CASE t \in ConfirmTerms(d, cmd, actor, at)
  <2> DEFINE marked == [d EXCEPT !.version = @ + 1, !.confirmed[actor] = cmd.revision]
             frozen == [marked EXCEPT !.state = "Agreed",
                                      !.termsHash = CanonicalHash(d.terms),
                                      !.frozenAt = at]
  <2>1. /\ d.state = "PendingAgreement" /\ d.terms # NoTerms
        /\ t.settlement = "None"
        /\ t.deal = marked \/ (t.deal = frozen /\ BothConfirmed(marked))
    BY <1>3 DEF ConfirmTerms, When
  <2>2. /\ marked.state = d.state /\ marked.termsHash = d.termsHash
        /\ marked.outcome = d.outcome /\ marked.terms = d.terms
        /\ DOMAIN marked = DOMAIN d
    BY DEF DealType
  <2>3. /\ frozen.state = "Agreed" /\ frozen.termsHash = CanonicalHash(d.terms)
        /\ frozen.frozenAt = at /\ frozen.outcome = d.outcome
        /\ frozen.terms = d.terms
        /\ frozen.confirmed = marked.confirmed
        /\ frozen.termsRevision = marked.termsRevision
    <3> HIDE DEF marked
    <3> QED BY <2>2 DEF DealType
  <2>4. d.terms \in Terms
    BY <2>1 DEF DealType
  <2> HIDE DEF marked, frozen
  <2>5. CASE t.deal = marked
    BY <2>1, <2>2, <2>5 DEF Negotiates
  <2>6. CASE t.deal = frozen /\ BothConfirmed(marked)
    BY <2>1, <2>3, <2>4, <2>6 DEF Freezes, BothConfirmed, ConfirmedBy
  <2> QED
    BY <2>1, <2>5, <2>6
<1>4. CASE t \in Fund(d, cmd, actor, at)
  <2>1. /\ t.deal = [d EXCEPT !.version = @ + 1, !.state = "Funded"]
        /\ t.settlement = "Hold" /\ d.state \in {"Agreed"}
    BY <1>4 DEF Fund, When
  <2>2. t.deal.state = "Funded" /\ t.deal.outcome = d.outcome /\ SameTerms(d, t.deal)
    BY <2>1 DEF DealType, SameTerms
  <2> QED
    BY <2>1, <2>2 DEF Edges
<1>5. CASE t \in SubmitHandoffProof(d, cmd, actor, at)
  <2>1. /\ t.deal = [d EXCEPT !.version = @ + 1, !.state = "HandoffProved"]
        /\ t.settlement = "None" /\ d.state \in {"Funded"}
    BY <1>5 DEF SubmitHandoffProof, When
  <2>2. t.deal.state = "HandoffProved" /\ t.deal.outcome = d.outcome /\ SameTerms(d, t.deal)
    BY <2>1 DEF DealType, SameTerms
  <2> QED
    BY <2>1, <2>2 DEF Edges
<1>6. CASE t \in ConfirmReceipt(d, cmd, actor, at)
  <2>1. /\ t.deal = [d EXCEPT !.version = @ + 1, !.state = "Holding", !.releaseDueAt = at + ReleaseHold]
        /\ t.settlement = "None" /\ d.state \in {"HandoffProved"}
    BY <1>6 DEF ConfirmReceipt, When
  <2>2. t.deal.state = "Holding" /\ t.deal.outcome = d.outcome /\ SameTerms(d, t.deal)
    BY <2>1 DEF DealType, SameTerms
  <2> QED
    BY <2>1, <2>2 DEF Edges
<1>7. CASE t \in AutoConfirmReceipt(d, cmd, actor, at)
  <2>1. /\ t.deal = [d EXCEPT !.version = @ + 1, !.state = "Holding", !.releaseDueAt = at + ReleaseHold,
                                     !.receiptAutoConfirmed = TRUE]
        /\ t.settlement = "None" /\ d.state \in {"HandoffProved"}
    BY <1>7 DEF AutoConfirmReceipt, When
  <2>2. t.deal.state = "Holding" /\ t.deal.outcome = d.outcome /\ SameTerms(d, t.deal)
    BY <2>1 DEF DealType, SameTerms
  <2> QED
    BY <2>1, <2>2 DEF Edges
<1>8. CASE t \in ReleaseFunds(d, cmd, actor, at)
  <2>1. /\ t.deal = [d EXCEPT !.version = @ + 1, !.state = "Completed", !.terminalAt = at]
        /\ t.settlement = "Release" /\ d.state \in {"Holding"}
    BY <1>8 DEF ReleaseFunds, When
  <2>2. t.deal.state = "Completed" /\ t.deal.outcome = d.outcome /\ SameTerms(d, t.deal)
    BY <2>1 DEF DealType, SameTerms
  <2> QED
    BY <2>1, <2>2 DEF Edges
<1>9. CASE t \in OpenDispute(d, cmd, actor, at)
  <2>1. /\ t.deal = [d EXCEPT !.version = @ + 1, !.state = "Disputed"]
        /\ t.settlement = "None" /\ d.state \in {"Funded", "HandoffProved", "Holding"}
    BY <1>9 DEF OpenDispute, When
  <2>2. t.deal.state = "Disputed" /\ t.deal.outcome = d.outcome /\ SameTerms(d, t.deal)
    BY <2>1 DEF DealType, SameTerms
  <2> QED
    BY <2>1, <2>2 DEF Edges
<1>10. CASE t \in ResolveDispute(d, cmd, actor, at)
  <2> DEFINE closed == [d EXCEPT !.version = @ + 1, !.state = "Resolved",
                                 !.outcome = cmd.outcome, !.terminalAt = at]
             resumed == [d EXCEPT !.version = @ + 1, !.state = "Holding",
                                  !.releaseDueAt = at + ReleaseHold]
  <2>1. /\ d.state = "Disputed"
        /\ \/ t.deal = resumed /\ t.settlement = "None"
           \/ /\ t.deal = closed /\ cmd.outcome # "Withdrawn"
              /\ t.settlement = IF cmd.outcome = "ReleaseToSeller" THEN "Release" ELSE "Refund"
    BY <1>10 DEF ResolveDispute, When
  <2>2. cmd.outcome \in {"ReleaseToSeller", "RefundToBuyer", "Withdrawn"}
    BY <1>10 DEF ResolveDispute, When, WellFormed, DisputeOutcomes
  <2>3. closed.state = "Resolved" /\ closed.outcome = cmd.outcome /\ SameTerms(d, closed)
    BY DEF DealType, SameTerms
  <2>4. resumed.state = "Holding" /\ resumed.outcome = d.outcome /\ SameTerms(d, resumed)
    BY DEF DealType, SameTerms
  <2> HIDE DEF closed, resumed
  <2>5. CASE t.deal = resumed /\ t.settlement = "None"
    BY <2>1, <2>4, <2>5 DEF Edges
  <2>6. CASE /\ t.deal = closed /\ cmd.outcome # "Withdrawn"
             /\ t.settlement = IF cmd.outcome = "ReleaseToSeller" THEN "Release" ELSE "Refund"
    BY <2>1, <2>2, <2>3, <2>6 DEF Resolves
  <2> QED
    BY <2>1, <2>5, <2>6
<1>11. CASE t \in Cancel(d, cmd, actor, at)
  <2>1. /\ t.deal = [d EXCEPT !.version = @ + 1, !.state = "Cancelled", !.terminalAt = at]
        /\ t.settlement = "None" /\ d.state \in {"Draft", "PendingAgreement", "Agreed"}
    BY <1>11 DEF Cancel, When, UnfundedStates
  <2>2. t.deal.state = "Cancelled" /\ t.deal.outcome = d.outcome /\ SameTerms(d, t.deal)
    BY <2>1 DEF DealType, SameTerms
  <2> QED
    BY <2>1, <2>2 DEF Edges
<1>12. CASE t \in ExpireUnfunded(d, cmd, actor, at)
  <2>1. /\ t.deal = [d EXCEPT !.version = @ + 1, !.state = "Expired", !.terminalAt = at]
        /\ t.settlement = "None" /\ d.state \in {"Draft", "PendingAgreement", "Agreed"}
    BY <1>12 DEF ExpireUnfunded, When, UnfundedStates
  <2>2. t.deal.state = "Expired" /\ t.deal.outcome = d.outcome /\ SameTerms(d, t.deal)
    BY <2>1 DEF DealType, SameTerms
  <2> QED
    BY <2>1, <2>2 DEF Edges
<1>13. CASE t \in RefundExpired(d, cmd, actor, at)
  <2>1. /\ t.deal = [d EXCEPT !.version = @ + 1, !.state = "Refunded", !.terminalAt = at]
        /\ t.settlement = "Refund" /\ d.state \in {"Funded"}
    BY <1>13 DEF RefundExpired, When
  <2>2. t.deal.state = "Refunded" /\ t.deal.outcome = d.outcome /\ SameTerms(d, t.deal)
    BY <2>1 DEF DealType, SameTerms
  <2> QED
    BY <2>1, <2>2 DEF Edges
<1> QED
  BY <1>1, <1>2, <1>3, <1>4, <1>5, <1>6, <1>7, <1>8, <1>9, <1>10, <1>11, <1>12, <1>13 DEF Transition

LEMMA AppendSecond ==
    ASSUME NEW x, NEW y
    PROVE  Append(<<x>>, y) = <<x, y>>
<1>1. <<x>> \in Seq({x, y}) /\ Len(<<x>>) = 1 /\ <<x>>[1] = x
  OBVIOUS
<1>2. Append(<<x>>, y) \in Seq({x, y}) /\ Len(Append(<<x>>, y)) = 2
  BY <1>1, AppendProperties
<1>3. Append(<<x>>, y)[1] = x /\ Append(<<x>>, y)[2] = y
  BY <1>1, AppendProperties
<1>4. /\ <<x, y>> \in Seq({x, y}) /\ Len(<<x, y>>) = 2
      /\ <<x, y>>[1] = x /\ <<x, y>>[2] = y
  OBVIOUS
<1>5. \A i \in 1 .. 2 : Append(<<x>>, y)[i] = <<x, y>>[i]
  BY <1>3, <1>4
<1> QED
  BY <1>2, <1>4, <1>5, SeqEqual

-----------------------------------------------------------------------------
(* The money.                                                              *)

\* Only a resolution has an outcome, and it is one that pays somebody.
OutcomeIsResolution(d) ==
    /\ d.outcome # "None" => d.state = "Resolved"
    /\ d.state = "Resolved" => d.outcome \in {"ReleaseToSeller", "RefundToBuyer"}

\* `asked` is what the deal may have asked the escrow to do so far.
MoneyInOrder(d, asked) ==
    /\ FundsHeld(d) => asked = <<"Hold">>
    /\ d.state \in UnfundedStates \cup {"Cancelled", "Expired"} => asked = << >>
    /\ d.state \in {"Completed", "Refunded", "Resolved"} =>
          asked = <<"Hold", IF \/ d.state = "Completed"
                               \/ d.outcome = "ReleaseToSeller"
                            THEN "Release" ELSE "Refund">>
    /\ OutcomeIsResolution(d)

Asked(asked, t) == IF t.settlement = "None" THEN asked ELSE Append(asked, t.settlement)

LEMMA TransitionSettles ==
    ASSUME NEW d \in DealType, NEW cmd, WellFormed(cmd), NEW actor \in Actors,
           NEW at \in Nat, NEW t \in Transition(d, cmd, actor, at),
           NEW asked, MoneyInOrder(d, asked)
    PROVE  MoneyInOrder(t.deal, Asked(asked, t))
<1>1. /\ Append(<< >>, "Hold") = <<"Hold">>
      /\ Append(<<"Hold">>, "Release") = <<"Hold", "Release">>
      /\ Append(<<"Hold">>, "Refund") = <<"Hold", "Refund">>
  BY AppendSecond
<1>2. CASE Negotiates(d, t.deal, at) /\ t.deal.outcome = d.outcome /\ t.settlement = "None"
  BY <1>2
     DEF Negotiates, Asked, MoneyInOrder, OutcomeIsResolution, FundsHeld, UnfundedStates,
         CustodyStates
<1>3. CASE Freezes(d, t.deal, at) /\ t.deal.outcome = d.outcome /\ t.settlement = "None"
  BY <1>3
     DEF Freezes, Asked, MoneyInOrder, OutcomeIsResolution, FundsHeld, UnfundedStates,
         CustodyStates
<1>4. CASE /\ <<d.state, t.deal.state, t.settlement>> \in Edges
           /\ t.deal.outcome = d.outcome
  <2>1. d.outcome = "None" /\ t.deal.state # "Resolved"
    BY <1>4 DEF Edges, MoneyInOrder, OutcomeIsResolution
  <2>2. CASE d.state = "Agreed" /\ t.deal.state = "Funded" /\ t.settlement = "Hold"
    BY <1>1, <1>4, <2>1, <2>2
       DEF Asked, MoneyInOrder, OutcomeIsResolution, FundsHeld, UnfundedStates, CustodyStates
  <2>3. CASE /\ d.state \in CustodyStates /\ t.deal.state \in CustodyStates
             /\ t.settlement = "None"
    BY <1>4, <2>1, <2>3
       DEF Asked, MoneyInOrder, OutcomeIsResolution, FundsHeld, UnfundedStates, CustodyStates
  <2>4. CASE /\ d.state \in CustodyStates
             /\ \/ t.deal.state = "Completed" /\ t.settlement = "Release"
                \/ t.deal.state = "Refunded" /\ t.settlement = "Refund"
    BY <1>1, <1>4, <2>1, <2>4
       DEF Asked, MoneyInOrder, OutcomeIsResolution, FundsHeld, UnfundedStates, CustodyStates
  <2>5. CASE /\ d.state \in UnfundedStates /\ t.deal.state \in {"Cancelled", "Expired"}
             /\ t.settlement = "None"
    BY <1>4, <2>1, <2>5
       DEF Asked, MoneyInOrder, OutcomeIsResolution, FundsHeld, UnfundedStates, CustodyStates
  <2> QED
    BY <1>4, <2>2, <2>3, <2>4, <2>5 DEF Edges, CustodyStates, UnfundedStates
<1>5. CASE Resolves(d, t)
  BY <1>1, <1>5
     DEF Resolves, Asked, MoneyInOrder, OutcomeIsResolution, FundsHeld, UnfundedStates,
         CustodyStates
<1> QED
  BY <1>2, <1>3, <1>4, <1>5, TransitionEffect

-----------------------------------------------------------------------------
(* What the attestation of a transition is evidence of.                    *)

\* The label of the receipt and the attestation that accounts for it.
AttestsReceipt(d, t, actor) ==
    t.deal.receiptAutoConfirmed <=>
        (d.receiptAutoConfirmed \/ (t.action = "ReceiptConfirmed" /\ actor = "system"))

\* Who puts the money in, starts the release clock and has it paid out.
AttestsMoney(d, t, actor) ==
    /\ t.settlement = "Hold" => t.action = "FundsHeld" /\ actor = "buyer"
    /\ t.deal.state = "Holding" =>
          \/ t.action = "ReceiptConfirmed" /\ actor # "seller"
          \/ t.action = "DisputeResolved"
    /\ t.settlement = "Release" =>
          \/ d.state = "Holding" /\ t.deal.state = "Completed"
          \/ t.deal.state = "Resolved" /\ t.deal.outcome = "ReleaseToSeller"
    /\ t.action = "DisputeOpened" => t.deal.state = "Disputed"
    /\ d.state = "Disputed" => t.action = "DisputeResolved" /\ actor = "mediator"

\* Whose confirmations stand after it.
AttestsConfirmations(d, t, actor) ==
    /\ t.action = "TermsFrozen" =>
          /\ d.state = "PendingAgreement" /\ actor \in Parties
          /\ \A p \in Parties \ {actor} : ConfirmedBy(d, p)
    /\ t.deal.state = "PendingAgreement" =>
          \A p \in Parties : ConfirmedBy(t.deal, p) =>
             \/ t.action = "TermsConfirmed" /\ actor = p
             \/ /\ d.state = "PendingAgreement" /\ ConfirmedBy(d, p)
                /\ t.action # "TermsCorrected"

LEMMA TransitionAttests ==
    ASSUME NEW d \in DealType, NEW cmd, NEW actor \in Actors, NEW at \in Nat,
           NEW t \in Transition(d, cmd, actor, at)
    PROVE  /\ AttestsReceipt(d, t, actor)
           /\ AttestsMoney(d, t, actor)
           /\ AttestsConfirmations(d, t, actor)
<1>1. CASE t \in ProposeExtraction(d, cmd, actor, at)
  <2>1. /\ t.deal = [d EXCEPT !.version = @ + 1, !.state = "PendingAgreement",
                              !.terms = cmd.terms, !.termsRevision = 0, !.confirmed = Nobody]
        /\ t.settlement = "None" /\ t.action = "WitnessProposed" /\ d.state = "Draft"
    BY <1>1 DEF ProposeExtraction, When
  <2>2. /\ t.deal.state = "PendingAgreement" /\ t.deal.confirmed = Nobody
        /\ t.deal.receiptAutoConfirmed = d.receiptAutoConfirmed
        /\ t.deal.termsRevision \in Nat
    <3> DEFINE moved == [d EXCEPT !.version = @ + 1, !.state = "PendingAgreement"]
    <3>1. /\ moved.state = "PendingAgreement" /\ DOMAIN moved = DOMAIN d
          /\ moved.receiptAutoConfirmed = d.receiptAutoConfirmed
      BY DEF DealType
    <3>2. PICK first \in Nat :
             t.deal = [moved EXCEPT !.terms = cmd.terms, !.termsRevision = first,
                                    !.confirmed = Nobody]
      BY <2>1
    <3> HIDE DEF moved
    <3> QED
      BY <3>1, <3>2 DEF DealType
  <2>3. \A p \in Parties : ~ConfirmedBy(t.deal, p)
    BY <2>2 DEF ConfirmedBy, Nobody, None
  <2> QED
    BY <2>1, <2>2, <2>3 DEF AttestsReceipt, AttestsMoney, AttestsConfirmations
<1>2. CASE t \in CorrectTerms(d, cmd, actor, at)
  <2>1. /\ t.deal = [d EXCEPT !.version = @ + 1, !.terms = cmd.terms, !.termsRevision = @ + 1,
                              !.confirmed = Nobody]
        /\ t.settlement = "None" /\ t.action = "TermsCorrected" /\ d.state = "PendingAgreement"
    BY <1>2 DEF CorrectTerms, When
  <2>2. /\ t.deal.state = "PendingAgreement" /\ t.deal.confirmed = Nobody
        /\ t.deal.receiptAutoConfirmed = d.receiptAutoConfirmed
        /\ t.deal.termsRevision \in Nat
    BY <2>1 DEF DealType
  <2>3. \A p \in Parties : ~ConfirmedBy(t.deal, p)
    BY <2>2 DEF ConfirmedBy, Nobody, None
  <2> QED
    BY <2>1, <2>2, <2>3 DEF AttestsReceipt, AttestsMoney, AttestsConfirmations
<1>3. CASE t \in ConfirmTerms(d, cmd, actor, at)
  <2> DEFINE marked == [d EXCEPT !.version = @ + 1, !.confirmed[actor] = cmd.revision]
             frozen == [marked EXCEPT !.state = "Agreed",
                                      !.termsHash = CanonicalHash(d.terms),
                                      !.frozenAt = at]
  <2>1. /\ d.state = "PendingAgreement" /\ actor \in Parties /\ t.settlement = "None"
        /\ \/ t.deal = marked /\ t.action = "TermsConfirmed"
           \/ t.deal = frozen /\ t.action = "TermsFrozen" /\ BothConfirmed(marked)
    BY <1>3 DEF ConfirmTerms, When
  <2>2. /\ marked.state = d.state /\ marked.receiptAutoConfirmed = d.receiptAutoConfirmed
        /\ DOMAIN marked = DOMAIN d
        /\ \A p \in Parties : p # actor => (ConfirmedBy(marked, p) <=> ConfirmedBy(d, p))
    BY DEF DealType, ConfirmedBy
  <2>3. frozen.state = "Agreed" /\ frozen.receiptAutoConfirmed = d.receiptAutoConfirmed
    <3> HIDE DEF marked
    <3> QED BY <2>2 DEF DealType
  <2> HIDE DEF marked, frozen
  <2>4. CASE t.deal = marked /\ t.action = "TermsConfirmed"
    BY <2>1, <2>2, <2>4 DEF AttestsReceipt, AttestsMoney, AttestsConfirmations
  <2>5. CASE t.deal = frozen /\ t.action = "TermsFrozen" /\ BothConfirmed(marked)
    BY <2>1, <2>2, <2>3, <2>5
       DEF AttestsReceipt, AttestsMoney, AttestsConfirmations, BothConfirmed
  <2> QED
    BY <2>1, <2>4, <2>5
<1>4. CASE t \in Fund(d, cmd, actor, at)
  <2>1. /\ t.deal = [d EXCEPT !.version = @ + 1, !.state = "Funded"]
        /\ t.settlement = "Hold" /\ t.action = "FundsHeld" /\ actor = "buyer"
        /\ d.state = "Agreed"
    BY <1>4 DEF Fund, When
  <2>2. /\ t.deal.state = "Funded"
        /\ t.deal.receiptAutoConfirmed = d.receiptAutoConfirmed
    BY <2>1 DEF DealType
  <2> QED
    BY <2>1, <2>2 DEF AttestsReceipt, AttestsMoney, AttestsConfirmations, Parties
<1>5. CASE t \in SubmitHandoffProof(d, cmd, actor, at)
  <2>1. /\ t.deal = [d EXCEPT !.version = @ + 1, !.state = "HandoffProved"]
        /\ t.settlement = "None" /\ t.action = "HandoffProved" /\ actor = "seller"
        /\ d.state = "Funded"
    BY <1>5 DEF SubmitHandoffProof, When
  <2>2. /\ t.deal.state = "HandoffProved"
        /\ t.deal.receiptAutoConfirmed = d.receiptAutoConfirmed
    BY <2>1 DEF DealType
  <2> QED
    BY <2>1, <2>2 DEF AttestsReceipt, AttestsMoney, AttestsConfirmations, Parties
<1>6. CASE t \in ConfirmReceipt(d, cmd, actor, at)
  <2>1. /\ t.deal = [d EXCEPT !.version = @ + 1, !.state = "Holding", !.releaseDueAt = at + ReleaseHold]
        /\ t.settlement = "None" /\ t.action = "ReceiptConfirmed" /\ actor = "buyer"
        /\ d.state = "HandoffProved"
    BY <1>6 DEF ConfirmReceipt, When
  <2>2. /\ t.deal.state = "Holding"
        /\ t.deal.receiptAutoConfirmed = d.receiptAutoConfirmed
    BY <2>1 DEF DealType
  <2> QED
    BY <2>1, <2>2 DEF AttestsReceipt, AttestsMoney, AttestsConfirmations, Parties
<1>7. CASE t \in AutoConfirmReceipt(d, cmd, actor, at)
  <2>1. /\ t.deal = [d EXCEPT !.version = @ + 1, !.state = "Holding", !.releaseDueAt = at + ReleaseHold,
                              !.receiptAutoConfirmed = TRUE]
        /\ t.settlement = "None" /\ t.action = "ReceiptConfirmed" /\ actor = "system"
        /\ d.state = "HandoffProved"
    BY <1>7 DEF AutoConfirmReceipt, When
  <2>2. /\ t.deal.state = "Holding"
        /\ t.deal.receiptAutoConfirmed = TRUE
    BY <2>1 DEF DealType
  <2> QED
    BY <2>1, <2>2 DEF AttestsReceipt, AttestsMoney, AttestsConfirmations, Parties
<1>8. CASE t \in ReleaseFunds(d, cmd, actor, at)
  <2>1. /\ t.deal = [d EXCEPT !.version = @ + 1, !.state = "Completed", !.terminalAt = at]
        /\ t.settlement = "Release" /\ t.action = "FundsReleased" /\ d.state = "Holding"
    BY <1>8 DEF ReleaseFunds, When
  <2>2. /\ t.deal.state = "Completed"
        /\ t.deal.receiptAutoConfirmed = d.receiptAutoConfirmed
    BY <2>1 DEF DealType
  <2> QED
    BY <2>1, <2>2 DEF AttestsReceipt, AttestsMoney, AttestsConfirmations, Parties
<1>9. CASE t \in OpenDispute(d, cmd, actor, at)
  <2>1. /\ t.deal = [d EXCEPT !.version = @ + 1, !.state = "Disputed"]
        /\ t.settlement = "None" /\ t.action = "DisputeOpened" /\ actor \in Parties
        /\ d.state \in {"Funded", "HandoffProved", "Holding"}
    BY <1>9 DEF OpenDispute, When
  <2>2. /\ t.deal.state = "Disputed"
        /\ t.deal.receiptAutoConfirmed = d.receiptAutoConfirmed
    BY <2>1 DEF DealType
  <2> QED
    BY <2>1, <2>2 DEF AttestsReceipt, AttestsMoney, AttestsConfirmations, Parties
<1>10. CASE t \in ResolveDispute(d, cmd, actor, at)
  <2> DEFINE closed == [d EXCEPT !.version = @ + 1, !.state = "Resolved",
                                 !.outcome = cmd.outcome, !.terminalAt = at]
             resumed == [d EXCEPT !.version = @ + 1, !.state = "Holding",
                                  !.releaseDueAt = at + ReleaseHold]
  <2>1. /\ t.action = "DisputeResolved" /\ actor = "mediator" /\ d.state = "Disputed"
        /\ \/ t.deal = resumed /\ t.settlement = "None"
           \/ /\ t.deal = closed
              /\ t.settlement = IF cmd.outcome = "ReleaseToSeller" THEN "Release" ELSE "Refund"
    BY <1>10 DEF ResolveDispute, When
  <2>2. /\ closed.state = "Resolved" /\ closed.outcome = cmd.outcome
        /\ closed.receiptAutoConfirmed = d.receiptAutoConfirmed
        /\ resumed.state = "Holding" /\ resumed.receiptAutoConfirmed = d.receiptAutoConfirmed
    BY DEF DealType
  <2> HIDE DEF closed, resumed
  <2> QED
    BY <2>1, <2>2 DEF AttestsReceipt, AttestsMoney, AttestsConfirmations
<1>11. CASE t \in Cancel(d, cmd, actor, at)
  <2>1. /\ t.deal = [d EXCEPT !.version = @ + 1, !.state = "Cancelled", !.terminalAt = at]
        /\ t.settlement = "None" /\ t.action = "Cancelled" /\ actor \in Parties
        /\ d.state \in UnfundedStates
    BY <1>11 DEF Cancel, When
  <2>2. /\ t.deal.state = "Cancelled"
        /\ t.deal.receiptAutoConfirmed = d.receiptAutoConfirmed
    BY <2>1 DEF DealType
  <2> QED
    BY <2>1, <2>2 DEF AttestsReceipt, AttestsMoney, AttestsConfirmations, Parties,
         UnfundedStates
<1>12. CASE t \in ExpireUnfunded(d, cmd, actor, at)
  <2>1. /\ t.deal = [d EXCEPT !.version = @ + 1, !.state = "Expired", !.terminalAt = at]
        /\ t.settlement = "None" /\ t.action = "Expired" /\ actor = "system"
        /\ d.state \in UnfundedStates
    BY <1>12 DEF ExpireUnfunded, When
  <2>2. /\ t.deal.state = "Expired"
        /\ t.deal.receiptAutoConfirmed = d.receiptAutoConfirmed
    BY <2>1 DEF DealType
  <2> QED
    BY <2>1, <2>2 DEF AttestsReceipt, AttestsMoney, AttestsConfirmations, Parties,
         UnfundedStates
<1>13. CASE t \in RefundExpired(d, cmd, actor, at)
  <2>1. /\ t.deal = [d EXCEPT !.version = @ + 1, !.state = "Refunded", !.terminalAt = at]
        /\ t.settlement = "Refund" /\ t.action = "FundsRefunded" /\ actor = "system"
        /\ d.state = "Funded"
    BY <1>13 DEF RefundExpired, When
  <2>2. /\ t.deal.state = "Refunded"
        /\ t.deal.receiptAutoConfirmed = d.receiptAutoConfirmed
    BY <2>1 DEF DealType
  <2> QED
    BY <2>1, <2>2 DEF AttestsReceipt, AttestsMoney, AttestsConfirmations, Parties
<1> QED
  BY <1>1, <1>2, <1>3, <1>4, <1>5, <1>6, <1>7, <1>8, <1>9, <1>10, <1>11, <1>12, <1>13 DEF Transition

-----------------------------------------------------------------------------
(* The timers it asks for, and so the type of the transition as a whole.   *)

Whole(t) == [deal |-> t.deal, timers |-> t.timers, settlement |-> t.settlement,
             action |-> t.action]

\* A timer is set by an attestation of its own, for its window from then; the
\* witness's reading and the timers' commands are attested as such.
LEMMA TransitionStarts ==
    ASSUME NEW d, NEW cmd, NEW actor, NEW at, NEW t \in Transition(d, cmd, actor, at)
    PROVE  /\ \A n \in DOMAIN t.timers : t.timers[n].due # None =>
                 /\ t.action \in StartedBy[t.timers[n].kind]
                 /\ t.timers[n].due = at + Window[t.timers[n].kind]
           /\ cmd.name = "ProposeExtraction" => t.action = "WitnessProposed"
           /\ \A k \in TimerKinds : cmd = TimerCommand(k) => t.action \in LeadsTo[k]
<1>1. /\ StartedBy["AgreementExpiry"] = {"WitnessProposed"}
      /\ StartedBy["FundingExpiry"] = {"TermsFrozen"}
      /\ StartedBy["HandoffDeadline"] = {"FundsHeld"}
      /\ StartedBy["ReceiptWindow"] = {"HandoffProved"}
      /\ StartedBy["ReleaseHold"] = {"ReceiptConfirmed", "DisputeResolved"}
  BY DEF StartedBy, TimerKinds
<1>2. /\ Window["AgreementExpiry"] = AgreementWindow
      /\ Window["FundingExpiry"] = FundingWindow
      /\ Window["HandoffDeadline"] = HandoffWindow
      /\ Window["ReceiptWindow"] = ReceiptWindow
      /\ Window["ReleaseHold"] = ReleaseHold
  BY DEF Window, TimerKinds
<1>3. /\ \A kind, due : SetTimer(kind, due).kind = kind /\ SetTimer(kind, due).due = due
      /\ \A kind : CancelTimer(kind).due = None
  BY DEF SetTimer, CancelTimer
<1>4. \A k \in TimerKinds :
         IF k = "ReleaseHold"
         THEN TimerCommand(k).name = "ReleaseFunds" /\ LeadsTo[k] = {"FundsReleased"}
         ELSE TimerCommand(k).name = "Expire"
                 /\ LeadsTo[k] = {"Expired", "FundsRefunded", "ReceiptConfirmed"}
  BY DEF TimerCommand, Command, LeadsTo
<1>5. CASE t \in ProposeExtraction(d, cmd, actor, at)
  <2>1. /\ t.timers = <<SetTimer("AgreementExpiry", at + AgreementWindow)>>
        /\ t.action = "WitnessProposed" /\ cmd.name = "ProposeExtraction"
    BY <1>5 DEF ProposeExtraction, When
  <2>2. DOMAIN t.timers = {1}
    BY <2>1
  <2> QED
    BY <1>1, <1>2, <1>3, <1>4, <2>1, <2>2
<1>6. CASE t \in CorrectTerms(d, cmd, actor, at)
  <2>1. /\ t.timers = << >>
        /\ t.action = "TermsCorrected" /\ cmd.name = "CorrectTerms"
    BY <1>6 DEF CorrectTerms, When
  <2>2. DOMAIN t.timers = {}
    BY <2>1
  <2> QED
    BY <1>1, <1>2, <1>3, <1>4, <2>1, <2>2
<1>7. CASE t \in Fund(d, cmd, actor, at)
  <2>1. /\ t.timers = <<CancelTimer("FundingExpiry"),
                          SetTimer("HandoffDeadline", at + HandoffWindow)>>
        /\ t.action = "FundsHeld" /\ cmd.name = "Fund"
    BY <1>7 DEF Fund, When
  <2>2. DOMAIN t.timers = {1, 2}
    BY <2>1
  <2> QED
    BY <1>1, <1>2, <1>3, <1>4, <2>1, <2>2
<1>8. CASE t \in SubmitHandoffProof(d, cmd, actor, at)
  <2>1. /\ t.timers = <<CancelTimer("HandoffDeadline"),
                          SetTimer("ReceiptWindow", at + ReceiptWindow)>>
        /\ t.action = "HandoffProved" /\ cmd.name = "SubmitHandoffProof"
    BY <1>8 DEF SubmitHandoffProof, When
  <2>2. DOMAIN t.timers = {1, 2}
    BY <2>1
  <2> QED
    BY <1>1, <1>2, <1>3, <1>4, <2>1, <2>2
<1>9. CASE t \in ConfirmReceipt(d, cmd, actor, at)
  <2>1. /\ t.timers = <<CancelTimer("ReceiptWindow"),
                          SetTimer("ReleaseHold", at + ReleaseHold)>>
        /\ t.action = "ReceiptConfirmed" /\ cmd.name = "ConfirmReceipt"
    BY <1>9 DEF ConfirmReceipt, When
  <2>2. DOMAIN t.timers = {1, 2}
    BY <2>1
  <2> QED
    BY <1>1, <1>2, <1>3, <1>4, <2>1, <2>2
<1>10. CASE t \in AutoConfirmReceipt(d, cmd, actor, at)
  <2>1. /\ t.timers = <<SetTimer("ReleaseHold", at + ReleaseHold)>>
        /\ t.action = "ReceiptConfirmed" /\ cmd.name = "Expire"
    BY <1>10 DEF AutoConfirmReceipt, When
  <2>2. DOMAIN t.timers = {1}
    BY <2>1
  <2> QED
    BY <1>1, <1>2, <1>3, <1>4, <2>1, <2>2
<1>11. CASE t \in ReleaseFunds(d, cmd, actor, at)
  <2>1. /\ t.timers = <<CancelTimer("ReleaseHold")>>
        /\ t.action = "FundsReleased" /\ cmd.name = "ReleaseFunds"
    BY <1>11 DEF ReleaseFunds, When
  <2>2. DOMAIN t.timers = {1}
    BY <2>1
  <2> QED
    BY <1>1, <1>2, <1>3, <1>4, <2>1, <2>2
<1>12. CASE t \in OpenDispute(d, cmd, actor, at)
  <2>1. /\ t.timers = <<CancelTimer("ReleaseHold"),
                          CancelTimer("ReceiptWindow"),
                          CancelTimer("HandoffDeadline")>>
        /\ t.action = "DisputeOpened" /\ cmd.name = "OpenDispute"
    BY <1>12 DEF OpenDispute, When
  <2>2. DOMAIN t.timers = {1, 2, 3}
    BY <2>1
  <2> QED
    BY <1>1, <1>2, <1>3, <1>4, <2>1, <2>2
<1>13. CASE t \in Cancel(d, cmd, actor, at)
  <2>1. /\ t.timers = <<CancelTimer("AgreementExpiry"),
                          CancelTimer("FundingExpiry")>>
        /\ t.action = "Cancelled" /\ cmd.name = "Cancel"
    BY <1>13 DEF Cancel, When
  <2>2. DOMAIN t.timers = {1, 2}
    BY <2>1
  <2> QED
    BY <1>1, <1>2, <1>3, <1>4, <2>1, <2>2
<1>14. CASE t \in ExpireUnfunded(d, cmd, actor, at)
  <2>1. /\ t.timers = <<CancelTimer("AgreementExpiry"),
                          CancelTimer("FundingExpiry")>>
        /\ t.action = "Expired" /\ cmd.name = "Expire"
    BY <1>14 DEF ExpireUnfunded, When
  <2>2. DOMAIN t.timers = {1, 2}
    BY <2>1
  <2> QED
    BY <1>1, <1>2, <1>3, <1>4, <2>1, <2>2
<1>15. CASE t \in RefundExpired(d, cmd, actor, at)
  <2>1. /\ t.timers = <<CancelTimer("HandoffDeadline")>>
        /\ t.action = "FundsRefunded" /\ cmd.name = "Expire"
    BY <1>15 DEF RefundExpired, When
  <2>2. DOMAIN t.timers = {1}
    BY <2>1
  <2> QED
    BY <1>1, <1>2, <1>3, <1>4, <2>1, <2>2
<1>16. CASE t \in ConfirmTerms(d, cmd, actor, at)
  <2>1. /\ \/ /\ t.timers = <<CancelTimer("AgreementExpiry"),
                              SetTimer("FundingExpiry", at + FundingWindow)>>
              /\ t.action = "TermsFrozen"
           \/ t.timers = << >>
        /\ cmd.name = "ConfirmTerms"
    BY <1>16 DEF ConfirmTerms, When
  <2>2. DOMAIN t.timers = {1, 2} \/ DOMAIN t.timers = {}
    BY <2>1
  <2> QED
    BY <1>1, <1>2, <1>3, <1>4, <2>1, <2>2
<1>17. CASE t \in ResolveDispute(d, cmd, actor, at)
  <2>1. /\ \/ t.timers = <<SetTimer("ReleaseHold", at + ReleaseHold)>>
           \/ t.timers = << >>
        /\ t.action = "DisputeResolved" /\ cmd.name = "ResolveDispute"
    BY <1>17 DEF ResolveDispute, When
  <2>2. DOMAIN t.timers = {1} \/ DOMAIN t.timers = {}
    BY <2>1
  <2> QED
    BY <1>1, <1>2, <1>3, <1>4, <2>1, <2>2
<1> QED
  BY <1>5, <1>6, <1>7, <1>8, <1>9, <1>10, <1>11, <1>12, <1>13, <1>14, <1>15, <1>16, <1>17 DEF Transition

LEMMA TransitionIsTransition ==
    ASSUME NEW d \in DealType, NEW cmd, WellFormed(cmd), NEW actor \in Actors,
           NEW at \in Nat, NEW t \in Transition(d, cmd, actor, at)
    PROVE  t \in TransitionType
<1>t. t.deal \in DealType /\ t.settlement \in SettlementIntents /\ t.action \in AttestationActions
  BY TransitionTyped
<1>r. /\ CancelTimer("AgreementExpiry") \in TimerRequest
      /\ SetTimer("AgreementExpiry", at + AgreementWindow) \in TimerRequest
      /\ CancelTimer("FundingExpiry") \in TimerRequest
      /\ SetTimer("FundingExpiry", at + FundingWindow) \in TimerRequest
      /\ CancelTimer("HandoffDeadline") \in TimerRequest
      /\ SetTimer("HandoffDeadline", at + HandoffWindow) \in TimerRequest
      /\ CancelTimer("ReceiptWindow") \in TimerRequest
      /\ SetTimer("ReceiptWindow", at + ReceiptWindow) \in TimerRequest
      /\ CancelTimer("ReleaseHold") \in TimerRequest
      /\ SetTimer("ReleaseHold", at + ReleaseHold) \in TimerRequest
  BY SMTT(30), WindowsAssumption DEF CancelTimer, SetTimer, TimerRequest, TimerKinds, MaybeNat
<1>w. ASSUME t = Whole(t), t.timers \in Seq(TimerRequest)
      PROVE  t \in TransitionType
  BY <1>t, <1>w DEF TransitionType, Whole
<1>1. CASE t \in ProposeExtraction(d, cmd, actor, at)
  <2>1. t = Whole(t)
    BY <1>1 DEF ProposeExtraction, When, Whole
  <2>2. t.timers = <<SetTimer("AgreementExpiry", at + AgreementWindow)>>
    BY <1>1 DEF ProposeExtraction, When
  <2>3. t.timers \in Seq(TimerRequest)
    BY <1>r, <2>2
  <2> QED
    BY <1>w, <2>1, <2>3
<1>2. CASE t \in CorrectTerms(d, cmd, actor, at)
  <2>1. t = Whole(t)
    BY <1>2 DEF CorrectTerms, When, Whole
  <2>2. t.timers = << >>
    BY <1>2 DEF CorrectTerms, When
  <2>3. t.timers \in Seq(TimerRequest)
    BY <1>r, <2>2
  <2> QED
    BY <1>w, <2>1, <2>3
<1>3. CASE t \in ConfirmTerms(d, cmd, actor, at)
  <2>1. t = Whole(t)
    BY <1>3 DEF ConfirmTerms, When, Whole
  <2>2. \/ t.timers = <<CancelTimer("AgreementExpiry"), SetTimer("FundingExpiry", at + FundingWindow)>>
        \/ t.timers = << >>
    BY <1>3 DEF ConfirmTerms, When
  <2>3. t.timers \in Seq(TimerRequest)
    <3>1. CASE t.timers = <<CancelTimer("AgreementExpiry"), SetTimer("FundingExpiry", at + FundingWindow)>>
      BY <1>r, <3>1
    <3>2. CASE t.timers = << >>
      BY <3>2
    <3> QED
      BY <2>2, <3>1, <3>2
  <2> QED
    BY <1>w, <2>1, <2>3
<1>4. CASE t \in Fund(d, cmd, actor, at)
  <2>1. t = Whole(t)
    BY <1>4 DEF Fund, When, Whole
  <2>2. t.timers = <<CancelTimer("FundingExpiry"), SetTimer("HandoffDeadline", at + HandoffWindow)>>
    BY <1>4 DEF Fund, When
  <2>3. t.timers \in Seq(TimerRequest)
    BY <1>r, <2>2
  <2> QED
    BY <1>w, <2>1, <2>3
<1>5. CASE t \in SubmitHandoffProof(d, cmd, actor, at)
  <2>1. t = Whole(t)
    BY <1>5 DEF SubmitHandoffProof, When, Whole
  <2>2. t.timers = <<CancelTimer("HandoffDeadline"), SetTimer("ReceiptWindow", at + ReceiptWindow)>>
    BY <1>5 DEF SubmitHandoffProof, When
  <2>3. t.timers \in Seq(TimerRequest)
    BY <1>r, <2>2
  <2> QED
    BY <1>w, <2>1, <2>3
<1>6. CASE t \in ConfirmReceipt(d, cmd, actor, at)
  <2>1. t = Whole(t)
    BY <1>6 DEF ConfirmReceipt, When, Whole
  <2>2. t.timers = <<CancelTimer("ReceiptWindow"), SetTimer("ReleaseHold", at + ReleaseHold)>>
    BY <1>6 DEF ConfirmReceipt, When
  <2>3. t.timers \in Seq(TimerRequest)
    BY <1>r, <2>2
  <2> QED
    BY <1>w, <2>1, <2>3
<1>7. CASE t \in AutoConfirmReceipt(d, cmd, actor, at)
  <2>1. t = Whole(t)
    BY <1>7 DEF AutoConfirmReceipt, When, Whole
  <2>2. t.timers = <<SetTimer("ReleaseHold", at + ReleaseHold)>>
    BY <1>7 DEF AutoConfirmReceipt, When
  <2>3. t.timers \in Seq(TimerRequest)
    BY <1>r, <2>2
  <2> QED
    BY <1>w, <2>1, <2>3
<1>8. CASE t \in ReleaseFunds(d, cmd, actor, at)
  <2>1. t = Whole(t)
    BY <1>8 DEF ReleaseFunds, When, Whole
  <2>2. t.timers = <<CancelTimer("ReleaseHold")>>
    BY <1>8 DEF ReleaseFunds, When
  <2>3. t.timers \in Seq(TimerRequest)
    BY <1>r, <2>2
  <2> QED
    BY <1>w, <2>1, <2>3
<1>9. CASE t \in OpenDispute(d, cmd, actor, at)
  <2>1. t = Whole(t)
    BY <1>9 DEF OpenDispute, When, Whole
  <2>2. t.timers = <<CancelTimer("ReleaseHold"), CancelTimer("ReceiptWindow"), CancelTimer("HandoffDeadline")>>
    BY <1>9 DEF OpenDispute, When
  <2>3. t.timers \in Seq(TimerRequest)
    BY <1>r, <2>2
  <2> QED
    BY <1>w, <2>1, <2>3
<1>10. CASE t \in ResolveDispute(d, cmd, actor, at)
  <2>1. t = Whole(t)
    BY <1>10 DEF ResolveDispute, When, Whole
  <2>2. \/ t.timers = <<SetTimer("ReleaseHold", at + ReleaseHold)>>
        \/ t.timers = << >>
    BY <1>10 DEF ResolveDispute, When
  <2>3. t.timers \in Seq(TimerRequest)
    <3>1. CASE t.timers = <<SetTimer("ReleaseHold", at + ReleaseHold)>>
      BY <1>r, <3>1
    <3>2. CASE t.timers = << >>
      BY <3>2
    <3> QED
      BY <2>2, <3>1, <3>2
  <2> QED
    BY <1>w, <2>1, <2>3
<1>11. CASE t \in Cancel(d, cmd, actor, at)
  <2>1. t = Whole(t)
    BY <1>11 DEF Cancel, When, Whole
  <2>2. t.timers = <<CancelTimer("AgreementExpiry"), CancelTimer("FundingExpiry")>>
    BY <1>11 DEF Cancel, When
  <2>3. t.timers \in Seq(TimerRequest)
    BY <1>r, <2>2
  <2> QED
    BY <1>w, <2>1, <2>3
<1>12. CASE t \in ExpireUnfunded(d, cmd, actor, at)
  <2>1. t = Whole(t)
    BY <1>12 DEF ExpireUnfunded, When, Whole
  <2>2. t.timers = <<CancelTimer("AgreementExpiry"), CancelTimer("FundingExpiry")>>
    BY <1>12 DEF ExpireUnfunded, When
  <2>3. t.timers \in Seq(TimerRequest)
    BY <1>r, <2>2
  <2> QED
    BY <1>w, <2>1, <2>3
<1>13. CASE t \in RefundExpired(d, cmd, actor, at)
  <2>1. t = Whole(t)
    BY <1>13 DEF RefundExpired, When, Whole
  <2>2. t.timers = <<CancelTimer("HandoffDeadline")>>
    BY <1>13 DEF RefundExpired, When
  <2>3. t.timers \in Seq(TimerRequest)
    BY <1>r, <2>2
  <2> QED
    BY <1>w, <2>1, <2>3
<1> QED
  BY <1>1, <1>2, <1>3, <1>4, <1>5, <1>6, <1>7, <1>8, <1>9, <1>10, <1>11, <1>12, <1>13 DEF Transition
=============================================================================
