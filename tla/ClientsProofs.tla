---------------------------- MODULE ClientsProofs ----------------------------
(***************************************************************************)
(* What holds of Clients for every set of terms, every length of the       *)
(* windows and every bound: what binds was on both screens, a receipt put  *)
(* together from two queries holds together, and what verifies, or carries *)
(* the platform's signature, has the payloads that were sealed.            *)
(***************************************************************************)
EXTENDS Clients, DealLifecycleProofs, FiniteSetTheorems

-----------------------------------------------------------------------------
(* What a transition does to the revision a confirmation names.            *)

SameRevision(d, e) ==
    e.terms = d.terms /\ e.termsRevision = d.termsRevision

\* A new revision of the terms, which nobody has confirmed.
NewRevision(d, e) ==
    /\ e.confirmed = Nobody
    /\ \/ d.state = "Draft" /\ e.termsRevision = 0
       \/ e.termsRevision = d.termsRevision + 1

\* A confirmation of the revision as it stands.
Confirms(d, cmd, actor, t) ==
    /\ t.action \in {"TermsConfirmed", "TermsFrozen"}
    /\ cmd.name = "ConfirmTerms" /\ cmd.revision = d.termsRevision
    /\ SameRevision(d, t.deal)
    /\ \A p \in Parties : p # actor => t.deal.confirmed[p] = d.confirmed[p]

LEMMA RevisionEffect ==
    ASSUME NEW d \in DealType, NEW cmd, NEW actor \in Actors, NEW at \in Nat,
           NEW t \in Transition(d, cmd, actor, at)
    PROVE  \/ NewRevision(d, t.deal) /\ cmd.name # "ConfirmTerms"
           \/ Confirms(d, cmd, actor, t)
           \/ /\ SameRevision(d, t.deal) /\ t.deal.confirmed = d.confirmed
              /\ cmd.name # "ConfirmTerms"
<1>1. CASE t \in ProposeExtraction(d, cmd, actor, at)
  <2>1. /\ t.deal = [d EXCEPT !.version = @ + 1, !.state = "PendingAgreement",
                              !.terms = cmd.terms, !.termsRevision = 0, !.confirmed = Nobody]
        /\ d.state = "Draft" /\ cmd.name # "ConfirmTerms"
    BY <1>1 DEF ProposeExtraction, When
  <2>2. t.deal.confirmed = Nobody /\ t.deal.termsRevision = 0
    <3>1. PICK moved : moved = [d EXCEPT !.version = @ + 1, !.state = "PendingAgreement"]
      OBVIOUS
    <3>2. DOMAIN moved = DOMAIN d
      BY <3>1 DEF DealType
    <3>3. t.deal = [moved EXCEPT !.terms = cmd.terms, !.termsRevision = 0, !.confirmed = Nobody]
      BY <2>1, <3>1
    <3> QED
      BY <3>2, <3>3 DEF DealType
  <2> QED
    BY <2>1, <2>2 DEF NewRevision
<1>2. CASE t \in CorrectTerms(d, cmd, actor, at)
  <2>1. /\ t.deal = [d EXCEPT !.version = @ + 1, !.terms = cmd.terms, !.termsRevision = @ + 1,
                              !.confirmed = Nobody]
        /\ cmd.name # "ConfirmTerms"
    BY <1>2 DEF CorrectTerms, When
  <2>2. t.deal.confirmed = Nobody /\ t.deal.termsRevision = d.termsRevision + 1
    BY <2>1 DEF DealType
  <2> QED
    BY <2>1, <2>2 DEF NewRevision
<1>3. CASE t \in ConfirmTerms(d, cmd, actor, at)
  <2> DEFINE marked == [d EXCEPT !.version = @ + 1, !.confirmed[actor] = cmd.revision]
             frozen == [marked EXCEPT !.state = "Agreed",
                                      !.termsHash = CanonicalHash(d.terms),
                                      !.frozenAt = at]
  <2>1. /\ cmd.name = "ConfirmTerms" /\ cmd.revision = d.termsRevision
        /\ \/ t.deal = marked /\ t.action = "TermsConfirmed"
           \/ t.deal = frozen /\ t.action = "TermsFrozen"
    BY <1>3 DEF ConfirmTerms, When
  <2>2. /\ SameRevision(d, marked) /\ DOMAIN marked = DOMAIN d
        /\ \A p \in Parties : p # actor => marked.confirmed[p] = d.confirmed[p]
    BY DEF DealType, SameRevision
  <2>3. frozen.terms = marked.terms /\ frozen.termsRevision = marked.termsRevision
        /\ frozen.confirmed = marked.confirmed
    <3> HIDE DEF marked
    <3> QED BY <2>2 DEF DealType
  <2> HIDE DEF marked, frozen
  <2> QED
    BY <2>1, <2>2, <2>3 DEF Confirms, SameRevision
<1>4. CASE t \in Fund(d, cmd, actor, at)
  <2>1. t.deal = [d EXCEPT !.version = @ + 1, !.state = "Funded"]
    BY <1>4 DEF Fund, When
  <2>2. cmd.name # "ConfirmTerms"
    BY <1>4 DEF Fund, When
  <2> QED
    BY <2>1, <2>2 DEF DealType, SameRevision
<1>5. CASE t \in SubmitHandoffProof(d, cmd, actor, at)
  <2>1. t.deal = [d EXCEPT !.version = @ + 1, !.state = "HandoffProved"]
    BY <1>5 DEF SubmitHandoffProof, When
  <2>2. cmd.name # "ConfirmTerms"
    BY <1>5 DEF SubmitHandoffProof, When
  <2> QED
    BY <2>1, <2>2 DEF DealType, SameRevision
<1>6. CASE t \in ConfirmReceipt(d, cmd, actor, at)
  <2>1. t.deal = [d EXCEPT !.version = @ + 1, !.state = "Holding",
                             !.releaseDueAt = at + ReleaseHold]
    BY <1>6 DEF ConfirmReceipt, When
  <2>2. cmd.name # "ConfirmTerms"
    BY <1>6 DEF ConfirmReceipt, When
  <2> QED
    BY <2>1, <2>2 DEF DealType, SameRevision
<1>7. CASE t \in AutoConfirmReceipt(d, cmd, actor, at)
  <2>1. t.deal = [d EXCEPT !.version = @ + 1, !.state = "Holding",
                             !.releaseDueAt = at + ReleaseHold,
                             !.receiptAutoConfirmed = TRUE]
    BY <1>7 DEF AutoConfirmReceipt, When
  <2>2. cmd.name # "ConfirmTerms"
    BY <1>7 DEF AutoConfirmReceipt, When
  <2> QED
    BY <2>1, <2>2 DEF DealType, SameRevision
<1>8. CASE t \in ReleaseFunds(d, cmd, actor, at)
  <2>1. t.deal = [d EXCEPT !.version = @ + 1, !.state = "Completed",
                             !.terminalAt = at]
    BY <1>8 DEF ReleaseFunds, When
  <2>2. cmd.name # "ConfirmTerms"
    BY <1>8 DEF ReleaseFunds, When
  <2> QED
    BY <2>1, <2>2 DEF DealType, SameRevision
<1>9. CASE t \in OpenDispute(d, cmd, actor, at)
  <2>1. t.deal = [d EXCEPT !.version = @ + 1, !.state = "Disputed"]
    BY <1>9 DEF OpenDispute, When
  <2>2. cmd.name # "ConfirmTerms"
    BY <1>9 DEF OpenDispute, When
  <2> QED
    BY <2>1, <2>2 DEF DealType, SameRevision
<1>10. CASE t \in ResolveDispute(d, cmd, actor, at)
  <2>1. /\ cmd.name # "ConfirmTerms"
        /\ \/ t.deal = [d EXCEPT !.version = @ + 1, !.state = "Resolved",
                                 !.outcome = cmd.outcome, !.terminalAt = at]
           \/ t.deal = [d EXCEPT !.version = @ + 1, !.state = "Holding",
                                 !.releaseDueAt = at + ReleaseHold]
    BY <1>10 DEF ResolveDispute, When
  <2> QED
    BY <2>1 DEF DealType, SameRevision
<1>11. CASE t \in Cancel(d, cmd, actor, at)
  <2>1. t.deal = [d EXCEPT !.version = @ + 1, !.state = "Cancelled",
                             !.terminalAt = at]
    BY <1>11 DEF Cancel, When
  <2>2. cmd.name # "ConfirmTerms"
    BY <1>11 DEF Cancel, When
  <2> QED
    BY <2>1, <2>2 DEF DealType, SameRevision
<1>12. CASE t \in ExpireUnfunded(d, cmd, actor, at)
  <2>1. t.deal = [d EXCEPT !.version = @ + 1, !.state = "Expired",
                             !.terminalAt = at]
    BY <1>12 DEF ExpireUnfunded, When
  <2>2. cmd.name # "ConfirmTerms"
    BY <1>12 DEF ExpireUnfunded, When
  <2> QED
    BY <2>1, <2>2 DEF DealType, SameRevision
<1>13. CASE t \in RefundExpired(d, cmd, actor, at)
  <2>1. t.deal = [d EXCEPT !.version = @ + 1, !.state = "Refunded",
                             !.terminalAt = at]
    BY <1>13 DEF RefundExpired, When
  <2>2. cmd.name # "ConfirmTerms"
    BY <1>13 DEF RefundExpired, When
  <2> QED
    BY <2>1, <2>2 DEF DealType, SameRevision
<1> QED
  BY <1>1, <1>2, <1>3, <1>4, <1>5, <1>6, <1>7, <1>8, <1>9, <1>10, <1>11, <1>12, <1>13
     DEF Transition

\* Terms are bound by the transition that says so, and by no other.
LEMMA FreezeIsNamed ==
    ASSUME NEW d \in DealType, NEW cmd, NEW actor \in Actors, NEW at \in Nat,
           NEW t \in Transition(d, cmd, actor, at), Freezes(d, t.deal, at)
    PROVE  t.action = "TermsFrozen"
<1>0. d.state = "PendingAgreement" /\ t.deal.state = "Agreed"
  BY DEF Freezes
<1>1. CASE t \in CorrectTerms(d, cmd, actor, at)
  <2>1. t.deal = [d EXCEPT !.version = @ + 1, !.terms = cmd.terms, !.termsRevision = @ + 1,
                           !.confirmed = Nobody]
    BY <1>1 DEF CorrectTerms, When
  <2> QED
    BY <1>0, <2>1 DEF DealType
<1>2. CASE t \in ConfirmTerms(d, cmd, actor, at)
  <2> DEFINE marked == [d EXCEPT !.version = @ + 1, !.confirmed[actor] = cmd.revision]
  <2>1. t.deal = marked \/ t.action = "TermsFrozen"
    BY <1>2 DEF ConfirmTerms, When
  <2>2. marked.state = d.state
    BY DEF DealType
  <2> HIDE DEF marked
  <2> QED
    BY <1>0, <2>1, <2>2
<1>3. CASE t \in Cancel(d, cmd, actor, at)
  <2>1. t.deal = [d EXCEPT !.version = @ + 1, !.state = "Cancelled", !.terminalAt = at]
    BY <1>3 DEF Cancel, When
  <2> QED
    BY <1>0, <2>1 DEF DealType
<1>4. CASE t \in ExpireUnfunded(d, cmd, actor, at)
  <2>1. t.deal = [d EXCEPT !.version = @ + 1, !.state = "Expired", !.terminalAt = at]
    BY <1>4 DEF ExpireUnfunded, When
  <2> QED
    BY <1>0, <2>1 DEF DealType
<1>5. t \in CorrectTerms(d, cmd, actor, at) \cup ConfirmTerms(d, cmd, actor, at)
           \cup Cancel(d, cmd, actor, at) \cup ExpireUnfunded(d, cmd, actor, at)
  <2>1. /\ t \notin ProposeExtraction(d, cmd, actor, at) /\ t \notin Fund(d, cmd, actor, at)
        /\ t \notin SubmitHandoffProof(d, cmd, actor, at)
        /\ t \notin ConfirmReceipt(d, cmd, actor, at)
        /\ t \notin AutoConfirmReceipt(d, cmd, actor, at)
        /\ t \notin ReleaseFunds(d, cmd, actor, at) /\ t \notin OpenDispute(d, cmd, actor, at)
        /\ t \notin ResolveDispute(d, cmd, actor, at) /\ t \notin RefundExpired(d, cmd, actor, at)
    BY <1>0
       DEF ProposeExtraction, Fund, SubmitHandoffProof, ConfirmReceipt, AutoConfirmReceipt,
           ReleaseFunds, OpenDispute, ResolveDispute, RefundExpired, When
  <2> QED
    BY <2>1 DEF Transition
<1> QED
  BY <1>1, <1>2, <1>3, <1>4, <1>5

-----------------------------------------------------------------------------
(* Sealing: a chain that verifies still does with one more link.           *)

IsRow(s) == \E S : s \in Seq(S)

LEMMA AppendedRow ==
    ASSUME NEW s, IsRow(s), NEW x
    PROVE  /\ IsRow(Append(s, x))
           /\ Len(s) \in Nat /\ DOMAIN s = 1 .. Len(s)
           /\ Len(Append(s, x)) = Len(s) + 1
           /\ DOMAIN Append(s, x) = 1 .. (Len(s) + 1)
           /\ \A i \in 1 .. Len(s) : Append(s, x)[i] = s[i]
           /\ Append(s, x)[Len(s) + 1] = x
<1>1. PICK S : s \in Seq(S)
  BY DEF IsRow
<1>2. PICK R : R = S \cup {x}
  OBVIOUS
<1>3. s \in Seq(R) /\ x \in R
  BY <1>1, <1>2
<1>4. Append(s, x) \in Seq(R)
  BY <1>3
<1>5. IsRow(Append(s, x))
  BY <1>4 DEF IsRow
<1> QED
  BY <1>3, <1>4, <1>5, AppendProperties

\* Every link carries the platform's signature over its own hash.
AllSigned(s) == \A i \in DOMAIN s : s[i].signature = Signature(PlatformKey, s[i].hash)

\* The link that sealing appends.
NewLink(id, s, draft) == SignedBy(PlatformKey, Link(Len(s), ChainHead(id, s), draft))

LEMMA LinkFields ==
    ASSUME NEW seq, NEW prev, NEW draft, NEW key,
           NEW x, x = SignedBy(key, Link(seq, prev, draft))
    PROVE  /\ x.seq = seq /\ x.prev = prev
           /\ x.action = draft.action /\ x.actor = draft.actor /\ x.at = draft.at
           /\ x.payload = draft.payload /\ x.payloadHash = CanonicalHash(draft.payload)
           /\ x.hash = LinkHash(prev, CanonicalHash(draft.payload))
           /\ x.signature = Signature(key, x.hash)
BY DEF SignedBy, Link

LEMMA SealingVerifies ==
    ASSUME NEW id, NEW s, IsRow(s), VerifyChain(id, s), AllSigned(s), NEW draft
    PROVE  LET r == Sealed(id, s, draft) IN
           /\ IsRow(r) /\ Len(s) \in Nat /\ Len(r) = Len(s) + 1
           /\ DOMAIN s = 1 .. Len(s) /\ DOMAIN r = 1 .. (Len(s) + 1)
           /\ \A i \in 1 .. Len(s) : r[i] = s[i]
           /\ r[Len(s) + 1] = NewLink(id, s, draft)
           /\ VerifyChain(id, r) /\ AllSigned(r)
<1>1. PICK x : x = NewLink(id, s, draft)
  OBVIOUS
<1>2. PICK r : r = Append(s, x)
  OBVIOUS
<1>3. r = Sealed(id, s, draft)
  BY <1>1, <1>2 DEF Sealed, NewLink
<1>4. /\ IsRow(r) /\ Len(s) \in Nat /\ DOMAIN s = 1 .. Len(s)
      /\ Len(r) = Len(s) + 1 /\ DOMAIN r = 1 .. (Len(s) + 1)
      /\ \A i \in 1 .. Len(s) : r[i] = s[i]
      /\ r[Len(s) + 1] = x
  BY <1>2, AppendedRow
<1>5. ASSUME NEW i \in 1 .. (Len(s) + 1)
      PROVE  /\ r[i].seq = i - 1
             /\ r[i].prev = ExpectedPrev(id, r, i)
             /\ r[i].payloadHash = CanonicalHash(r[i].payload)
             /\ r[i].hash = LinkHash(r[i].prev, r[i].payloadHash)
             /\ r[i].signature = Signature(PlatformKey, r[i].hash)
  <2>1. CASE i <= Len(s)
    <3>1. r[i] = s[i] /\ (i # 1 => r[i - 1] = s[i - 1]) /\ i \in DOMAIN s
      BY <1>4, <2>1
    <3>2. ExpectedPrev(id, r, i) = ExpectedPrev(id, s, i)
      BY <3>1 DEF ExpectedPrev
    <3> QED
      BY <3>1, <3>2 DEF VerifyChain, AllSigned
  <2>2. CASE i = Len(s) + 1
    <3>1. /\ r[i].payload = draft.payload /\ r[i].payloadHash = CanonicalHash(draft.payload)
          /\ r[i].prev = ChainHead(id, s) /\ r[i].seq = Len(s)
          /\ r[i].hash = LinkHash(ChainHead(id, s), CanonicalHash(draft.payload))
          /\ r[i].signature = Signature(PlatformKey, r[i].hash)
      BY <1>1, <1>4, <2>2, LinkFields DEF NewLink
    <3>2. ExpectedPrev(id, r, i) = ChainHead(id, s)
      <4>1. CASE Len(s) = 0
        <5>1. s = << >>
          BY <4>1, EmptySeq DEF IsRow
        <5> QED
          BY <2>2, <4>1, <5>1 DEF ExpectedPrev, ChainHead
      <4>2. CASE Len(s) # 0
        <5>1. s # << >> /\ Len(s) \in 1 .. Len(s) /\ i # 1 /\ i - 1 = Len(s)
          BY <1>4, <2>2, <4>2
        <5>2. r[i - 1] = s[Len(s)]
          BY <1>4, <5>1
        <5> QED
          BY <5>1, <5>2 DEF ExpectedPrev, ChainHead, Last
      <4> QED
        BY <4>1, <4>2
    <3> QED
      BY <1>4, <2>2, <3>1, <3>2
  <2> QED
    BY <1>4, <2>1, <2>2
<1>6. VerifyChain(id, r) /\ AllSigned(r)
  BY <1>4, <1>5 DEF VerifyChain, AllSigned
<1> QED
  BY <1>1, <1>3, <1>4, <1>6

\* What the browser says of a chain that verifies and is signed throughout.
LEMMA BrowserAgrees ==
    ASSUME NEW id, NEW s, VerifyChain(id, s), AllSigned(s)
    PROVE  /\ \A supported \in BOOLEAN : VerifyReceipt(id, s, PlatformKey, supported).ok
           /\ \A i \in DOMAIN s :
                 VerifyReceipt(id, s, PlatformKey, TRUE).signatures[i] = "good"
<1>1. ASSUME NEW i \in DOMAIN s
      PROVE  /\ SignatureOk(s[i], PlatformKey) = "good"
             /\ SignatureOk(s[i], NoKey) = "unchecked"
  <2>1. s[i].signature = Signature(PlatformKey, s[i].hash)
    BY DEF AllSigned
  <2>2. Signature(PlatformKey, s[i].hash) # Unsigned
    BY KeysAssumption DEF Signature, Unsigned
  <2> QED
    BY <2>1, <2>2, KeysAssumption DEF SignatureOk
<1>2. ASSUME NEW i \in DOMAIN s
      PROVE  /\ CanonicalHash(s[i].payload) = s[i].payloadHash
             /\ s[i].prev = ExpectedPrev(id, s, i)
             /\ LinkHash(ExpectedPrev(id, s, i), s[i].payloadHash) = s[i].hash
             /\ s[i].seq = i - 1
  BY DEF VerifyChain
<1> QED
  BY <1>1, <1>2, KeysAssumption DEF VerifyReceipt

-----------------------------------------------------------------------------
(* The invariant.                                                          *)

View == [askable : BOOLEAN, revision : MaybeNat, terms : Terms \cup {NoTerms}]

\* The deal leaves Draft with its first command, before anybody can look at it.
DraftIsNew == deal.state = "Draft" => deal.version = 0

\* The rows of `attestations` verify, one for each row of the chain.
RowsVerify ==
    /\ IsRow(sealed) /\ Len(sealed) = Len(chain)
    /\ VerifyChain(ThisDeal, sealed) /\ AllSigned(sealed)

\* The freeze of the terms of d, a deal or the record of one, is among these rows.
Attested(d, rows) ==
    d.termsHash # NoHash =>
        \E i \in DOMAIN rows :
            /\ rows[i].action = "TermsFrozen"
            /\ rows[i].payload.says.terms = d.terms
            /\ rows[i].payload.says.termsHash = d.termsHash

FreezeOnRecord == Attested(deal, sealed)

\* A screen is never ahead of the deal, and one at the deal's revision shows
\* the deal's terms.  What a standing confirmation agreed to are these terms.
ScreensLag ==
    /\ shown \in [Parties -> View]
    /\ agreedTo \in [Parties -> Terms \cup {NoTerms}]
    /\ \A p \in Parties :
          /\ shown[p].revision <= deal.termsRevision
          /\ shown[p].revision = deal.termsRevision => shown[p].terms = deal.terms
          /\ ConfirmedBy(deal, p) => agreedTo[p] = deal.terms
          /\ deal.version = 0 => shown[p] = NoView

\* What the first query of a receipt has found.
RecordHolds(record) ==
    /\ record.version \in Nat /\ record.version <= deal.version
    /\ Attested(record, sealed)
    /\ VerifyTermsHash(record.terms, record.termsHash)

PageHolds ==
    /\ page.stage \in {"loaded", "served"} => RecordHolds(page.record)
    /\ Served =>
          /\ Len(page.attestations) >= page.record.version
          /\ VerifyChain(ThisDeal, page.attestations) /\ AllSigned(page.attestations)
          /\ Attested(page.record, page.attestations)

ClientInv == IInv /\ DraftIsNew /\ RowsVerify /\ FreezeOnRecord /\ ScreensLag /\ PageHolds

LEMMA ClientInitInv ==
    ASSUME ClientInit
    PROVE  ClientInv
<1>1. IInv
  BY InitIInv DEF ClientInit
<1>2. /\ deal = NewDeal /\ chain = << >> /\ sealed = << >> /\ page = NoPage
      /\ shown = [p \in Parties |-> NoView] /\ agreedTo = [p \in Parties |-> NoTerms]
  BY DEF ClientInit, Init
<1>3. NewDeal.version = 0 /\ NewDeal.termsRevision = 0 /\ NewDeal.confirmed = Nobody
  BY DEF NewDeal
<1>4. RowsVerify
  <2>1. << >> \in Seq({})
    OBVIOUS
  <2> QED
    BY <1>2, <2>1 DEF RowsVerify, IsRow, VerifyChain, AllSigned
<1>5. ScreensLag
  <2>1. NoView \in View /\ NoView.revision = None /\ None < 0
    BY DEF NoView, View, MaybeNat, None
  <2>2. \A p \in Parties : ~ConfirmedBy(NewDeal, p)
    BY <1>3 DEF ConfirmedBy, Nobody, None
  <2> QED
    BY <1>2, <1>3, <2>1, <2>2 DEF ScreensLag, None
<1>6. PageHolds
  BY <1>2 DEF PageHolds, Served, NoPage
<1>7. FreezeOnRecord
  BY <1>2 DEF FreezeOnRecord, Attested, NewDeal
<1> QED
  BY <1>1, <1>2, <1>3, <1>4, <1>5, <1>6, <1>7 DEF ClientInv, DraftIsNew

\* Any accepted command: the rows verify, the deal is no longer new.
LEMMA AcceptSeals ==
    ASSUME ClientInv, NEW cmd, WellFormed(cmd), NEW actor \in Actors, NEW at \in Nat,
           Accept(cmd, actor, at), SealNew
    PROVE  /\ IInv' /\ DraftIsNew' /\ RowsVerify' /\ FreezeOnRecord'
           /\ deal'.version \in Nat /\ deal'.version > deal.version
           /\ \A i \in DOMAIN sealed : i \in DOMAIN sealed' /\ sealed'[i] = sealed[i]
<1>0. TypeOK /\ ChainIsVersion /\ deal \in DealType
  BY DEF ClientInv, IInv, TypeOK
<1>1. PICK t \in Transition(deal, cmd, actor, at) :
         deal' = t.deal /\ chain' = Append(chain, Row(t.action, actor, at))
  BY DEF Accept
<1>2. IInv'
  BY AcceptKeepsIInv DEF ClientInv
<1>3. Extends([action |-> t.action, actor |-> actor, at |-> at])
  BY <1>0, <1>1, AcceptExtends
<1>4. Len(chain') = Len(chain) + 1 /\ chain' # chain /\ Last(chain').action = t.action
  BY <1>3 DEF Extends, Last
<1>5. PICK draft : draft = Draft(Last(chain'), deal')
  OBVIOUS
<1>6. sealed' = Sealed(ThisDeal, sealed, draft)
  BY <1>4, <1>5 DEF SealNew
<1>7. /\ RowsVerify' /\ Len(sealed) \in Nat
      /\ DOMAIN sealed = 1 .. Len(sealed) /\ DOMAIN sealed' = 1 .. (Len(sealed) + 1)
      /\ \A i \in 1 .. Len(sealed) : sealed'[i] = sealed[i]
      /\ sealed'[Len(sealed) + 1] = NewLink(ThisDeal, sealed, draft)
  BY <1>4, <1>6, SealingVerifies DEF ClientInv, RowsVerify
<1>8. t.deal.state # "Draft"
  BY <1>0, TransitionEffect DEF Negotiates, Freezes, Edges, Resolves
<1>9. deal'.version \in Nat /\ deal'.version > deal.version
  BY <1>0, <1>1, TransitionTyped DEF DealType
<1>10. FreezeOnRecord'
  <2>1. CASE Freezes(deal, t.deal, at)
    <3>1. t.action = "TermsFrozen"
      BY <1>0, <2>1, FreezeIsNamed
    <3>2. /\ draft.action = "TermsFrozen"
          /\ draft.payload.says.terms = deal'.terms
          /\ draft.payload.says.termsHash = deal'.termsHash
      BY <1>4, <1>5, <3>1 DEF Draft, PayloadOf
    <3>3. PICK x : x = NewLink(ThisDeal, sealed, draft)
      OBVIOUS
    <3>4. x.action = draft.action /\ x.payload = draft.payload
      BY <3>3, LinkFields DEF NewLink
    <3>5. Len(sealed) + 1 \in DOMAIN sealed' /\ sealed'[Len(sealed) + 1] = x
      BY <1>7, <3>3
    <3> QED
      BY <3>2, <3>4, <3>5 DEF FreezeOnRecord, Attested
  <2>2. CASE /\ deal'.termsHash = deal.termsHash
             /\ deal.termsHash # NoHash => deal'.terms = deal.terms
    BY <1>7, <2>2 DEF ClientInv, FreezeOnRecord, Attested
  <2>3. deal.termsHash # NoHash => SameTerms(deal, deal')
    BY AcceptBinds DEF ClientInv, IInv
  <2>4. Freezes(deal, t.deal, at) \/ deal'.termsHash = deal.termsHash
    BY <1>0, <1>1, TransitionEffect DEF Negotiates, SameTerms
  <2> QED
    BY <2>1, <2>2, <2>3, <2>4 DEF SameTerms
<1> QED
  BY <1>1, <1>2, <1>7, <1>8, <1>9, <1>10 DEF DraftIsNew

\* The page outlives what happens to the deal.
LEMMA PageStands ==
    ASSUME PageHolds, UNCHANGED page, deal'.version \in Nat, deal.version \in Nat,
           deal'.version >= deal.version,
           \A i \in DOMAIN sealed : i \in DOMAIN sealed' /\ sealed'[i] = sealed[i]
    PROVE  PageHolds'
<1>1. ASSUME page.stage \in {"loaded", "served"} PROVE RecordHolds(page.record)'
  <2>1. Attested(page.record, sealed')
    BY <1>1 DEF PageHolds, RecordHolds, Attested
  <2> QED
    BY <1>1, <2>1 DEF PageHolds, RecordHolds
<1> QED
  BY <1>1 DEF PageHolds, Served

-----------------------------------------------------------------------------
(* The steps.                                                              *)

LEMMA DealMovesKeeps ==
    ASSUME ClientInv, DealMoves
    PROVE  ClientInv'
<1>0. TypeOK /\ deal \in DealType
  BY DEF ClientInv, IInv, TypeOK
<1>1. CASE Tick
  <2>1. UNCHANGED <<deal, chain, intents>> /\ UNCHANGED <<sealed, shown, agreedTo, page>>
    BY <1>1 DEF Tick, DealMoves, SealNew, screens
  <2>2. IInv'
    BY StepKeepsIInv DEF ClientInv, DealMoves
  <2> QED
    BY <2>1, <2>2
       DEF ClientInv, DraftIsNew, RowsVerify, FreezeOnRecord, ScreensLag, PageHolds,
           RecordHolds, Served
<1>2. ASSUME NEW cmd, WellFormed(cmd), NEW actor \in Actors, NEW at \in LastAt .. now,
             Accept(cmd, actor, at)
      PROVE  ClientInv'
  <2>1. at \in Nat
    BY <1>0, InstantIsNat
  <2>2. /\ IInv' /\ DraftIsNew' /\ RowsVerify' /\ FreezeOnRecord'
        /\ deal'.version \in Nat /\ deal'.version > deal.version
        /\ \A i \in DOMAIN sealed : i \in DOMAIN sealed' /\ sealed'[i] = sealed[i]
    BY <1>2, <2>1, AcceptSeals DEF DealMoves
  <2>3. PICK t \in Transition(deal, cmd, actor, at) :
           deal' = t.deal /\ chain' = Append(chain, Row(t.action, actor, at))
    BY <1>2 DEF Accept
  <2>4. t.action \notin {"TermsConfirmed", "TermsFrozen"}
    <3>1. Extends([action |-> t.action, actor |-> actor, at |-> at])
      BY <1>0, <1>2, <2>1, <2>3, AcceptExtends
    <3>2. chain' # chain /\ Last(chain').action = t.action
      BY <3>1 DEF Extends, Last
    <3> QED
      BY <3>2 DEF DealMoves
  <2>5. \/ NewRevision(deal, deal')
        \/ SameRevision(deal, deal') /\ deal'.confirmed = deal.confirmed
    BY <1>0, <2>1, <2>3, <2>4, RevisionEffect DEF Confirms
  <2>6. UNCHANGED <<shown, agreedTo, page>>
    BY DEF DealMoves, screens
  <2>7. deal' \in DealType /\ deal.version \in Nat /\ deal.termsRevision \in Nat
    BY <1>0, <2>2 DEF IInv, TypeOK, DealType
  <2>8. ScreensLag'
    <3>1. CASE SameRevision(deal, deal') /\ deal'.confirmed = deal.confirmed
      BY <2>2, <2>6, <2>7, <3>1 DEF ClientInv, ScreensLag, SameRevision, ConfirmedBy
    <3>2. CASE NewRevision(deal, deal')
      <4>1. \A p \in Parties : ~ConfirmedBy(deal', p)
        BY <2>7, <3>2 DEF NewRevision, ConfirmedBy, Nobody, None, DealType
      <4>2. \A p \in Parties : shown[p].revision \in Int /\ shown[p].revision < deal'.termsRevision
        <5>1. ASSUME NEW p \in Parties PROVE shown[p].revision \in Int
          BY DEF ClientInv, ScreensLag, View, MaybeNat, None
        <5>2. CASE deal.state = "Draft" /\ deal'.termsRevision = 0
          BY <5>2 DEF ClientInv, DraftIsNew, ScreensLag, NoView, None
        <5>3. CASE deal'.termsRevision = deal.termsRevision + 1
          BY <2>7, <5>1, <5>3 DEF ClientInv, ScreensLag
        <5> QED
          BY <3>2, <5>1, <5>2, <5>3 DEF NewRevision
      <4>3. deal'.version # 0
        BY <2>2, <2>7
      <4> QED
        BY <2>6, <2>7, <4>1, <4>2, <4>3 DEF ClientInv, ScreensLag, DealType
    <3> QED
      BY <2>5, <3>1, <3>2
  <2>9. PageHolds'
    BY <2>2, <2>6, <2>7, PageStands DEF ClientInv
  <2> QED
    BY <2>2, <2>8, <2>9 DEF ClientInv
<1> QED
  BY <1>0, <1>1, <1>2, NextAccepts DEF DealMoves

LEMMA ConfirmShownKeeps ==
    ASSUME ClientInv, NEW p \in Parties, ConfirmShown(p)
    PROVE  ClientInv'
<1>0. TypeOK /\ deal \in DealType /\ now \in Nat /\ p \in Actors
  BY DEF ClientInv, IInv, TypeOK, Actors
<1>1. PICK cmd : cmd = [name |-> "ConfirmTerms", revision |-> shown[p].revision]
  OBVIOUS
<1>2. /\ WellFormed(cmd) /\ cmd.name = "ConfirmTerms"
      /\ cmd.revision = shown[p].revision /\ Accept(cmd, p, now)
  BY <1>1 DEF WellFormed, ConfirmShown
<1>3. /\ IInv' /\ DraftIsNew' /\ RowsVerify' /\ FreezeOnRecord'
      /\ deal'.version \in Nat /\ deal'.version > deal.version
      /\ \A i \in DOMAIN sealed : i \in DOMAIN sealed' /\ sealed'[i] = sealed[i]
  BY <1>0, <1>2, AcceptSeals DEF ConfirmShown
<1>4. PICK t \in Transition(deal, cmd, p, now) : deal' = t.deal
  BY <1>2 DEF Accept
<1>5. /\ cmd.revision = deal.termsRevision /\ SameRevision(deal, deal')
      /\ \A q \in Parties : q # p => deal'.confirmed[q] = deal.confirmed[q]
  BY <1>0, <1>2, <1>4, RevisionEffect DEF Confirms
<1>6. shown[p].terms = deal.terms
  BY <1>2, <1>5 DEF ClientInv, ScreensLag
<1>7. UNCHANGED <<shown, page>> /\ agreedTo' = [agreedTo EXCEPT ![p] = deal.terms]
  BY <1>6 DEF ConfirmShown
<1>8. deal.version \in Nat /\ deal.terms \in Terms \cup {NoTerms}
  BY <1>0 DEF DealType
<1>9. ScreensLag'
  <2>1. agreedTo' \in [Parties -> Terms \cup {NoTerms}]
    BY <1>7, <1>8 DEF ClientInv, ScreensLag
  <2>2. \A q \in Parties : ConfirmedBy(deal', q) => agreedTo'[q] = deal'.terms
    BY <1>5, <1>7 DEF ClientInv, ScreensLag, ConfirmedBy, SameRevision
  <2>3. deal'.version # 0
    BY <1>3, <1>8
  <2> QED
    BY <1>5, <1>7, <2>1, <2>2, <2>3 DEF ClientInv, ScreensLag, SameRevision
<1>10. PageHolds'
  BY <1>3, <1>7, <1>8, PageStands DEF ClientInv
<1> QED
  BY <1>3, <1>9, <1>10 DEF ClientInv

LEMMA ShowKeeps ==
    ASSUME ClientInv, NEW p \in Parties, Show(p)
    PROVE  ClientInv'
<1>0. TypeOK /\ deal \in DealType
  BY DEF ClientInv, IInv, TypeOK
<1>1. UNCHANGED <<deal, chain, intents, now>> /\ UNCHANGED <<sealed, agreedTo, page>>
  BY DEF Show, vars
<1>2. IInv' /\ DraftIsNew' /\ RowsVerify' /\ FreezeOnRecord' /\ PageHolds'
  BY <1>1
     DEF ClientInv, IInv, TypeOK, ChainIsVersion, HeldThenSettledOnce, BoundTermsAreConfirmed,
         Unbound, DraftIsNew, RowsVerify, FreezeOnRecord, PageHolds, RecordHolds, Served
<1>3. PICK v : v = ViewOf(deal, p)
  OBVIOUS
<1>4. v \in View /\ v.revision = deal.termsRevision /\ v.terms = deal.terms
  BY <1>0, <1>3 DEF ViewOf, View, DealType, MaybeNat
<1>5. shown' = [shown EXCEPT ![p] = v] /\ deal.version # 0
  BY <1>0, <1>3 DEF Show, DealType
<1>6. ScreensLag'
  BY <1>0, <1>1, <1>4, <1>5 DEF ClientInv, ScreensLag, DealType
<1> QED
  BY <1>2, <1>6 DEF ClientInv

\* The queries of a receipt, and whatever else leaves deal and screens alone.
LEMMA PageStep ==
    ASSUME ClientInv, UNCHANGED <<vars, sealed, screens>>, PageHolds'
    PROVE  ClientInv'
<1>1. UNCHANGED <<deal, chain, intents, now>> /\ UNCHANGED <<sealed, shown, agreedTo>>
  BY DEF vars, screens
<1> QED
  BY <1>1
     DEF ClientInv, IInv, TypeOK, ChainIsVersion, HeldThenSettledOnce, BoundTermsAreConfirmed,
         Unbound, DraftIsNew, RowsVerify, FreezeOnRecord, ScreensLag

LEMMA LoadRecordKeeps ==
    ASSUME ClientInv, LoadRecord
    PROVE  ClientInv'
<1>1. page' = [stage |-> "loaded", record |-> RecordOf(deal)] /\ UNCHANGED deal
  BY DEF LoadRecord, vars
<1>2. page'.stage = "loaded" /\ page'.record = RecordOf(deal)
  BY <1>1
<1>3. /\ RecordOf(deal).version = deal.version
      /\ RecordOf(deal).terms \in {NoTerms, deal.terms}
      /\ RecordOf(deal).termsHash = deal.termsHash
  BY DEF RecordOf, PublishedTerms
<1>4. deal.version \in Nat
  BY DEF ClientInv, IInv, TypeOK, DealType
<1>5. VerifyTermsHash(RecordOf(deal).terms, RecordOf(deal).termsHash)
  BY <1>3 DEF ClientInv, IInv, BoundTermsAreConfirmed, VerifyTermsHash
<1>6. Attested(RecordOf(deal), sealed) /\ UNCHANGED sealed
  BY DEF ClientInv, FreezeOnRecord, Attested, IInv, Unbound, RecordOf, PublishedTerms, LoadRecord
<1>7. PageHolds'
  BY <1>1, <1>2, <1>3, <1>4, <1>5, <1>6 DEF PageHolds, RecordHolds, Served
<1> QED
  BY <1>7, PageStep DEF LoadRecord

LEMMA LoadAttestationsKeeps ==
    ASSUME ClientInv, LoadAttestations
    PROVE  ClientInv'
<1>1. /\ page' = [stage |-> "served", record |-> page.record, attestations |-> sealed]
      /\ UNCHANGED deal /\ page.stage = "loaded"
  BY DEF LoadAttestations, vars
<1>2. page'.stage = "served" /\ page'.record = page.record /\ page'.attestations = sealed
  BY <1>1
<1>3. RecordHolds(page.record) /\ deal.version \in Nat
  BY <1>1 DEF ClientInv, PageHolds, IInv, TypeOK, DealType
<1>4. /\ Len(sealed) >= page.record.version /\ Attested(page.record, sealed)
      /\ VerifyChain(ThisDeal, sealed) /\ AllSigned(sealed) /\ UNCHANGED sealed
  BY <1>3 DEF ClientInv, RowsVerify, RecordHolds, IInv, ChainIsVersion, LoadAttestations
<1>5. PageHolds'
  BY <1>1, <1>2, <1>3, <1>4 DEF PageHolds, RecordHolds, Served
<1> QED
  BY <1>5, PageStep DEF LoadAttestations

LEMMA ClientNextInv ==
    ASSUME ClientInv, [ClientNext]_clientVars
    PROVE  ClientInv'
<1>1. CASE DealMoves
  BY <1>1, DealMovesKeeps
<1>2. ASSUME NEW p \in Parties, Show(p) PROVE ClientInv'
  BY <1>2, ShowKeeps
<1>3. ASSUME NEW p \in Parties, ConfirmShown(p) PROVE ClientInv'
  BY <1>3, ConfirmShownKeeps
<1>4. CASE LoadRecord
  BY <1>4, LoadRecordKeeps
<1>5. CASE LoadAttestations
  BY <1>5, LoadAttestationsKeeps
<1>6. CASE ClosePage
  <2>1. PageHolds'
    BY <1>6 DEF ClosePage, PageHolds, Served, NoPage
  <2> QED
    BY <1>6, <2>1, PageStep DEF ClosePage
<1>7. CASE UNCHANGED clientVars
  <2>1. UNCHANGED <<vars, sealed, screens>> /\ UNCHANGED page /\ UNCHANGED deal
    BY <1>7 DEF clientVars, vars
  <2>2. PageHolds'
    BY <2>1 DEF ClientInv, PageHolds, RecordHolds, Served
  <2> QED
    BY <2>1, <2>2, PageStep
<1> QED
  BY <1>1, <1>2, <1>3, <1>4, <1>5, <1>6, <1>7 DEF ClientNext

LEMMA ClientInductive == ClientSpec => []ClientInv
<1>1. ClientInit => ClientInv
  BY ClientInitInv
<1>2. ClientInv /\ [ClientNext]_clientVars => ClientInv'
  BY ClientNextInv
<1> QED
  BY <1>1, <1>2, PTL DEF ClientSpec

-----------------------------------------------------------------------------
\* BoundTermsWereShown: however old the screens and whatever corrections cross a
\* confirmation, terms bind only two parties who had exactly them on the screen.
THEOREM BothSawWhatBinds == ClientSpec => []BoundTermsWereShown
<1>1. ClientInv => BoundTermsWereShown
  BY DEF ClientInv, IInv, BoundTermsAreConfirmed, ScreensLag, BoundTermsWereShown, ConfirmedBy
<1> QED
  BY <1>1, ClientInductive, PTL

\* ReceiptIsAccountedFor: with anything between the two queries, the receipt's
\* attestations account for the state it shows.
THEOREM ReceiptsAccountFor == ClientSpec => []ReceiptIsAccountedFor
<1>1. ClientInv => ReceiptIsAccountedFor
  BY DEF ClientInv, PageHolds, ReceiptIsAccountedFor
<1> QED
  BY <1>1, ClientInductive, PTL

\* ServedReceiptVerifies: what the service serves passes the browser's checks, at
\* every length of the chain, with every signature good where they are checked.
THEOREM ReceiptsVerify == ClientSpec => []ServedReceiptVerifies
<1>1. ClientInv => ServedReceiptVerifies
  <2> SUFFICES ASSUME ClientInv, Served PROVE ServedReceiptVerifies
    BY DEF ServedReceiptVerifies
  <2>1. VerifyChain(ThisDeal, page.attestations) /\ AllSigned(page.attestations)
    BY DEF ClientInv, PageHolds
  <2>2. VerifyTermsHash(page.record.terms, page.record.termsHash)
    BY DEF ClientInv, PageHolds, RecordHolds, Served
  <2> QED
    BY <2>1, <2>2, BrowserAgrees DEF ServedReceiptVerifies
<1> QED
  BY <1>1, ClientInductive, PTL

\* BoundTermsAreAttested: the bound terms a receipt shows are those of the freeze on
\* it, although the deal was read before the attestations and moved in between.
THEOREM TermsShownAreAttested == ClientSpec => []BoundTermsAreAttested
<1>1. ClientInv => BoundTermsAreAttested
  BY DEF ClientInv, PageHolds, Attested, BoundTermsAreAttested
<1> QED
  BY <1>1, ClientInductive, PTL

-----------------------------------------------------------------------------
(***************************************************************************)
(* Folds.  tlapm takes no induction principle that has an operator for a   *)
(* parameter; this one speaks of a set of numbers, and comes from strict   *)
(* inclusion being well founded on finite sets.                            *)
(***************************************************************************)

LEMMA InductionOnSet ==
    ASSUME NEW S, 0 \in S, \A n \in Nat : n \in S => n + 1 \in S
    PROVE  \A n \in Nat : n \in S
<1> SUFFICES ASSUME NEW k \in Nat, k \notin S PROVE FALSE
  OBVIOUS
<1> DEFINE T == {1 .. n : n \in Nat \ S}
<1>1. T \subseteq FiniteSubsetsOf(Nat) /\ T # {}
  <2>1. ASSUME NEW n \in Nat PROVE 1 .. n \in SUBSET Nat /\ IsFiniteSet(1 .. n)
    BY FS_Interval
  <2> QED
    BY <2>1 DEF FiniteSubsetsOf
<1>2. PICK x \in T : \A y \in T : <<y, x>> \notin StrictSubsetOrdering(Nat)
  BY <1>1, FS_StrictSubsetOrderingWellFounded, WFMin, Zenon
<1>3. PICK n \in Nat \ S : x = 1 .. n
  OBVIOUS
<1>4. n # 0 /\ n - 1 \in Nat /\ (n - 1) + 1 = n
  OBVIOUS
<1>5. n - 1 \notin S
  BY <1>4
<1>6. 1 .. (n - 1) \in T
  BY <1>4, <1>5
<1>7. <<1 .. (n - 1), x>> \in StrictSubsetOrdering(Nat)
  <2>1. n \in 1 .. n /\ n \notin 1 .. (n - 1) /\ 1 .. (n - 1) \subseteq 1 .. n
    BY <1>4
  <2>2. 1 .. (n - 1) \in SUBSET Nat /\ 1 .. n \in SUBSET Nat
    BY <1>4
  <2> QED
    BY <1>3, <2>1, <2>2 DEF StrictSubsetOrdering
<1> QED
  BY <1>2, <1>6, <1>7

\* A set of positions has a greatest one.
LEMMA MaxOfPositions ==
    ASSUME NEW n \in Nat, NEW u \in SUBSET (1 .. n), u # {}
    PROVE  Max(u) \in u /\ \A y \in u : Max(u) >= y
<1> DEFINE HasMax(k) == \A w \in SUBSET (1 .. k) :
                           w # {} => \E m \in w : \A y \in w : m >= y
           S == {k \in Nat : HasMax(k)}
<1>1. HasMax(0)
  <2>1. 1 .. 0 = {}
    OBVIOUS
  <2> QED
    BY <2>1
<1>2. ASSUME NEW k \in Nat, HasMax(k) PROVE HasMax(k + 1)
  <2> SUFFICES ASSUME NEW w \in SUBSET (1 .. (k + 1)), w # {}
               PROVE  \E m \in w : \A y \in w : m >= y
    OBVIOUS
  <2>1. CASE k + 1 \in w
    <3>1. \A y \in w : k + 1 >= y
      OBVIOUS
    <3> QED
      BY <2>1, <3>1
  <2>2. CASE k + 1 \notin w
    <3>1. w \in SUBSET (1 .. k)
      BY <2>2
    <3> QED
      BY <1>2, <3>1
  <2> QED
    BY <2>1, <2>2
<1> HIDE DEF HasMax
<1>3. 0 \in S /\ \A k \in Nat : k \in S => k + 1 \in S
  BY <1>1, <1>2
<1>4. n \in S
  <2> HIDE DEF S
  <2> QED
    BY <1>3, InductionOnSet
<1>5. \E m \in u : \A y \in u : m >= y
  BY <1>4 DEF HasMax
<1> QED
  BY <1>5 DEF Max

LEMMA LastPosition ==
    ASSUME NEW k \in Nat
    PROVE  Max(1 .. (k + 1)) = k + 1 /\ (1 .. (k + 1)) \ {k + 1} = 1 .. k
<1>1. k + 1 \in Nat /\ 1 .. (k + 1) # {} /\ k + 1 \in 1 .. (k + 1)
  OBVIOUS
<1>2. Max(1 .. (k + 1)) \in 1 .. (k + 1) /\ Max(1 .. (k + 1)) >= k + 1
  BY <1>1, MaxOfPositions
<1>3. Max(1 .. (k + 1)) = k + 1
  BY <1>1, <1>2
<1> QED
  BY <1>3

\* What a fold over the positions 1 .. n is defined by, and that it has a solution.
FoldTable(f, n, base, op) ==
    \A u \in SUBSET (1 .. n) :
       f[u] = IF u = {} THEN base ELSE op[<<f[u \ {Max(u)}], Max(u)>>]

LEMMA FoldExists ==
    ASSUME NEW n \in Nat, NEW X, NEW base \in X, NEW op \in [X \X (1 .. n) -> X]
    PROVE  \E f \in [SUBSET (1 .. n) -> X] :
              FoldTable(f, n, base, op)
<1> DEFINE Upto(k) == \E f \in [SUBSET (1 .. k) -> X] : FoldTable(f, k, base, op)
           S == {k \in Nat : k <= n => Upto(k)}
<1>1. Upto(0)
  <2>1. PICK f : f = [u \in SUBSET (1 .. 0) |-> base]
    OBVIOUS
  <2>2. \A u \in SUBSET (1 .. 0) : u = {} /\ f[u] = base
    <3>1. 1 .. 0 = {}
      OBVIOUS
    <3> QED
      BY <2>1, <3>1
  <2>3. f \in [SUBSET (1 .. 0) -> X]
    BY <2>1
  <2> QED
    BY <2>2, <2>3 DEF FoldTable
<1>2. ASSUME NEW k \in Nat, k + 1 <= n, Upto(k) PROVE Upto(k + 1)
  <2>1. PICK f \in [SUBSET (1 .. k) -> X] :
           FoldTable(f, k, base, op)
    BY <1>2
  <2>2. PICK g : g = [u \in SUBSET (1 .. (k + 1)) |->
                        IF k + 1 \in u THEN op[<<f[u \ {k + 1}], k + 1>>] ELSE f[u]]
    OBVIOUS
  <2>3. ASSUME NEW u \in SUBSET (1 .. (k + 1))
        PROVE  /\ g[u] \in X
               /\ g[u] = IF u = {} THEN base ELSE op[<<g[u \ {Max(u)}], Max(u)>>]
    <3>1. CASE k + 1 \in u
      <4>1. Max(u) = k + 1
        <5>0. u # {} /\ k + 1 \in Nat /\ u \in SUBSET (1 .. (k + 1))
          BY <3>1
        <5>1. Max(u) \in u /\ \A y \in u : Max(u) >= y
          BY <5>0, MaxOfPositions
        <5>2. Max(u) \in 1 .. (k + 1)
          BY <5>1
        <5> QED
          BY <3>1, <5>1, <5>2
      <4>2. u \ {k + 1} \in SUBSET (1 .. k) /\ u \ {k + 1} \in SUBSET (1 .. (k + 1))
        OBVIOUS
      <4>3. g[u \ {k + 1}] = f[u \ {k + 1}] /\ f[u \ {k + 1}] \in X
        BY <2>2, <4>2
      <4>4. g[u] = op[<<f[u \ {k + 1}], k + 1>>] /\ u # {}
        BY <2>2, <3>1
      <4>5. <<f[u \ {k + 1}], k + 1>> \in X \X (1 .. n)
        <5>1. k + 1 \in 1 .. n
          BY <1>2
        <5> QED
          BY <4>3, <5>1
      <4>6. g[u] \in X
        BY <4>4, <4>5
      <4> QED
        BY <4>1, <4>3, <4>4, <4>6
    <3>2. CASE k + 1 \notin u
      <4>1. u \in SUBSET (1 .. k) /\ g[u] = f[u]
        BY <2>2, <3>2
      <4>2. CASE u = {}
        BY <2>1, <4>1, <4>2 DEF FoldTable
      <4>3. CASE u # {}
        <5>1. u \ {Max(u)} \in SUBSET (1 .. k) /\ k + 1 \notin u \ {Max(u)}
          BY <4>1, <3>2
        <5>2. g[u \ {Max(u)}] = f[u \ {Max(u)}]
          BY <2>2, <5>1
        <5> QED
          BY <2>1, <4>1, <4>3, <5>2 DEF FoldTable
      <4> QED
        BY <4>2, <4>3
    <3> QED
      BY <3>1, <3>2
  <2>4. g \in [SUBSET (1 .. (k + 1)) -> X]
    BY <2>2, <2>3
  <2> QED
    BY <2>3, <2>4 DEF FoldTable
<1> HIDE DEF Upto
<1>3. 0 \in S /\ \A k \in Nat : k \in S => k + 1 \in S
  BY <1>1, <1>2
<1>4. n \in S
  <2> HIDE DEF S
  <2> QED
    BY <1>3, InductionOnSet
<1>5. Upto(n)
  BY <1>4
<1> QED
  BY <1>5 DEF Upto

-----------------------------------------------------------------------------
(* Links.                                                                  *)

Hashed(P) == {CanonicalHash(p) : p \in P} \cup {ThisDeal, OtherDeal}

\* Links with payloads in P, signatures in G and hashes in H.
Links(P, G, H) ==
    [seq : Nat, action : AttestationActions, actor : Actors, at : Nat, payload : P,
     payloadHash : Hashed(P), prev : Seq(Hashed(P)), hash : H, keyId : {PlatformKey},
     signature : G]

LEMMA MoreLinks ==
    ASSUME NEW P, NEW Q, P \subseteq Q, NEW G, NEW F, G \subseteq F,
           NEW H, NEW I, H \subseteq I
    PROVE  Links(P, G, H) \subseteq Links(Q, F, I)
<1>1. Hashed(P) \subseteq Hashed(Q)
  BY DEF Hashed
<1>2. \A q \in Seq(Hashed(P)) : q \in Seq(Hashed(Q))
  BY <1>1, SeqMonotonic
<1> QED
  BY <1>1, <1>2 DEF Links

LEMMA LinkTyped ==
    ASSUME NEW P, NEW G, NEW seq \in Nat, NEW prev \in Seq(Hashed(P)), NEW draft,
           draft.action \in AttestationActions, draft.actor \in Actors, draft.at \in Nat,
           draft.payload \in P,
           NEW signature \in G
    PROVE  [Link(seq, prev, draft) EXCEPT !.signature = signature]
              \in Links(P, G, Seq(Hashed(P)))
<1>1. PICK h : h = CanonicalHash(draft.payload)
  OBVIOUS
<1>2. h \in Hashed(P)
  BY <1>1 DEF Hashed
<1>3. LinkHash(prev, h) \in Seq(Hashed(P))
  BY <1>2 DEF LinkHash
<1>4. [Link(seq, prev, draft) EXCEPT !.signature = signature]
         = [seq |-> seq, action |-> draft.action, actor |-> draft.actor, at |-> draft.at,
            payload |-> draft.payload, payloadHash |-> h, prev |-> prev,
            hash |-> LinkHash(prev, h), keyId |-> PlatformKey, signature |-> signature]
  BY <1>1 DEF Link
<1> QED
  BY <1>2, <1>3, <1>4 DEF Links

LEMMA HeadTyped ==
    ASSUME NEW P, NEW G, NEW s \in Seq(Links(P, G, Seq(Hashed(P)))),
           NEW id \in {ThisDeal, OtherDeal}
    PROVE  ChainHead(id, s) \in Seq(Hashed(P))
<1>1. CASE s = << >>
  <2>1. <<id>> \in Seq(Hashed(P))
    BY DEF Hashed
  <2> QED
    BY <1>1, <2>1 DEF ChainHead, GenesisHash
<1>2. CASE s # << >>
  <2>1. s[Len(s)] \in Links(P, G, Seq(Hashed(P)))
    BY <1>2, EmptySeq, ElementOfSeq
  <2> QED
    BY <1>2, <2>1 DEF ChainHead, Last, Links
<1> QED
  BY <1>1, <1>2

\* What is hashed of a link.
Anchors(P, H) == [seq : Nat, payload : P, hash : H]

SameAnchor(x, y) == x.seq = y.seq /\ x.payload = y.payload /\ x.hash = y.hash

\* The first links of t are those of s.
Leads(s, t) == Len(s) <= Len(t) /\ \A i \in 1 .. Len(s) : s[i] = t[i]

LEMMA LeadsIsPrefix ==
    ASSUME NEW S, NEW s \in Seq(S), NEW t \in Seq(S), Leads(s, t)
    PROVE  IsPrefix(s, t)
<1>1. Len(s) \in Nat /\ Len(t) \in Nat
  BY LenProperties
<1>2. SubSeq(s, 1, Len(s)) = s
  BY SubSeqFull
<1>3. \A i \in 1 .. Len(s) : t[i] \in S
  BY <1>1, ElementOfSeq DEF Leads
<1>4. PICK r : r = SubSeq(t, 1, Len(s))
  OBVIOUS
<1>5. r \in Seq(S) /\ Len(r) = Len(s) /\ \A i \in 1 .. Len(s) : r[i] = t[i]
  BY <1>1, <1>3, <1>4, SubSeqProperties
<1>6. \A i \in 1 .. Len(r) : r[i] = s[i]
  BY <1>5 DEF Leads
<1>7. r = s
  BY <1>5, <1>6, SeqEqual
<1> QED
  BY <1>2, <1>4, <1>7 DEF IsPrefix, Leads

LEMMA AnchoredTyped ==
    ASSUME NEW P, NEW G, NEW H, NEW s \in Seq(Links(P, G, H))
    PROVE  /\ Anchored(s) \in Seq(Anchors(P, H)) /\ Len(Anchored(s)) = Len(s)
           /\ \A i \in 1 .. Len(s) :
                 Anchored(s)[i] = [seq |-> s[i].seq, payload |-> s[i].payload,
                                   hash |-> s[i].hash]
<1>1. /\ Len(s) \in Nat /\ DOMAIN s = 1 .. Len(s)
      /\ \A i \in 1 .. Len(s) : s[i] \in Links(P, G, H)
  BY LenProperties, ElementOfSeq
<1>2. PICK n : n = Len(s)
  OBVIOUS
<1>3. PICK r : r = [i \in 1 .. n |-> [seq |-> s[i].seq, payload |-> s[i].payload,
                                      hash |-> s[i].hash]]
  OBVIOUS
<1>4. r = Anchored(s)
  BY <1>1, <1>2, <1>3 DEF Anchored
<1>5. r \in [1 .. n -> Anchors(P, H)]
  BY <1>1, <1>2, <1>3 DEF Anchors, Links
<1>6. n \in Nat /\ r \in Seq(Anchors(P, H)) /\ Len(r) = n
  BY <1>1, <1>2, <1>5, SeqDef, LenProperties
<1> QED
  BY <1>2, <1>3, <1>4, <1>6

\* The first links of t say, in what is hashed, what those of s do.
AnchorsLead(s, t) == Len(s) <= Len(t) /\ \A i \in 1 .. Len(s) : SameAnchor(s[i], t[i])

LEMMA AnchorsLeadIsPrefix ==
    ASSUME NEW P, NEW G, NEW H, NEW s \in Seq(Links(P, G, H)), NEW t \in Seq(Links(P, G, H)),
           AnchorsLead(s, t)
    PROVE  IsPrefix(Anchored(s), Anchored(t))
<1>1. Len(s) \in Nat /\ Len(t) \in Nat /\ Len(s) <= Len(t)
  BY LenProperties DEF AnchorsLead
<1>2. /\ Anchored(s) \in Seq(Anchors(P, H)) /\ Len(Anchored(s)) = Len(s)
      /\ Anchored(t) \in Seq(Anchors(P, H)) /\ Len(Anchored(t)) = Len(t)
  BY AnchoredTyped
<1>3. ASSUME NEW i \in 1 .. Len(s) PROVE Anchored(s)[i] = Anchored(t)[i]
  <2>1. i \in 1 .. Len(t)
    BY <1>1
  <2>2. Anchored(s)[i] = [seq |-> s[i].seq, payload |-> s[i].payload, hash |-> s[i].hash]
    BY AnchoredTyped
  <2>3. Anchored(t)[i] = [seq |-> t[i].seq, payload |-> t[i].payload, hash |-> t[i].hash]
    BY <2>1, AnchoredTyped
  <2>4. SameAnchor(s[i], t[i])
    BY DEF AnchorsLead
  <2> QED
    BY <2>2, <2>3, <2>4 DEF SameAnchor
<1>4. Leads(Anchored(s), Anchored(t))
  BY <1>1, <1>2, <1>3 DEF Leads
<1> QED
  BY <1>2, <1>4, LeadsIsPrefix

-----------------------------------------------------------------------------
(* The last hash stands for the whole history.                             *)

LEMMA GoodLink ==
    ASSUME NEW id, NEW s, VerifyChain(id, s), NEW i \in DOMAIN s
    PROVE  /\ s[i].seq = i - 1
           /\ s[i].payloadHash = [sha256 |-> s[i].payload]
           /\ s[i].hash = Append(s[i].prev, s[i].payloadHash)
BY DEF VerifyChain, LinkHash, CanonicalHash

LEMMA LinkFollows ==
    ASSUME NEW id, NEW s, VerifyChain(id, s), NEW i \in DOMAIN s
    PROVE  /\ i = 1 => s[i].prev = <<id>>
           /\ i # 1 => s[i].prev = s[i - 1].hash
BY DEF VerifyChain, ExpectedPrev, GenesisHash

\* The head of a chain tells how many links there are, and every payload hash.
LEMMA HashLength ==
    ASSUME NEW id, NEW P, NEW G, NEW H, NEW s \in Seq(Links(P, G, H)), VerifyChain(id, s)
    PROVE  \A i \in 1 .. Len(s) : Len(s[i].hash) = i + 1
<1>0. /\ Len(s) \in Nat /\ DOMAIN s = 1 .. Len(s)
      /\ \A i \in 1 .. Len(s) : s[i] \in Links(P, G, H)
  BY LenProperties, ElementOfSeq
<1> DEFINE S == {k \in Nat : k + 1 <= Len(s) => Len(s[k + 1].hash) = k + 2}
<1>1. ASSUME NEW i \in 1 .. Len(s)
      PROVE  /\ s[i].hash = Append(s[i].prev, s[i].payloadHash)
             /\ s[i].prev \in Seq(Hashed(P)) /\ s[i].payloadHash \in Hashed(P)
             /\ Len(s[i].hash) = Len(s[i].prev) + 1
  <2>1. /\ s[i].hash = Append(s[i].prev, s[i].payloadHash)
        /\ s[i].prev \in Seq(Hashed(P)) /\ s[i].payloadHash \in Hashed(P)
    BY <1>0 DEF VerifyChain, LinkHash, Links
  <2> QED
    BY <2>1, AppendProperties
<1>2. 0 \in S
  <2>1. ASSUME 1 <= Len(s) PROVE Len(s[1].hash) = 2
    <3>1. 1 \in 1 .. Len(s) /\ s[1].prev = <<id>>
      BY <1>0, <2>1 DEF VerifyChain, ExpectedPrev, GenesisHash
    <3>2. Len(s[1].prev) = 1
      BY <3>1
    <3>3. Len(s[1].hash) = Len(s[1].prev) + 1
      BY <1>1, <3>1
    <3> QED
      BY <3>2, <3>3
  <2>2. 0 \in Nat /\ 0 + 1 = 1 /\ 0 + 2 = 2
    OBVIOUS
  <2> QED
    BY <2>1, <2>2
<1>3. ASSUME NEW k \in Nat, k \in S, k + 1 + 1 <= Len(s)
      PROVE  Len(s[k + 1 + 1].hash) = k + 1 + 2
  <2>1. k + 2 \in 1 .. Len(s) /\ k + 1 + 1 = k + 2 /\ k + 2 - 1 = k + 1 /\ k + 2 # 1
    BY <1>0, <1>3
  <2>2. s[k + 2].prev = s[k + 1].hash
    <3>1. PICK i : i = k + 2
      OBVIOUS
    <3>2. i \in DOMAIN s /\ i # 1 /\ i - 1 = k + 1
      BY <1>0, <2>1, <3>1
    <3>3. s[i].prev = s[i - 1].hash
      BY <3>2, LinkFollows
    <3> QED
      BY <3>1, <3>2, <3>3
  <2>3. Len(s[k + 2].hash) = Len(s[k + 1].hash) + 1
    BY <1>1, <2>1, <2>2
  <2>4. Len(s[k + 1].hash) = k + 2
    BY <1>0, <1>3
  <2> QED
    BY <2>1, <2>3, <2>4
<1>4. \A k \in Nat : k \in S
  <2>1. \A k \in Nat : k \in S => k + 1 \in S
    BY <1>3
  <2> HIDE DEF S
  <2> QED
    BY <1>2, <2>1, InductionOnSet
<1>5. ASSUME NEW i \in 1 .. Len(s) PROVE Len(s[i].hash) = i + 1
  <2>1. i - 1 \in Nat /\ (i - 1) + 1 = i /\ (i - 1) + 2 = i + 1 /\ i <= Len(s)
    BY <1>0
  <2>2. i - 1 \in S
    BY <1>4, <2>1
  <2> QED
    BY <2>1, <2>2
<1> QED
  BY <1>5

LEMMA SameAppend ==
    ASSUME NEW S, NEW a \in Seq(S), NEW b \in Seq(S), NEW e \in S, NEW f \in S,
           Append(a, e) = Append(b, f)
    PROVE  a = b /\ e = f
BY AppendInjective

\* Two chains that verify and end in the same hash say the same, link for link.
LEMMA HeadBindsHistory ==
    ASSUME NEW id, NEW P, NEW G, NEW H, NEW F, NEW I,
           NEW s \in Seq(Links(P, G, H)), VerifyChain(id, s), s # << >>,
           NEW t \in Seq(Links(P, F, I)), VerifyChain(id, t),
           NEW j \in 1 .. Len(t), Last(s).hash = t[j].hash
    PROVE  Len(s) = j /\ AnchorsLead(s, t)
<1>0. /\ Len(s) \in Nat /\ DOMAIN s = 1 .. Len(s) /\ Len(s) > 0
      /\ Len(t) \in Nat /\ DOMAIN t = 1 .. Len(t)
      /\ \A i \in 1 .. Len(s) : s[i] \in Links(P, G, H)
      /\ \A i \in 1 .. Len(t) : t[i] \in Links(P, F, I)
  BY LenProperties, ElementOfSeq, EmptySeq
<1>1. Len(s) = j
  <2>1. Len(s) \in 1 .. Len(s) /\ s[Len(s)].hash = t[j].hash
    BY <1>0 DEF Last
  <2>2. Len(s[Len(s)].hash) = Len(s) + 1
    BY <2>1, HashLength
  <2>3. Len(t[j].hash) = j + 1
    BY HashLength
  <2>4. Len(s) + 1 = j + 1 /\ j \in Nat /\ Len(s) \in Nat
    BY <1>0, <2>1, <2>2, <2>3
  <2> QED
    BY <2>4
<1>2. ASSUME NEW i \in 1 .. j, s[i].hash = t[i].hash
      PROVE  SameAnchor(s[i], t[i]) /\ (i > 1 => s[i - 1].hash = t[i - 1].hash)
  <2>1. PICK x, y : x = s[i] /\ y = t[i]
    OBVIOUS
  <2>2. i \in DOMAIN s /\ i \in DOMAIN t /\ x \in Links(P, G, H) /\ y \in Links(P, F, I)
    BY <1>0, <1>1, <2>1
  <2>3. /\ x.seq = i - 1 /\ x.payloadHash = [sha256 |-> x.payload]
        /\ x.hash = Append(x.prev, x.payloadHash)
        /\ i # 1 => x.prev = s[i - 1].hash
    <3>1. /\ s[i].seq = i - 1 /\ s[i].payloadHash = [sha256 |-> s[i].payload]
          /\ s[i].hash = Append(s[i].prev, s[i].payloadHash)
      BY <2>2, GoodLink
    <3>2. i # 1 => s[i].prev = s[i - 1].hash
      BY <2>2, LinkFollows
    <3> QED
      BY <2>1, <3>1, <3>2
  <2>4. /\ y.seq = i - 1 /\ y.payloadHash = [sha256 |-> y.payload]
        /\ y.hash = Append(y.prev, y.payloadHash)
        /\ i # 1 => y.prev = t[i - 1].hash
    <3>1. /\ t[i].seq = i - 1 /\ t[i].payloadHash = [sha256 |-> t[i].payload]
          /\ t[i].hash = Append(t[i].prev, t[i].payloadHash)
      BY <2>2, GoodLink
    <3>2. i # 1 => t[i].prev = t[i - 1].hash
      BY <2>2, LinkFollows
    <3> QED
      BY <2>1, <3>1, <3>2
  <2>5. x.hash = y.hash
    BY <1>2, <2>1
  <2>6. x.prev = y.prev /\ x.payloadHash = y.payloadHash
    <3>1. PICK S, a, b, e, f : /\ S = Hashed(P) /\ a = x.prev /\ b = y.prev
                               /\ e = x.payloadHash /\ f = y.payloadHash
      OBVIOUS
    <3>2. /\ a \in Seq(S) /\ b \in Seq(S) /\ e \in S /\ f \in S
      BY <2>2, <3>1 DEF Links
    <3>3. Append(a, e) = Append(b, f)
      BY <2>3, <2>4, <2>5, <3>1
    <3>4. a = b /\ e = f
      BY <3>2, <3>3, SameAppend
    <3> QED
      BY <3>1, <3>4
  <2>7. x.payload = y.payload
    BY <2>3, <2>4, <2>6
  <2> QED
    BY <2>1, <2>3, <2>4, <2>5, <2>6, <2>7 DEF SameAnchor
<1> DEFINE S == {k \in Nat : k < j => s[j - k].hash = t[j - k].hash}
<1>3. 0 \in S
  BY <1>0, <1>1 DEF Last
<1>4. ASSUME NEW k \in Nat, k \in S, k + 1 < j
      PROVE  s[j - (k + 1)].hash = t[j - (k + 1)].hash
  <2>1. j - k \in 1 .. j /\ j - k > 1 /\ j - (k + 1) = j - k - 1 /\ k < j
    BY <1>4
  <2>2. s[j - k].hash = t[j - k].hash
    BY <1>4, <2>1
  <2> QED
    BY <1>2, <2>1, <2>2
<1>5. \A k \in Nat : k \in S
  <2>1. \A k \in Nat : k \in S => k + 1 \in S
    BY <1>4
  <2> HIDE DEF S
  <2> QED
    BY <1>3, <2>1, InductionOnSet
<1>6. ASSUME NEW i \in 1 .. j PROVE SameAnchor(s[i], t[i])
  <2>1. j - i \in Nat /\ j - i < j /\ j - (j - i) = i
    OBVIOUS
  <2>2. s[i].hash = t[i].hash
    BY <1>5, <2>1
  <2> QED
    BY <1>2, <2>2
<1> QED
  BY <1>0, <1>1, <1>6 DEF AnchorsLead

-----------------------------------------------------------------------------
(* What has been issued.                                                   *)

Rows     == [action : AttestationActions, actor : Actors, at : Nat]
Payloads == {Draft(row, d).payload : row \in Rows, d \in DealType}

AnyHash(P)       == Seq(Hashed(P))
OurSignatures(P) == {Signature(PlatformKey, h) : h \in AnyHash(P)}

Issued == Links(Payloads, OurSignatures(Payloads), AnyHash(Payloads))

\* What is served is a beginning of what has been sealed since.
IssuedHolds ==
    /\ sealed \in Seq(Issued)
    /\ Served => page.attestations \in Seq(Issued) /\ Leads(page.attestations, sealed)

LEMMA NewLinkIssued ==
    ASSUME NEW s \in Seq(Issued), NEW row \in Rows, NEW d \in DealType
    PROVE  NewLink(ThisDeal, s, Draft(row, d)) \in Issued
<1>1. PICK draft : draft = Draft(row, d)
  OBVIOUS
<1>2. /\ draft.action \in AttestationActions /\ draft.actor \in Actors /\ draft.at \in Nat
      /\ draft.payload \in Payloads
  BY <1>1 DEF Draft, Rows, Payloads
<1>3. PICK prev, seq : prev = ChainHead(ThisDeal, s) /\ seq = Len(s)
  OBVIOUS
<1>4. prev \in Seq(Hashed(Payloads)) /\ seq \in Nat
  BY <1>3, HeadTyped, LenProperties DEF Issued, AnyHash
<1>5. PICK h : h = LinkHash(prev, CanonicalHash(draft.payload))
  OBVIOUS
<1>6. h \in AnyHash(Payloads)
  <2>1. CanonicalHash(draft.payload) \in Hashed(Payloads)
    BY <1>2 DEF Hashed
  <2> QED
    BY <1>4, <1>5, <2>1 DEF LinkHash, AnyHash
<1>7. Signature(PlatformKey, h) \in OurSignatures(Payloads)
  BY <1>6 DEF OurSignatures
<1>8. [Link(seq, prev, draft) EXCEPT !.signature = Signature(PlatformKey, h)] \in Issued
  BY <1>2, <1>4, <1>7, LinkTyped DEF Issued, AnyHash
<1>9. Link(seq, prev, draft).hash = h
  BY <1>5 DEF Link
<1> QED
  BY <1>1, <1>3, <1>8, <1>9 DEF NewLink, SignedBy

LEMMA SealNewIssues ==
    ASSUME ClientInv, TypeOK', RowsVerify', sealed \in Seq(Issued), SealNew
    PROVE  sealed' \in Seq(Issued) /\ Leads(sealed, sealed')
<1>1. Len(sealed) \in Nat
  BY LenProperties
<1>2. CASE chain' = chain
  BY <1>1, <1>2 DEF SealNew, Leads
<1>3. CASE chain' # chain
  <2>1. PICK row, d : row = Last(chain') /\ d = deal'
    OBVIOUS
  <2>2. PICK draft : draft = Draft(row, d)
    OBVIOUS
  <2>3. sealed' = Sealed(ThisDeal, sealed, draft)
    BY <1>3, <2>1, <2>2 DEF SealNew
  <2>4. /\ Len(sealed') = Len(sealed) + 1
        /\ \A i \in 1 .. Len(sealed) : sealed'[i] = sealed[i]
    BY <2>3, SealingVerifies DEF ClientInv, RowsVerify
  <2>5. row \in Rows /\ d \in DealType
    <3>1. chain' \in Seq(Rows) /\ deal' \in DealType
      BY DEF TypeOK, Rows
    <3>2. Len(chain') # 0
      BY <1>1, <2>4 DEF RowsVerify
    <3>3. Len(chain') \in 1 .. Len(chain')
      BY <3>1, <3>2, LenProperties
    <3> QED
      BY <2>1, <3>1, <3>3, ElementOfSeq DEF Last
  <2>6. PICK x : x = NewLink(ThisDeal, sealed, draft)
    OBVIOUS
  <2>7. x \in Issued
    BY <2>2, <2>5, <2>6, NewLinkIssued
  <2>8. sealed' = Append(sealed, x)
    BY <2>3, <2>6 DEF Sealed, NewLink
  <2>9. sealed' \in Seq(Issued)
    BY <2>7, <2>8, AppendProperties
  <2> QED
    BY <1>1, <2>4, <2>9 DEF Leads
<1> QED
  BY <1>2, <1>3

LEMMA IssuedNext ==
    ASSUME ClientInv, ClientInv', IssuedHolds, [ClientNext]_clientVars
    PROVE  IssuedHolds'
<1>0. TypeOK' /\ RowsVerify' /\ sealed \in Seq(Issued) /\ Len(sealed) \in Nat
  BY LenProperties DEF ClientInv, IInv, IssuedHolds
<1>1. CASE SealNew /\ UNCHANGED page
  <2>1. sealed' \in Seq(Issued) /\ Leads(sealed, sealed')
    BY <1>0, <1>1, SealNewIssues
  <2>2. ASSUME Served
        PROVE  page.attestations \in Seq(Issued) /\ Leads(page.attestations, sealed')
    <3>1. /\ page.attestations \in Seq(Issued) /\ Leads(page.attestations, sealed)
          /\ Len(page.attestations) \in Nat /\ Len(sealed') \in Nat
      BY <2>1, <2>2, LenProperties DEF IssuedHolds
    <3> QED
      BY <1>0, <2>1, <3>1 DEF Leads
  <2> QED
    BY <1>1, <2>1, <2>2 DEF IssuedHolds, Served
<1>2. CASE UNCHANGED <<sealed, page>>
  BY <1>2 DEF IssuedHolds, Served
<1>3. CASE LoadRecord
  BY <1>3 DEF LoadRecord, IssuedHolds, Served
<1>4. CASE LoadAttestations
  <2>1. page'.attestations = sealed /\ UNCHANGED sealed
    BY <1>4 DEF LoadAttestations
  <2> QED
    BY <1>0, <2>1 DEF IssuedHolds, Leads
<1>5. CASE ClosePage
  BY <1>5 DEF ClosePage, IssuedHolds, Served, NoPage
<1> QED
  BY <1>1, <1>2, <1>3, <1>4, <1>5
     DEF ClientNext, clientVars, DealMoves, ConfirmShown, Show, screens

LEMMA IssuedInductive == ClientSpec => []IssuedHolds
<1>1. ClientInit => IssuedHolds
  <2>1. << >> \in Seq(Issued)
    BY EmptySeq
  <2> QED
    BY <2>1 DEF ClientInit, IssuedHolds, Served, NoPage
<1>2. ClientInv /\ ClientInv' /\ IssuedHolds /\ [ClientNext]_clientVars => IssuedHolds'
  BY IssuedNext
<1> QED
  BY <1>1, <1>2, ClientInductive, PTL DEF ClientSpec

-----------------------------------------------------------------------------
(* Copies.                                                                 *)

\* Copies that are not put together again have their links, signatures and hashes
\* from the original.
LEMMA CopyTyped ==
    ASSUME NEW P, Forged \in P, NEW G, Unsigned \in G, NEW H,
           NEW s \in Seq(Links(P, G, H)), NEW c \in Copies(s)
    PROVE  c \in Seq(Links(P, G, H))
<1> DEFINE L == Links(P, G, H)
<1>0. /\ Len(s) \in Nat /\ DOMAIN s = 1 .. Len(s) /\ s \in [1 .. Len(s) -> L]
      /\ \A i \in 1 .. Len(s) : s[i] \in L
  BY LenProperties, ElementOfSeq
<1>1. \A x \in L : [x EXCEPT !.payload = Forged] \in L
  BY DEF Links
<1>2. \A x \in L : [x EXCEPT !.action = "Cancelled", !.actor = "system",
                            !.signature = Unsigned] \in L
  <2>1. "Cancelled" \in AttestationActions /\ "system" \in Actors
    BY DEF AttestationActions, Actors
  <2> QED
    BY <2>1 DEF Links
<1>3. \A x \in L, n \in Nat : [x EXCEPT !.seq = n] \in L
  BY DEF Links
<1> HIDE DEF L
<1>4. CASE c = s
  BY <1>4 DEF L
<1>5. ASSUME NEW x \in L, NEW i \in DOMAIN s, c = [s EXCEPT ![i] = x] PROVE c \in Seq(L)
  <2>1. c \in [1 .. Len(s) -> L]
    BY <1>0, <1>5
  <2> QED
    BY <1>0, <2>1, SeqDef
<1>6. ASSUME NEW i \in DOMAIN s, c = [s EXCEPT ![i].payload = Forged] PROVE c \in Seq(L)
  <2>1. c = [s EXCEPT ![i] = [s[i] EXCEPT !.payload = Forged]]
    BY <1>6
  <2>2. [s[i] EXCEPT !.payload = Forged] \in L
    BY <1>0, <1>1
  <2> QED
    BY <1>5, <2>1, <2>2
<1>7. ASSUME NEW i \in DOMAIN s,
             c = [s EXCEPT ![i].action = "Cancelled", ![i].actor = "system",
                           ![i].signature = Unsigned]
      PROVE  c \in Seq(L)
  <2>1. c = [s EXCEPT ![i] = [s[i] EXCEPT !.action = "Cancelled", !.actor = "system",
                                          !.signature = Unsigned]]
    BY <1>7
  <2>2. [s[i] EXCEPT !.action = "Cancelled", !.actor = "system", !.signature = Unsigned] \in L
    BY <1>0, <1>2
  <2> QED
    BY <1>5, <2>1, <2>2
<1>8. ASSUME NEW i \in DOMAIN s, c = RemoveAt(s, i) PROVE c \in Seq(L)
  <2>1. SubSeq(s, 1, i - 1) \in Seq(L)
    <3>1. 1 \in Int /\ i - 1 \in Int /\ \A j \in 1 .. (i - 1) : s[j] \in L
      BY <1>0
    <3> QED
      BY <3>1, SubSeqProperties
  <2>2. SubSeq(s, i + 1, Len(s)) \in Seq(L)
    <3>1. i + 1 \in Int /\ Len(s) \in Int /\ \A j \in (i + 1) .. Len(s) : s[j] \in L
      BY <1>0
    <3> QED
      BY <3>1, SubSeqProperties
  <2> QED
    BY <1>8, <2>1, <2>2, ConcatProperties DEF RemoveAt
<1>9. ASSUME NEW n \in 0 .. Len(s), c = SubSeq(s, 1, n) PROVE c \in Seq(L)
  <2>1. 1 \in Int /\ n \in Int /\ \A j \in 1 .. n : s[j] \in L
    BY <1>0
  <2> QED
    BY <1>9, <2>1, SubSeqProperties
<1>10. ASSUME NEW i \in 1 .. (Len(s) - 1), c = [s EXCEPT ![i] = s[i + 1], ![i + 1] = s[i]]
       PROVE  c \in Seq(L)
  <2>1. i + 1 \in 1 .. Len(s) /\ i \in 1 .. Len(s)
    BY <1>0
  <2>2. c \in [1 .. Len(s) -> L]
    BY <1>0, <1>10, <2>1
  <2> QED
    BY <1>0, <2>2, SeqDef
<1>11. ASSUME c = [i \in 1 .. (Len(s) - 1) |-> [s[i + 1] EXCEPT !.seq = i - 1]]
       PROVE  c \in Seq(L)
  <2>1. \A i \in 1 .. (Len(s) - 1) : [s[i + 1] EXCEPT !.seq = i - 1] \in L
    <3> SUFFICES ASSUME NEW i \in 1 .. (Len(s) - 1)
                 PROVE  [s[i + 1] EXCEPT !.seq = i - 1] \in L
      OBVIOUS
    <3>1. i - 1 \in Nat /\ s[i + 1] \in L
      BY <1>0
    <3> QED
      BY <1>3, <3>1
  <2>2. PICK n \in Nat : 1 .. n = 1 .. (Len(s) - 1)
    <3>1. CASE Len(s) = 0
      <4>1. 1 .. 0 = 1 .. (Len(s) - 1)
        BY <3>1
      <4> QED
        BY <4>1
    <3>2. CASE Len(s) # 0
      BY <1>0, <3>2
    <3> QED
      BY <3>1, <3>2
  <2>3. c \in [1 .. n -> L]
    BY <1>11, <2>1, <2>2
  <2> QED
    BY <2>3, SeqDef
<1>12. \/ c = s
       \/ c \in {[s EXCEPT ![i].payload = Forged] : i \in DOMAIN s}
       \/ c \in {[s EXCEPT ![i].action = "Cancelled", ![i].actor = "system",
                          ![i].signature = Unsigned] : i \in DOMAIN s}
       \/ c \in {RemoveAt(s, i) : i \in DOMAIN s}
       \/ c \in {SubSeq(s, 1, n) : n \in 0 .. Len(s)}
       \/ c \in {[s EXCEPT ![i] = s[i + 1], ![i + 1] = s[i]] : i \in 1 .. (Len(s) - 1)}
       \/ c = [i \in 1 .. (Len(s) - 1) |-> [s[i + 1] EXCEPT !.seq = i - 1]]
  BY Zenon DEF Copies
<1>13. ASSUME c \in {[s EXCEPT ![i].action = "Cancelled", ![i].actor = "system",
                              ![i].signature = Unsigned] : i \in DOMAIN s}
       PROVE  c \in Seq(L)
  BY <1>7, <1>13
<1>14. ASSUME c \in {[s EXCEPT ![i] = s[i + 1], ![i + 1] = s[i]] : i \in 1 .. (Len(s) - 1)}
       PROVE  c \in Seq(L)
  BY <1>10, <1>14
<1>15. ASSUME c \in {[s EXCEPT ![i].payload = Forged] : i \in DOMAIN s}
       PROVE  c \in Seq(L)
  BY <1>6, <1>15
<1>16. c \in {RemoveAt(s, i) : i \in DOMAIN s} => c \in Seq(L)
  BY <1>8
<1>17. c \in {SubSeq(s, 1, n) : n \in 0 .. Len(s)} => c \in Seq(L)
  BY <1>9
<1> QED
  BY <1>4, <1>11, <1>12, <1>13, <1>14, <1>15, <1>16, <1>17 DEF L

\* A chain put together again has the payloads and the signatures of the original.
LEMMA ResealedTyped ==
    ASSUME NEW P, NEW G, NEW H, NEW s \in Seq(Links(P, G, H)),
           NEW id \in {ThisDeal, OtherDeal}
    PROVE  Resealed(id, s) \in Seq(Links(P, G, AnyHash(P)))
<1>n. PICK n : n = Len(s)
  OBVIOUS
<1>0. n \in Nat /\ DOMAIN s = 1 .. n /\ \A i \in 1 .. n : s[i] \in Links(P, G, H)
  BY <1>n, LenProperties, ElementOfSeq
<1> DEFINE Put(acc, a) ==
              Append(acc, [Link(Len(acc), ChainHead(id, acc), a) EXCEPT !.signature = a.signature])
           D == CHOOSE f : f = [u \in SUBSET (1 .. n) |->
                                  IF u = {} THEN << >> ELSE Put(f[u \ {Max(u)}], s[Max(u)])]
<1>1. Resealed(id, s) = D[1 .. n]
  BY <1>0 DEF Resealed, FoldLeft, MapThenFoldSet
<1>x. PICK X : X = Seq(Links(P, G, AnyHash(P)))
  OBVIOUS
<1>p. ASSUME NEW acc \in X, NEW i \in 1 .. n PROVE Put(acc, s[i]) \in X
  <2>1. PICK a : a = s[i]
    OBVIOUS
  <2>2. /\ a.action \in AttestationActions /\ a.actor \in Actors /\ a.at \in Nat
        /\ a.payload \in P /\ a.signature \in G
    BY <1>0, <2>1 DEF Links
  <2>3. PICK prev, seq : prev = ChainHead(id, acc) /\ seq = Len(acc)
    OBVIOUS
  <2>4. prev \in Seq(Hashed(P)) /\ seq \in Nat
    BY <1>x, <2>3, HeadTyped, LenProperties DEF AnyHash
  <2>5. [Link(seq, prev, a) EXCEPT !.signature = a.signature] \in Links(P, G, AnyHash(P))
    BY <2>2, <2>4, LinkTyped DEF AnyHash
  <2>6. Append(acc, [Link(seq, prev, a) EXCEPT !.signature = a.signature]) \in X
    BY <1>x, <2>5, AppendProperties
  <2> QED
    BY <2>1, <2>3, <2>6
<1> HIDE DEF Put
<1>o. PICK op : op = [a \in X \X (1 .. n) |-> Put(a[1], s[a[2]])]
  OBVIOUS
<1>2. op \in [X \X (1 .. n) -> X] /\ << >> \in X
  <2>1. ASSUME NEW a \in X \X (1 .. n) PROVE Put(a[1], s[a[2]]) \in X
    <3>1. a[1] \in X /\ a[2] \in 1 .. n
      OBVIOUS
    <3> QED BY <1>p, <3>1
  <2>2. << >> \in X
    BY <1>x, EmptySeq
  <2> QED
    BY <1>o, <2>1, <2>2
<1>3. PICK f \in [SUBSET (1 .. n) -> X] : FoldTable(f, n, << >>, op)
  BY <1>0, <1>2, FoldExists, Zenon
<1>4. ASSUME NEW u \in SUBSET (1 .. n)
      PROVE  f[u] = IF u = {} THEN << >> ELSE Put(f[u \ {Max(u)}], s[Max(u)])
  <2>1. CASE u = {}
    BY <1>3, <2>1 DEF FoldTable
  <2>2. CASE u # {}
    <3>1. Max(u) \in 1 .. n /\ u \ {Max(u)} \in SUBSET (1 .. n)
      BY <1>0, <2>2, MaxOfPositions
    <3>2. <<f[u \ {Max(u)}], Max(u)>> \in X \X (1 .. n)
      BY <3>1
    <3> QED
      BY <1>3, <1>o, <2>2, <3>2 DEF FoldTable
  <2> QED
    BY <2>1, <2>2
<1>5. D = [u \in SUBSET (1 .. n) |->
             IF u = {} THEN << >> ELSE Put(D[u \ {Max(u)}], s[Max(u)])]
  <2>1. f = [u \in SUBSET (1 .. n) |->
               IF u = {} THEN << >> ELSE Put(f[u \ {Max(u)}], s[Max(u)])]
    BY <1>3, <1>4
  <2> QED
    BY <2>1
<1> HIDE DEF D
<1> DEFINE S == {k \in Nat : k <= n => D[1 .. k] \in X}
<1>6. D[1 .. 0] \in X
  <2>1. 1 .. 0 = {}
    OBVIOUS
  <2> QED
    BY <1>2, <1>5, <2>1
<1>7. ASSUME NEW k \in Nat, k + 1 <= n, D[1 .. k] \in X
      PROVE  D[1 .. (k + 1)] \in X
  <2>1. /\ 1 .. (k + 1) \in SUBSET (1 .. n) /\ 1 .. (k + 1) # {} /\ k + 1 \in 1 .. n
        /\ Max(1 .. (k + 1)) = k + 1 /\ (1 .. (k + 1)) \ {k + 1} = 1 .. k
    <3>1. 1 .. (k + 1) \in SUBSET (1 .. n) /\ k + 1 \in 1 .. n
      BY <1>0, <1>7
    <3>2. k + 1 \in 1 .. (k + 1)
      BY <1>7
    <3> QED
      BY <3>1, <3>2, LastPosition
  <2>2. D[1 .. (k + 1)] = Put(D[1 .. k], s[k + 1])
    BY <1>5, <2>1
  <2> QED
    BY <1>7, <1>p, <2>1, <2>2
<1>8. 0 \in S /\ \A k \in Nat : k \in S => k + 1 \in S
  BY <1>0, <1>6, <1>7
<1>9. n \in S
  <2> HIDE DEF S
  <2> QED
    BY <1>0, <1>8, InductionOnSet
<1> QED
  BY <1>0, <1>1, <1>x, <1>9

-----------------------------------------------------------------------------
(* Copies that verify.                                                     *)

\* The links of s, typed by the signatures and the hashes that s has.
SignaturesOf(s) == {s[j].signature : j \in DOMAIN s} \cup {Unsigned}
HashesOf(s)     == {s[j].hash : j \in DOMAIN s}
Edits           == Payloads \cup {Forged}

LEMMA IssuedIsTyped ==
    ASSUME NEW s \in Seq(Issued)
    PROVE  /\ s \in Seq(Links(Edits, SignaturesOf(s), HashesOf(s)))
           /\ HashesOf(s) \subseteq AnyHash(Edits)
<1>0. /\ DOMAIN s = 1 .. Len(s) /\ Len(s) \in Nat /\ s \in [1 .. Len(s) -> Issued]
      /\ \A i \in 1 .. Len(s) : s[i] \in Issued
  BY LenProperties, ElementOfSeq
<1>1. Payloads \subseteq Edits
  BY DEF Edits
<1>2. Issued \subseteq Links(Edits, OurSignatures(Payloads), AnyHash(Payloads))
  BY <1>1, MoreLinks DEF Issued
<1>3. ASSUME NEW i \in 1 .. Len(s) PROVE s[i] \in Links(Edits, SignaturesOf(s), HashesOf(s))
  <2>1. s[i] \in Links(Edits, OurSignatures(Payloads), AnyHash(Payloads))
    BY <1>0, <1>2
  <2>2. s[i].signature \in SignaturesOf(s) /\ s[i].hash \in HashesOf(s)
    BY <1>0 DEF SignaturesOf, HashesOf
  <2> QED
    BY <2>1, <2>2 DEF Links
<1>4. s \in [1 .. Len(s) -> Links(Edits, SignaturesOf(s), HashesOf(s))]
  BY <1>0, <1>3
<1>5. HashesOf(s) \subseteq AnyHash(Edits)
  <2>1. \A i \in 1 .. Len(s) : s[i].hash \in AnyHash(Payloads)
    BY <1>0 DEF Issued, Links
  <2>2. Hashed(Payloads) \subseteq Hashed(Edits)
    BY <1>1 DEF Hashed
  <2>3. AnyHash(Payloads) \subseteq AnyHash(Edits)
    BY <2>2, SeqMonotonic DEF AnyHash
  <2> QED
    BY <1>0, <2>1, <2>3 DEF HashesOf
<1> QED
  BY <1>0, <1>4, <1>5, SeqDef

LEMMA EndsInIssuedHash ==
    ASSUME NEW s \in Seq(Issued), VerifyChain(ThisDeal, s),
           NEW G, NEW H, NEW c \in Seq(Links(Edits, G, H)), c # << >>,
           VerifyChain(ThisDeal, c), Last(c).hash \in HashesOf(s)
    PROVE  AnchorsLead(c, s)
<1>1. PICK j \in DOMAIN s : Last(c).hash = s[j].hash
  BY DEF HashesOf
<1>2. j \in 1 .. Len(s)
  BY LenProperties
<1>3. PICK F, I : F = SignaturesOf(s) /\ I = HashesOf(s)
  OBVIOUS
<1>4. s \in Seq(Links(Edits, F, I))
  BY <1>3, IssuedIsTyped
<1> QED
  BY <1>1, <1>2, <1>4, HeadBindsHistory

LEMMA CopyLeads ==
    ASSUME NEW s \in Seq(Issued), VerifyChain(ThisDeal, s),
           NEW c \in Copies(s), VerifyChain(ThisDeal, c)
    PROVE  AnchorsLead(c, s)
<1> DEFINE L == Links(Edits, SignaturesOf(s), HashesOf(s))
<1>1. c \in Seq(L)
  <2>1. Forged \in Edits /\ Unsigned \in SignaturesOf(s) /\ s \in Seq(L)
    BY IssuedIsTyped DEF Edits, SignaturesOf
  <2> QED
    BY <2>1, CopyTyped
<1>2. CASE c = << >>
  <2>1. Len(c) = 0 /\ Len(s) \in Nat
    BY <1>2, LenProperties
  <2> QED
    BY <2>1 DEF AnchorsLead
<1>3. CASE c # << >>
  <2>1. Last(c) \in L
    <3> HIDE DEF L
    <3>1. Len(c) \in 1 .. Len(c)
      BY <1>1, <1>3, EmptySeq, LenProperties
    <3> QED
      BY <1>1, <3>1, ElementOfSeq DEF Last
  <2>2. Last(c).hash \in HashesOf(s)
    BY <2>1 DEF Links
  <2> QED
    BY <1>1, <1>3, <2>2, EndsInIssuedHash
<1> QED
  BY <1>2, <1>3

\* What the browser finds in order has hashes that follow.
LEMMA OrderFollows ==
    ASSUME NEW id, NEW s, VerifyReceipt(id, s, PlatformKey, TRUE).ok
    PROVE  /\ VerifyChain(id, s)
           /\ \A i \in DOMAIN s :
                 VerifyReceipt(id, s, PlatformKey, TRUE).signatures[i] = "good" =>
                    s[i].signature = Signature(PlatformKey, s[i].hash) /\ s[i].signature # Unsigned
<1>1. ASSUME NEW i \in DOMAIN s
      PROVE  /\ CanonicalHash(s[i].payload) = s[i].payloadHash
             /\ s[i].prev = ExpectedPrev(id, s, i)
             /\ LinkHash(ExpectedPrev(id, s, i), s[i].payloadHash) = s[i].hash
             /\ s[i].seq = i - 1
  BY DEF VerifyReceipt
<1>2. VerifyChain(id, s)
  BY <1>1 DEF VerifyChain
<1>3. ASSUME NEW i \in DOMAIN s,
             VerifyReceipt(id, s, PlatformKey, TRUE).signatures[i] = "good"
      PROVE  s[i].signature = Signature(PlatformKey, s[i].hash) /\ s[i].signature # Unsigned
  <2>1. SignatureOk(s[i], PlatformKey) = "good"
    BY <1>3 DEF VerifyReceipt
  <2> QED
    BY <2>1 DEF SignatureOk
<1> QED
  BY <1>2, <1>3

LEMMA ForgeryLeads ==
    ASSUME NEW s \in Seq(Issued), VerifyChain(ThisDeal, s), AllSigned(s),
           NEW c \in Forgeries(s), c # << >>,
           VerifyReceipt(ThisDeal, c, PlatformKey, TRUE).ok,
           VerifyReceipt(ThisDeal, c, PlatformKey, TRUE).signatures[Len(c)] = "good"
    PROVE  AnchorsLead(c, s) /\ \E G, H : c \in Seq(Links(Edits, G, H))
<1> DEFINE L(H) == Links(Edits, SignaturesOf(s), H)
           Typed(d) == d \in Seq(L(AnyHash(Edits)))
<1>1. s \in Seq(L(HashesOf(s))) /\ Forged \in Edits /\ Unsigned \in SignaturesOf(s)
  BY IssuedIsTyped DEF Edits, SignaturesOf
<1>2. \A d \in Copies(s) : d \in Seq(L(HashesOf(s)))
  BY <1>1, CopyTyped
<1>3. \A d \in Copies(s) : Typed(d)
  <2>1. L(HashesOf(s)) \subseteq L(AnyHash(Edits))
    BY IssuedIsTyped, MoreLinks
  <2> QED
    BY <1>2, <2>1, SeqMonotonic
<1>4. \A d \in Copies(s) \cup {s} : Typed(Resealed(ThisDeal, d)) /\ Typed(Resealed(OtherDeal, d))
  BY <1>1, <1>2, ResealedTyped
<1> DEFINE followed == {Resealed(ThisDeal, d) : d \in Copies(s)} \cup {Resealed(OtherDeal, s)}
<1>5. \A d \in followed : Typed(d)
  BY <1>4
<1>6. \/ c \in Copies(s) \cup followed
      \/ \E d \in followed : c = [i \in DOMAIN d |-> SignedBy(StrangeKey, d[i])]
  <2> HIDE DEF Typed
  <2> QED
    BY Zenon DEF Forgeries
<1> HIDE DEF followed
<1>7. CASE c \in Copies(s) \cup followed
  <2>1. c \in Seq(L(AnyHash(Edits)))
    BY <1>3, <1>5, <1>7
  <2> HIDE DEF L
  <2>2. Len(c) \in 1 .. Len(c) /\ DOMAIN c = 1 .. Len(c) /\ Last(c) = c[Len(c)]
    BY <2>1, EmptySeq, LenProperties DEF Last
  <2>3. /\ VerifyChain(ThisDeal, c)
        /\ Last(c).signature = Signature(PlatformKey, Last(c).hash)
        /\ Last(c).signature # Unsigned
    <3>1. PICK k : k = Len(c)
      OBVIOUS
    <3>2. k \in DOMAIN c /\ VerifyReceipt(ThisDeal, c, PlatformKey, TRUE).signatures[k] = "good"
      BY <2>2, <3>1
    <3>3. /\ VerifyChain(ThisDeal, c)
          /\ c[k].signature = Signature(PlatformKey, c[k].hash) /\ c[k].signature # Unsigned
      BY <3>2, OrderFollows
    <3> QED
      BY <2>2, <3>1, <3>3
  <2>4. Last(c).signature \in SignaturesOf(s)
    <3>1. Last(c) \in L(AnyHash(Edits))
      BY <2>1, <2>2, ElementOfSeq
    <3> QED
      BY <3>1 DEF L, Links
  <2>5. PICK j \in DOMAIN s : Last(c).signature = s[j].signature
    BY <2>3, <2>4 DEF SignaturesOf
  <2>6. Last(c).hash = s[j].hash
    <3>1. Signature(PlatformKey, Last(c).hash) = Signature(PlatformKey, s[j].hash)
      BY <2>3, <2>5 DEF AllSigned
    <3> QED
      BY <3>1 DEF Signature
  <2>7. Last(c).hash \in HashesOf(s)
    BY <2>5, <2>6 DEF HashesOf
  <2>8. c \in Seq(Links(Edits, SignaturesOf(s), AnyHash(Edits)))
    BY <2>1 DEF L
  <2> QED
    BY <2>3, <2>7, <2>8, EndsInIssuedHash
<1>8. ASSUME NEW d \in followed, c = [i \in DOMAIN d |-> SignedBy(StrangeKey, d[i])]
      PROVE  FALSE
  <2>1. d \in Seq(L(AnyHash(Edits)))
    BY <1>5, <1>8
  <2> HIDE DEF L
  <2>2. Len(d) \in Nat /\ DOMAIN d = 1 .. Len(d) /\ Len(c) = Len(d) /\ DOMAIN c = 1 .. Len(d)
    <3>1. Len(d) \in Nat /\ DOMAIN d = 1 .. Len(d)
      BY <2>1, LenProperties
    <3> QED
      BY <1>8, <3>1
  <2>3. Len(d) # 0
    <3>1. ASSUME Len(d) = 0 PROVE c = << >>
      <4>1. DOMAIN d = {} /\ c = [i \in {} |-> SignedBy(StrangeKey, d[i])]
        BY <1>8, <2>2, <3>1
      <4> QED
        BY <4>1
    <3> QED
      BY <3>1
  <2>4. Len(d) \in DOMAIN c
    BY <2>2, <2>3
  <2>5. PICK x : x = d[Len(d)]
    OBVIOUS
  <2>6. x \in L(AnyHash(Edits)) /\ c[Len(d)] = SignedBy(StrangeKey, x)
    BY <1>8, <2>1, <2>2, <2>3, <2>5, ElementOfSeq
  <2>7. c[Len(d)].signature = Signature(StrangeKey, x.hash)
    BY <2>6 DEF SignedBy, L, Links
  <2>8. c[Len(d)].signature = Signature(PlatformKey, c[Len(d)].hash)
    <3>1. PICK k : k = Len(d)
      OBVIOUS
    <3>2. k \in DOMAIN c /\ VerifyReceipt(ThisDeal, c, PlatformKey, TRUE).signatures[k] = "good"
      BY <2>2, <2>4, <3>1
    <3> QED
      BY <3>1, <3>2, OrderFollows
  <2> QED
    BY <2>7, <2>8, KeysAssumption DEF Signature
<1> QED
  BY <1>6, <1>7, <1>8

LEMMA LeadsOn ==
    ASSUME NEW s \in Seq(Issued), NEW t \in Seq(Issued), Leads(s, t), NEW c, Len(c) \in Nat,
           AnchorsLead(c, s)
    PROVE  AnchorsLead(c, t)
<1>1. Len(s) \in Nat /\ Len(t) \in Nat
  BY LenProperties
<1> QED
  BY <1>1 DEF Leads, AnchorsLead

\* The prefix in the sense of the properties.
LEMMA LeadsAsIssued ==
    ASSUME NEW s \in Seq(Issued), NEW G, NEW H, NEW c \in Seq(Links(Edits, G, H)),
           AnchorsLead(c, s)
    PROVE  IsPrefix(Anchored(c), Anchored(s))
<1> DEFINE F == G \cup SignaturesOf(s)
           I == H \cup HashesOf(s)
<1>1. c \in Seq(Links(Edits, F, I))
  <2>1. Links(Edits, G, H) \subseteq Links(Edits, F, I)
    <3>1. G \subseteq F /\ H \subseteq I
      OBVIOUS
    <3> HIDE DEF F, I
    <3> QED
      BY <3>1, MoreLinks
  <2> QED
    BY <2>1, SeqMonotonic
<1>2. s \in Seq(Links(Edits, F, I))
  <2>1. Links(Edits, SignaturesOf(s), HashesOf(s)) \subseteq Links(Edits, F, I)
    <3>1. SignaturesOf(s) \subseteq F /\ HashesOf(s) \subseteq I
      OBVIOUS
    <3> HIDE DEF F, I
    <3> QED
      BY <3>1, MoreLinks
  <2> QED
    BY <2>1, IssuedIsTyped, SeqMonotonic
<1> HIDE DEF F, I
<1> QED
  BY <1>1, <1>2, AnchorsLeadIsPrefix

\* VerifiedIsAsIssued: whatever was edited, left out or exchanged in a copy of a
\* receipt, the payloads of one that passes begin the history of this deal.
THEOREM VerifiedCopiesStand == ClientSpec => []VerifiedIsAsIssued
<1>1. ClientInv /\ IssuedHolds => VerifiedIsAsIssued
  <2> SUFFICES ASSUME ClientInv, IssuedHolds, Served,
                      NEW c \in Copies(page.attestations), VerifyChain(ThisDeal, c)
               PROVE  IsPrefix(Anchored(c), Anchored(sealed))
    BY DEF VerifiedIsAsIssued
  <2>1. PICK s : s = page.attestations
    OBVIOUS
  <2>2. /\ s \in Seq(Issued) /\ Leads(s, sealed) /\ sealed \in Seq(Issued)
        /\ VerifyChain(ThisDeal, s)
    BY <2>1 DEF IssuedHolds, ClientInv, PageHolds
  <2>3. AnchorsLead(c, s)
    BY <2>1, <2>2, CopyLeads
  <2>4. c \in Seq(Links(Edits, SignaturesOf(s), HashesOf(s)))
    <3>1. Forged \in Edits /\ Unsigned \in SignaturesOf(s)
      BY DEF Edits, SignaturesOf
    <3> QED
      BY <2>1, <2>2, <3>1, IssuedIsTyped, CopyTyped
  <2>5. Len(c) \in Nat
    BY <2>4, LenProperties
  <2> QED
    BY <2>2, <2>3, <2>4, <2>5, LeadsOn, LeadsAsIssued
<1> QED
  BY <1>1, ClientInductive, IssuedInductive, PTL

\* A chain of whatever payloads and signatures that verifies, and whose last hash the
\* service has issued, has the payloads of the deal's history up to there: nobody has
\* to have kept more of a receipt than its last hash.
IssuedHeadBinds(P, G) ==
    \A s \in Seq(Links(P, G, AnyHash(P))) :
       (s # << >> /\ VerifyChain(ThisDeal, s)) =>
          \A j \in DOMAIN sealed :
             Last(s).hash = sealed[j].hash => IsPrefix(Anchored(s), Anchored(sealed))

\* chain.rs, verify.ts: the same for every chain of links a verifier can be given.
THEOREM HeadStandsForHistory ==
    ASSUME NEW CONSTANT P, Payloads \subseteq P, NEW CONSTANT G
    PROVE  ClientSpec => []IssuedHeadBinds(P, G)
<1>1. ASSUME ClientInv, IssuedHolds
      PROVE  IssuedHeadBinds(P, G)
  <2>1. PICK F : F = G \cup OurSignatures(Payloads)
    OBVIOUS
  <2>2. sealed \in Seq(Links(P, F, AnyHash(P))) /\ VerifyChain(ThisDeal, sealed)
    <3>1. AnyHash(Payloads) \subseteq AnyHash(P)
      <4>1. Hashed(Payloads) \subseteq Hashed(P)
        BY DEF Hashed
      <4> QED
        BY <4>1, SeqMonotonic DEF AnyHash
    <3>2. Issued \subseteq Links(P, F, AnyHash(P))
      BY <2>1, <3>1, MoreLinks DEF Issued
    <3> QED
      BY <1>1, <3>2, SeqMonotonic DEF IssuedHolds, ClientInv, RowsVerify
  <2> SUFFICES ASSUME NEW s \in Seq(Links(P, G, AnyHash(P))), s # << >>,
                      VerifyChain(ThisDeal, s),
                      NEW j \in DOMAIN sealed, Last(s).hash = sealed[j].hash
               PROVE  IsPrefix(Anchored(s), Anchored(sealed))
    BY DEF IssuedHeadBinds
  <2>3. s \in Seq(Links(P, F, AnyHash(P)))
    <3>1. Links(P, G, AnyHash(P)) \subseteq Links(P, F, AnyHash(P))
      BY <2>1, MoreLinks
    <3> QED
      BY <3>1, SeqMonotonic
  <2>4. j \in 1 .. Len(sealed)
    BY <2>2, LenProperties
  <2>5. AnchorsLead(s, sealed)
    BY <2>2, <2>3, <2>4, HeadBindsHistory
  <2> QED
    BY <2>2, <2>3, <2>5, AnchorsLeadIsPrefix
<1> QED
  BY <1>1, ClientInductive, IssuedInductive, PTL

\* SignedIsAsIssued: of a served receipt edited and put together again without the
\* platform's key, whatever its hashes were made to say, what the browser finds in order
\* with a good signature at its end has the payloads the platform sealed for this deal.
THEOREM SignedReceiptsStand == ClientSpec => []SignedIsAsIssued
<1>1. ClientInv /\ IssuedHolds => SignedIsAsIssued
  <2> SUFFICES ASSUME ClientInv, IssuedHolds, Served,
                      NEW c \in Forgeries(page.attestations), c # << >>,
                      VerifyReceipt(ThisDeal, c, PlatformKey, TRUE).ok,
                      VerifyReceipt(ThisDeal, c, PlatformKey, TRUE).signatures[Len(c)] = "good"
               PROVE  IsPrefix(Anchored(c), Anchored(sealed))
    BY DEF SignedIsAsIssued
  <2>1. PICK s : s = page.attestations
    OBVIOUS
  <2>2. /\ s \in Seq(Issued) /\ Leads(s, sealed) /\ sealed \in Seq(Issued)
        /\ VerifyChain(ThisDeal, s) /\ AllSigned(s)
    BY <2>1 DEF IssuedHolds, ClientInv, PageHolds
  <2>3. AnchorsLead(c, s) /\ \E G, H : c \in Seq(Links(Edits, G, H))
    BY <2>1, <2>2, ForgeryLeads
  <2>4. PICK G, H : c \in Seq(Links(Edits, G, H))
    BY <2>3
  <2>5. Len(c) \in Nat
    BY <2>4, LenProperties
  <2> QED
    BY <2>2, <2>3, <2>4, <2>5, LeadsOn, LeadsAsIssued
<1> QED
  BY <1>1, ClientInductive, IssuedInductive, PTL
=============================================================================
