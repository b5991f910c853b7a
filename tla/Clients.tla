-------------------------------- MODULE Clients --------------------------------
(***************************************************************************)
(* What people see of a deal, and what they do on the strength of it:      *)
(*                                                                         *)
(*   - the screens of the two parties (web/src/routes/Deal.tsx), fetched   *)
(*     now and then, from which a confirmation takes its revision;         *)
(*   - the public receipt (service.rs, receipt), put together from two     *)
(*     queries, and the signed chain of hashes it carries                  *)
(*     (th-domain/src/chain.rs, Handshake::seal) with its two verifiers,   *)
(*     the domain's, which checks the hashes, and the browser's            *)
(*     (web/src/lib/verify.ts), which checks the signatures as well.       *)
(*                                                                         *)
(* The deal itself moves as DealLifecycle says.  Hashes and signatures are *)
(* constructors: equal only when what went into them is.                   *)
(***************************************************************************)
EXTENDS DealLifecycle, SequencesExt

CONSTANTS
    ThisDeal, OtherDeal,       \* ids of deals
    PlatformKey, StrangeKey    \* the key TH_SIGNING_SEED stands for, and any other

ASSUME DealsAssumption == ThisDeal # OtherDeal

NoKey == "none"   \* no key is published, or a browser lacks Ed25519

ASSUME KeysAssumption == PlatformKey # StrangeKey /\ NoKey \notin {PlatformKey, StrangeKey}

VARIABLES
    sealed,    \* the rows of `attestations`
    shown,     \* what each party's screen last fetched of the deal
    agreedTo,  \* history: the terms on the screen when the party last confirmed
    page       \* the receipt somebody is looking at

screens    == <<shown, agreedTo>>
clientVars == <<vars, sealed, screens, page>>

NoView == [askable |-> FALSE, revision |-> None, terms |-> NoTerms]
NoPage == [stage |-> "none"]

-----------------------------------------------------------------------------
(* chain.rs: sealing.                                                      *)

\* A hash is what has been hashed into it, in order.
GenesisHash(id)             == <<id>>
LinkHash(prev, payloadHash) == Append(prev, payloadHash)

Signature(key, hash) == [by |-> key, over |-> hash]
Unsigned             == Signature(NoKey, << >>)

\* The hashes are of the payload alone.  Who acted, how and when, and the name
\* of the key, stand beside them; the signature is put on afterwards.
Link(seq, prev, draft) ==
    LET payloadHash == CanonicalHash(draft.payload) IN
    [ seq         |-> seq,
      action      |-> draft.action,
      actor       |-> draft.actor,
      at          |-> draft.at,
      payload     |-> draft.payload,
      payloadHash |-> payloadHash,
      prev        |-> prev,
      hash        |-> LinkHash(prev, payloadHash),
      keyId       |-> PlatformKey,
      signature   |-> Unsigned ]

SignedBy(key, link) == [link EXCEPT !.signature = Signature(key, link.hash)]

ChainHead(id, s) == IF s = << >> THEN GenesisHash(id) ELSE Last(s).hash

\* Mutation of Sealed: the next seq is counted from one.
SealedFromOne(id, s, draft) ==
    Append(s, SignedBy(PlatformKey, Link(Len(s) + 1, ChainHead(id, s), draft)))

Sealed(id, s, draft) ==
    Append(s, SignedBy(PlatformKey, Link(Len(s), ChainHead(id, s), draft)))

\* What each arm of transition() puts into the payload of its attestation, as
\* far as the deal tells; every arm adds the deal's id and the instant.
PayloadOf(row, d) ==
    LET by == [by |-> row.actor] IN
    [ WitnessProposed  |-> [extraction |-> d.terms],
      TermsCorrected   |-> [revision |-> d.termsRevision, terms |-> d.terms],
      TermsConfirmed   |-> [revision |-> d.termsRevision, by |-> row.actor],
      TermsFrozen      |-> [revision |-> d.termsRevision, terms |-> d.terms,
                            termsHash |-> d.termsHash],
      FundsHeld        |-> [termsHash |-> d.termsHash],
      HandoffProved    |-> << >>,
      ReceiptConfirmed |-> [automatic |-> d.receiptAutoConfirmed,
                            releaseDueAt |-> d.releaseDueAt],
      FundsReleased    |-> [early |-> row.actor \in Parties],
      DisputeOpened    |-> by,
      DisputeResolved  |-> [outcome |-> IF d.state = "Holding" THEN "Withdrawn"
                                        ELSE d.outcome],
      Cancelled        |-> by,
      Expired          |-> << >>,
      FundsRefunded    |-> << >> ][row.action]

\* Mutation of Draft: the freeze attests the terms, and leaves out their hash.
DraftUnhashed(row, d) ==
    [action |-> row.action, actor |-> row.actor, at |-> row.at,
     payload |-> [at |-> row.at,
                  says |-> IF row.action = "TermsFrozen"
                           THEN [PayloadOf(row, d) EXCEPT !.termsHash = NoHash]
                           ELSE PayloadOf(row, d)]]

Draft(row, d) ==
    [action |-> row.action, actor |-> row.actor, at |-> row.at,
     payload |-> [at |-> row.at, says |-> PayloadOf(row, d)]]

-----------------------------------------------------------------------------
(* Verification, twice.                                                    *)

ExpectedPrev(id, s, i) == IF i = 1 THEN GenesisHash(id) ELSE s[i - 1].hash

\* Mutation of VerifyChain: payloads are not hashed again.
VerifyLinksOnly(id, s) ==
    \A i \in DOMAIN s :
        /\ s[i].seq = i - 1
        /\ s[i].prev = ExpectedPrev(id, s, i)
        /\ s[i].hash = LinkHash(s[i].prev, s[i].payloadHash)

\* th-domain: the first link that does not follow is an error.
VerifyChain(id, s) ==
    \A i \in DOMAIN s :
        /\ s[i].seq = i - 1
        /\ s[i].prev = ExpectedPrev(id, s, i)
        /\ s[i].payloadHash = CanonicalHash(s[i].payload)
        /\ s[i].hash = LinkHash(s[i].prev, s[i].payloadHash)

\* A link without a signature is not judged, and neither is any without a key.
SignatureOk(link, key) ==
    IF key = NoKey \/ link.signature = Unsigned THEN "unchecked"
    ELSE IF link.signature = Signature(key, link.hash) THEN "good" ELSE "bad"

\* Mutation of VerifyReceipt: the chain may start anywhere.
VerifyAnyGenesis(id, s, published, supported) ==
    LET key    == IF supported THEN published ELSE NoKey
        prev(i) == IF i = 1 THEN s[1].prev ELSE s[i - 1].hash
        good(i) == /\ CanonicalHash(s[i].payload) = s[i].payloadHash
                   /\ s[i].prev = prev(i) /\ LinkHash(prev(i), s[i].payloadHash) = s[i].hash
                   /\ s[i].seq = i - 1
                   /\ SignatureOk(s[i], key) # "bad"
    IN  [ ok         |-> published # NoKey /\ \A i \in DOMAIN s : good(i),
          signatures |-> [i \in DOMAIN s |-> SignatureOk(s[i], key)] ]

\* The browser: every link is judged by itself, under the one key published;
\* an unchecked signature does not count against the receipt.
VerifyReceipt(id, s, published, supported) ==
    LET key          == IF supported THEN published ELSE NoKey
        payloadOk(i) == CanonicalHash(s[i].payload) = s[i].payloadHash
        linkOk(i)    == LET prev == ExpectedPrev(id, s, i) IN
                        /\ s[i].prev = prev
                        /\ LinkHash(prev, s[i].payloadHash) = s[i].hash
                        /\ s[i].seq = i - 1
        good(i)      == payloadOk(i) /\ linkOk(i) /\ SignatureOk(s[i], key) # "bad"
    IN  [ ok         |-> published # NoKey /\ \A i \in DOMAIN s : good(i),
          signatures |-> [i \in DOMAIN s |-> SignatureOk(s[i], key)] ]

\* The browser hashes the terms on the page; without both there is no verdict.
VerifyTermsHash(terms, termsHash) ==
    (terms # NoTerms /\ termsHash # NoHash) => CanonicalHash(terms) = termsHash

-----------------------------------------------------------------------------
(* The deal moves and its attestation is sealed in the same step.          *)

SealNew ==
    sealed' = IF chain' = chain THEN sealed
              ELSE Sealed(ThisDeal, sealed, Draft(Last(chain'), deal'))

\* Everything but the confirmations, which come from a screen.
DealMoves ==
    /\ Next
    /\ chain' # chain => Last(chain').action \notin {"TermsConfirmed", "TermsFrozen"}
    /\ SealNew
    /\ UNCHANGED <<screens, page>>

\* The view of the deal a party is given: its terms, their revision and whether
\* the party's own confirmation of them is outstanding.
ViewOf(d, p) ==
    [ askable  |-> d.state = "PendingAgreement" /\ ~ConfirmedBy(d, p),
      revision |-> d.termsRevision,
      terms    |-> d.terms ]

\* A poll, or the reload after a command.
Show(p) ==
    /\ deal.version > 0
    /\ shown' = [shown EXCEPT ![p] = ViewOf(deal, p)]
    /\ UNCHANGED <<vars, sealed, agreedTo, page>>

\* The button names the revision of the screen it is on.
ConfirmShown(p) ==
    /\ MayAct /\ shown[p].askable
    /\ Accept([name |-> "ConfirmTerms", revision |-> shown[p].revision], p, now)
    /\ SealNew
    /\ agreedTo' = [agreedTo EXCEPT ![p] = shown[p].terms]
    /\ UNCHANGED <<shown, page>>

-----------------------------------------------------------------------------
(* The receipt: the deal first, its attestations second.                   *)

\* Terms are published in every state but the first two.
PublishedTerms(d) ==
    IF d.state \in {"Draft", "PendingAgreement"} THEN NoTerms ELSE d.terms

RecordOf(d) ==
    [version |-> d.version, terms |-> PublishedTerms(d), termsHash |-> d.termsHash]

LoadRecord ==
    /\ page = NoPage
    /\ page' = [stage |-> "loaded", record |-> RecordOf(deal)]
    /\ UNCHANGED <<vars, sealed, screens>>

\* Mutation of LoadAttestations: the attestations are read first, the deal last.
LoadRecordLast ==
    /\ page.stage = "loaded"
    /\ page' = [stage |-> "served", record |-> RecordOf(deal),
                attestations |-> SubSeq(sealed, 1, page.record.version)]
    /\ UNCHANGED <<vars, sealed, screens>>

LoadAttestations ==
    /\ page.stage = "loaded"
    /\ page' = [stage |-> "served", record |-> page.record,
                attestations |-> sealed]
    /\ UNCHANGED <<vars, sealed, screens>>

ClosePage ==
    /\ page # NoPage
    /\ page' = NoPage
    /\ UNCHANGED <<vars, sealed, screens>>

-----------------------------------------------------------------------------
ClientInit ==
    /\ Init
    /\ sealed = << >>
    /\ shown = [p \in Parties |-> NoView]
    /\ agreedTo = [p \in Parties |-> NoTerms]
    /\ page = NoPage

ClientNext ==
    \/ DealMoves
    \/ \E p \in Parties : Show(p) \/ ConfirmShown(p)
    \/ LoadRecord
    \/ LoadAttestations
    \/ ClosePage

ClientSpec == ClientInit /\ [][ClientNext]_clientVars

-----------------------------------------------------------------------------
(* Correctness.                                                            *)

\* Deal.tsx, state.rs: a confirmation counts only for the revision it names.
\* Terms bind two parties only if each had exactly these terms on the screen
\* when confirming, however old that screen was.
BoundTermsWereShown ==
    deal.termsHash # NoHash => \A p \in Parties : agreedTo[p] = deal.terms

Served == page.stage = "served"

\* A chain put together again, its hashes made to follow: what anybody can do
\* who has no key.  Signatures are taken along as they are.
Resealed(id, s) ==
    FoldLeft(LAMBDA acc, a :
                Append(acc, [Link(Len(acc), ChainHead(id, acc), a)
                                EXCEPT !.signature = a.signature]),
             << >>, s)

\* Nothing the service has ever attested.
Forged == [at |-> None, says |-> "anything"]

\* Copies that are not what was served, the ways chain.rs tests it and a few
\* more: a payload edited, or what is not hashed; a link taken out, the last
\* ones left off, two exchanged; the first dropped and the rest renumbered.
Copies(s) ==
         {s}
    \cup {[s EXCEPT ![i].payload = Forged] : i \in DOMAIN s}
    \cup {[s EXCEPT ![i].action = "Cancelled", ![i].actor = "system",
                     ![i].signature = Unsigned] : i \in DOMAIN s}
    \cup {RemoveAt(s, i) : i \in DOMAIN s}
    \cup {SubSeq(s, 1, n) : n \in 0 .. Len(s)}
    \cup {[s EXCEPT ![i] = s[i + 1], ![i + 1] = s[i]] : i \in 1 .. (Len(s) - 1)}
    \cup {[i \in 1 .. (Len(s) - 1) |-> [s[i + 1] EXCEPT !.seq = i - 1]]}

\* Copies whose hashes follow again, for this deal or another, with the
\* signatures they had or signed by somebody else.
Forgeries(s) ==
    LET followed == {Resealed(ThisDeal, c) : c \in Copies(s)} \cup {Resealed(OtherDeal, s)}
        resigned == {[i \in DOMAIN c |-> SignedBy(StrangeKey, c[i])] : c \in followed}
    IN  Copies(s) \cup followed \cup resigned

\* The part of a link the hashes speak for.
Anchored(s) ==
    [i \in DOMAIN s |-> [seq |-> s[i].seq, payload |-> s[i].payload, hash |-> s[i].hash]]

\* service.rs, receipt: although nothing locks the deal between the two
\* queries, no receipt shows a state its attestations do not account for.
ReceiptIsAccountedFor ==
    Served => Len(page.attestations) >= page.record.version

\* A receipt as served passes verification in the browser, under the published
\* key with every signature good, without Ed25519 on the hashes alone; and so
\* does the check of the published terms against their hash.
ServedReceiptVerifies ==
    Served =>
        /\ \A supported \in BOOLEAN :
              VerifyReceipt(ThisDeal, page.attestations, PlatformKey, supported).ok
        /\ LET verdict == VerifyReceipt(ThisDeal, page.attestations, PlatformKey, TRUE) IN
           \A i \in DOMAIN page.attestations : verdict.signatures[i] = "good"
        /\ VerifyTermsHash(page.record.terms, page.record.termsHash)

\* verify.ts: the hash check is to prove that the terms on the page are "the
\* ones both parties signed, not a later edit".  Bound terms are on the page
\* with the attestation of their freeze, which names them and their hash.
BoundTermsAreAttested ==
    (Served /\ page.record.termsHash # NoHash) =>
        \E i \in DOMAIN page.attestations :
            LET a == page.attestations[i] IN
            /\ a.action = "TermsFrozen"
            /\ a.payload.says.terms = page.record.terms
            /\ a.payload.says.termsHash = page.record.termsHash

\* chain.rs, verify_chain: the payloads of a copy that passes are a beginning
\* of those issued, in their order.  What is not hashed may say anything.
VerifiedIsAsIssued ==
    Served => \A s \in Copies(page.attestations) :
                  VerifyChain(ThisDeal, s) => IsPrefix(Anchored(s), Anchored(sealed))

\* verify.ts: hashes alone can be made to follow again; a receipt the browser
\* finds in order with the last signature good has the payloads issued for
\* this deal, however it was put together from what was served.
SignedIsAsIssued ==
    Served => \A s \in Forgeries(page.attestations) :
        LET verdict == VerifyReceipt(ThisDeal, s, PlatformKey, TRUE) IN
        (s # << >> /\ verdict.ok /\ verdict.signatures[Len(s)] = "good") =>
            IsPrefix(Anchored(s), Anchored(sealed))

-----------------------------------------------------------------------------
(* What the code says and does not keep.                                   *)

\* service.rs: the receipt carries the terms "only once both parties are bound
\* by them; before that there is nothing agreed to publish".
PublishedTermsAreBound ==
    (Served /\ page.record.terms # NoTerms) => page.record.termsHash # NoHash
=============================================================================
