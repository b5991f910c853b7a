------------------------------- MODULE Reading -------------------------------
(***************************************************************************)
(* One session being talked, read and proposed: phrases are appended, the  *)
(* opening is searched for names, and either witness (the offline scanner, *)
(* or the model with whatever it answers) reads the transcript until a     *)
(* reading is good enough to be proposed.  Requests are atomic here;       *)
(* CaptureSession is about their interleavings and leaves readings opaque. *)
(***************************************************************************)
EXTENDS Witness

CONSTANTS
    Utterances,   \* what people may say
    Answers,      \* what the Claude API may answer to a request to read
    NoTerms,      \* no terms on the deal
    MaxLines      \* bound: length of a transcript

ASSUME ReadingBounds == MaxLines \in Nat

ASSUME InputsAssumption ==
    Utterances \subseteq Phrases /\ Answers \subseteq Replies /\ NoTerms \notin CandidateTerms

VARIABLES
    transcript,   \* of the session
    voices,       \* its speaker identification, as the offline witness left it
    terms,        \* of the deal: NoTerms in Draft, then the proposed ones
    reader        \* history: the witness whose reading was proposed

vars == <<transcript, voices, terms, reader>>

Init ==
    /\ transcript = << >>
    /\ voices = NoVoices
    /\ terms = NoTerms
    /\ reader = "none"

\* A closed session takes no more phrases.
Say(u) ==
    /\ terms = NoTerms /\ Len(transcript) < MaxLines
    /\ transcript' = Append(transcript, u)
    /\ UNCHANGED <<voices, terms, reader>>

\* Persisted even when incomplete.
Identify ==
    /\ transcript # << >>
    /\ voices' = OfflineIdentify(transcript)
    /\ UNCHANGED <<transcript, terms, reader>>

Propose(readings, witness) ==
    /\ transcript # << >> /\ terms = NoTerms
    /\ \E x \in readings : \E t \in Proposed(x) : terms' = t
    /\ reader' = witness
    /\ UNCHANGED <<transcript, voices>>

ProposeOffline == Propose({OfflineExtract(transcript)}, "offline")

ProposeModel == \E a \in Answers : Propose(ModelExtract(a), "model")

Next ==
    \/ \E u \in Utterances : Say(u)
    \/ Identify
    \/ ProposeOffline
    \/ ProposeModel

Spec == Init /\ [][Next]_vars

-----------------------------------------------------------------------------
(* Correctness.                                                            *)

\* The prices the scanner hears in an utterance.  What counts as a price is its own
\* rule, not a promise: a long number without a dollar sign is not heard, and a year
\* of four digits is.
Heard(u) ==
    FlattenSeq([i \in DOMAIN u.numbers |->
                   IF Plausible(u.numbers[i]) THEN <<u.numbers[i].minor>> ELSE << >>])

\* The prices heard from either party, in order, up to the n-th phrase.
PricesUpTo(n) == FlattenSeq([i \in 1 .. n |-> Heard(transcript[i])])

\* "The agreed price is the last price on the table when agreement was reached,
\* which is often not the last number anyone said" is asked of the model (claude.rs);
\* the offline witness keeps to it: of all the prices it hears, it proposes the last
\* one before or in the phrase that closed last, whatever is said after it.
AgreedIsLastOnTable ==
    reader = "offline" =>
        \E c \in DOMAIN transcript :
            /\ transcript[c].closes
            /\ \A d \in (c + 1) .. Len(transcript) : ~transcript[d].closes
            /\ PricesUpTo(c) # << >>
            /\ terms.price.minor = PricesUpTo(c)[Len(PricesUpTo(c))]

WellFormed(t) ==
    /\ t.item # Blank
    /\ t.price.minor > 0 /\ t.price.currency \in Codes
    /\ Blank \notin {t.buyer, t.seller}
    /\ ~SameName(t.buyer, t.seller)
    /\ \A i \in DOMAIN t.ladder :
          /\ t.ladder[i].by \in {"buyer", "seller"}
          /\ t.ladder[i].amount # NoMoney =>
                /\ t.ladder[i].amount.minor > 0
                /\ t.ladder[i].amount.currency = t.price.currency

\* There is "no path by which malformed output becomes malformed terms"
\* (claude.rs): whatever the model answers, proposed terms name an item, a
\* positive price, two different people and a ladder of positive prices in that
\* price's currency, which is three letters and need not be an ISO code.
ProposedTermsAreWellFormed == terms # NoTerms => WellFormed(terms)

\* A name is bound to a voice by that voice's own words only, and a complete
\* identification is of two different voices.
VoicesNameThemselves ==
    /\ \A i \in DOMAIN voices.bindings :
          \E u \in ToSet(transcript) :
              /\ u.speaker = voices.bindings[i].label
              /\ u.introduces = voices.bindings[i].name
    /\ IsComplete(voices) => voices.bindings[1].label # voices.bindings[2].label
=============================================================================
