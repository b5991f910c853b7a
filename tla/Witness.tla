------------------------------- MODULE Witness -------------------------------
(***************************************************************************)
(* How a conversation becomes candidate terms: the two witnesses of        *)
(* th-infra (the offline scanner and the client of the Claude API) and     *)
(* what th-domain asks of a reading before it is proposed.  All of it is   *)
(* pure; what the model answers is an input.  Operators that may fail      *)
(* return a set: empty for an error, a singleton otherwise.                *)
(*                                                                         *)
(* Words are abstracted to what the readers look for in them: the numbers  *)
(* an utterance contains, whether it closes the deal, and the name its     *)
(* speaker gives.  FoldedName knows every spelling of a name a model uses;  *)
(* a currency is what Money::new and into_domain read off it, its length    *)
(* and its capitals.                                                       *)
(***************************************************************************)
EXTENDS Integers, Sequences, SequencesExt

CONSTANTS
    DefaultCurrency,   \* TH_CURRENCY, in capitals
    Codes              \* the words of three capital letters

NoSpeaker == ""
Blank     == ""

\* eq_ignore_ascii_case after trim().
FoldedName(n) == IF n = "nash" THEN "Nash" ELSE n
SameName(a, b) == FoldedName(a) = FoldedName(b)

\* Nothing checks TH_CURRENCY at startup; with any other value every price said
\* is an error and nothing is ever proposed.
ASSUME CurrencyAssumption == DefaultCurrency \in Codes

NoMoney == [currency |-> Blank, minor |-> -1]
Money   == [currency : Codes, minor : Nat]

\* Money::new of a currency whose capitals are given: any three letters will do.
MoneyNew(capitals, minor) ==
    IF capitals \in Codes /\ minor >= 0 THEN {[currency |-> capitals, minor |-> minor]} ELSE {}

-----------------------------------------------------------------------------
(* Terms and readings: th-domain/src/terms.rs, witness.rs.                 *)

\* Mutation of Validate: names are only compared, never looked for.
ValidateNames(t) ==
    t.item # Blank /\ t.price.minor # 0 /\ ~SameName(t.buyer, t.seller)

Validate(t) ==
    /\ t.item # Blank
    /\ t.price.minor # 0
    /\ t.buyer # Blank /\ t.seller # Blank
    /\ ~SameName(t.buyer, t.seller)

IsProposable(x) ==
    /\ x.closed
    /\ x.price # NoMoney
    /\ x.item # Blank
    /\ ~SameName(x.buyer, x.seller)

ToCandidateTerms(x) ==
    [item |-> x.item, price |-> x.price, buyer |-> x.buyer, seller |-> x.seller,
     ladder |-> x.ladder]

\* What a reading puts in front of the parties, if anything (state.rs).
Proposed(x) ==
    IF IsProposable(x) /\ Validate(ToCandidateTerms(x)) THEN {ToCandidateTerms(x)} ELSE {}

RungKinds == {"context", "ask", "offer", "counter", "accept"}

\* What is heard of an utterance, and what terms can hold.
Phrases ==
    [speaker : STRING, introduces : STRING, closes : BOOLEAN,
     numbers : Seq([minor : Int, digits : Nat, dollar : BOOLEAN])]

Offers == [by : {"buyer", "seller"}, kind : RungKinds, amount : Money \cup {NoMoney}]

\* What anybody says, and the offline witness's own words.
Texts == STRING \cup {"item", "Buyer", "Seller"}

CandidateTerms ==
    [item : Texts, price : Money, buyer : Texts, seller : Texts, ladder : Seq(Offers)]

\* Distinct labels in order of first appearance.
Speakers(transcript) ==
    FoldLeft(LAMBDA names, u : IF u.speaker = NoSpeaker \/ Contains(names, u.speaker)
                               THEN names ELSE Append(names, u.speaker),
             << >>, transcript)

-----------------------------------------------------------------------------
(* The offline witness: th-infra/src/offline_witness.rs.                   *)

Plausible(n) == (n.dollar \/ n.digits <= 4) /\ n.minor > 0

\* The price-looking numbers of an utterance, in order.
ScanAmounts(u) ==
    FoldLeft(LAMBDA out, n : IF Plausible(n) THEN Append(out, n.minor) ELSE out,
             << >>, u.numbers)

\* Whose turn it is: the buyer's if it is the first speaker's, or if nobody is
\* named and the turn has an even number (counted from 0, as in the code).
TurnOf(transcript, i) ==
    LET names == Speakers(transcript)
        u     == transcript[i]
    IN  CASE u.speaker # NoSpeaker /\ u.speaker = names[1] -> "buyer"
          [] u.speaker # NoSpeaker /\ u.speaker # names[1] -> "seller"
          [] u.speaker = NoSpeaker                         ->
                IF i % 2 = 1 THEN "buyer" ELSE "seller"

\* A price said by one party on top of what is on the ladder.
Rung(ladder, by, minor) ==
    [by |-> by,
     kind |-> IF by = "buyer" THEN "offer"
              ELSE IF ladder = << >> THEN "context"
              ELSE IF \E i \in DOMAIN ladder : ladder[i].by = "buyer" THEN "counter"
              ELSE "ask",
     amount |-> [currency |-> DefaultCurrency, minor |-> minor]]

\* The prices of one party's turn, on top of what is on the ladder.
Priced(ladder, by, amounts) ==
    FoldLeft(LAMBDA l, minor : Append(l, Rung(l, by, minor)), ladder, amounts)

\* One turn: its prices go on the ladder, and if it closes, the price agreed is
\* that of the last rung, which the closing words then top without a price.
Turn(transcript, read, i) ==
    LET by     == TurnOf(transcript, i)
        ladder == Priced(read.ladder, by, ScanAmounts(transcript[i]))
    IN  IF transcript[i].closes
        THEN [ladder |-> Append(ladder, [by |-> by, kind |-> "accept", amount |-> NoMoney]),
              agreed |-> IF ladder = << >> THEN NoMoney ELSE ladder[Len(ladder)].amount]
        ELSE [read EXCEPT !.ladder = ladder]

ReadingOf(transcript, read) ==
    LET names == Speakers(transcript) IN
    [item |-> "item", price |-> read.agreed, closed |-> read.agreed # NoMoney,
     buyer |-> IF names = << >> THEN "Buyer" ELSE names[1],
     seller |-> IF Len(names) < 2 THEN "Seller" ELSE names[2],
     ladder |-> read.ladder]

Nothing == [ladder |-> << >>, agreed |-> NoMoney]

\* Mutation of OfflineExtract: once somebody closed, the last number said counts.
OfflineExtractLast(transcript) ==
    LET read   == FoldLeftDomain(LAMBDA r, i : Turn(transcript, r, i), Nothing, transcript)
        priced == SelectSeq(read.ladder, LAMBDA o : o.amount # NoMoney)
    IN  ReadingOf(transcript,
                  IF read.agreed = NoMoney THEN read
                  ELSE [read EXCEPT !.agreed = priced[Len(priced)].amount])

OfflineExtract(transcript) ==
    ReadingOf(transcript,
              FoldLeftDomain(LAMBDA r, i : Turn(transcript, r, i), Nothing, transcript))

\* The utterances in which a label says its own name.
Introductions(transcript, label) ==
    {i \in DOMAIN transcript : transcript[i].speaker = label /\ transcript[i].introduces # Blank}

NoVoices == [bindings |-> << >>, unbound |-> << >>]

Named(id, label, name) ==
    [id EXCEPT !.bindings = Append(@, [label |-> label, name |-> name])]

\* Mutation of Bind: a name counts whoever says it.
BindAnybody(transcript, id, label) ==
    LET said == {i \in DOMAIN transcript : transcript[i].introduces # Blank}
    IN  IF said = {} THEN [id EXCEPT !.unbound = Append(@, label)]
        ELSE Named(id, label, transcript[Max(said)].introduces)

\* A voice is bound by its own first introduction, or stays unbound.
Bind(transcript, id, label) ==
    LET own == Introductions(transcript, label)
    IN  IF own = {} THEN [id EXCEPT !.unbound = Append(@, label)]
        ELSE Named(id, label, transcript[Min(own)].introduces)

OfflineIdentify(transcript) ==
    FoldLeft(LAMBDA id, label : Bind(transcript, id, label), NoVoices, Speakers(transcript))

IsComplete(id) ==
    /\ Len(id.bindings) = 2 /\ id.unbound = << >>
    /\ ~SameName(id.bindings[1].name, id.bindings[2].name)
    /\ \A i \in DOMAIN id.bindings : id.bindings[i].name # Blank

-----------------------------------------------------------------------------
(* The model's witness: th-infra/src/claude.rs.                            *)

\* ClaudeWitness::call: what of an answer of the API gets to the caller.  The
\* body is text that may or may not be the JSON the schema asks for.
Call(answer) ==
    IF answer.status = "success" /\ answer.stop # "refusal" /\ answer.body.json
    THEN {answer.body}
    ELSE {}

\* How an answer spells its currency: bytes and capitals of the trimmed text.
Spellings == [bytes : Nat, capitals : STRING]

\* What serde makes of an answer that has the schema's shape.
Bodies ==
    [json : BOOLEAN, item : STRING, price : Int, currency : Spellings, buyer : STRING,
     seller : STRING, closed : BOOLEAN,
     ladder : Seq([by : STRING, kind : STRING, amount : Int])]

Replies == [status : STRING, stop : STRING, body : Bodies]

\* Sentinels become absences and amounts are built by Money::new in one currency,
\* the answer's if it has three bytes; one rung that cannot be built fails the reading.
IntoDomain(raw, fallback) ==
    LET currency  == IF raw.currency.bytes = 3 THEN raw.currency.capitals ELSE fallback
        Amount(n) == IF n > 0 THEN MoneyNew(currency, n) ELSE {NoMoney}
        Known(o)  == o.by \in {"buyer", "seller"} /\ o.kind \in RungKinds
        The(n)    == CHOOSE m \in Amount(n) : TRUE
    IN  IF /\ Amount(raw.price) # {}
           /\ \A i \in DOMAIN raw.ladder :
                 Known(raw.ladder[i]) /\ Amount(raw.ladder[i].amount) # {}
        THEN {[item |-> raw.item, price |-> The(raw.price), closed |-> raw.closed,
               buyer |-> raw.buyer, seller |-> raw.seller,
               ladder |-> [i \in DOMAIN raw.ladder |->
                              [raw.ladder[i] EXCEPT !.amount = The(@)]]]}
        ELSE {}

ModelExtract(answer) == UNION {IntoDomain(raw, DefaultCurrency) : raw \in Call(answer)}
=============================================================================
