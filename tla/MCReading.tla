------------------------------ MODULE MCReading ------------------------------
(* Reading with the phrases and the answers of the API that exercise it: each *)
(* answer is a good one with up to two things wrong with it.                  *)
EXTENDS Reading

CONSTANT Voices   \* labels a diarizer may give; NoSpeaker is always possible

Number(minor, digits, dollar) == [minor |-> minor, digits |-> digits, dollar |-> dollar]

Says(numbers, closes, name) == [numbers |-> numbers, closes |-> closes, introduces |-> name]

Contents ==
    { Says(<<Number(80, 2, FALSE), Number(60, 2, FALSE)>>, FALSE, Blank),   \* got it for 80, want 60
      Says(<<Number(40, 2, TRUE)>>, FALSE, Blank),                         \* how about $40
      Says(<<Number(50, 2, FALSE)>>, TRUE, Blank),                         \* 50 and it's a deal
      Says(<< >>, TRUE, Blank),                                            \* deal
      Says(<<Number(99, 5, FALSE), Number(0, 1, FALSE)>>, FALSE, Blank),   \* a long number and a zero
      Says(<< >>, FALSE, "Nash"),                                          \* I'm Nash
      Says(<< >>, FALSE, "Stella") }                                       \* this is Stella

MCUtterances ==
    {[speaker |-> v, numbers |-> c.numbers, closes |-> c.closes, introduces |-> c.introduces] :
        v \in Voices \cup {NoSpeaker}, c \in Contents}

RawRung(by, kind, amount) == [by |-> by, kind |-> kind, amount |-> amount]

\* " usd " is good; a code no country has is taken as it stands, three bytes that
\* are not letters are an error, and anything longer is replaced.
Spelt(bytes, capitals) == [bytes |-> bytes, capitals |-> capitals]

OddCurrencies == {Spelt(3, "EUR"), Spelt(3, "ABC"), Spelt(3, "12$"), Spelt(7, "DOLLARS")}

GoodBody ==
    [json |-> TRUE, item |-> "item", price |-> 40, currency |-> Spelt(3, "USD"), buyer |-> "Nash",
     seller |-> "Stella", closed |-> TRUE, ladder |-> <<RawRung("seller", "ask", 40)>>]

Wrong(bodies) ==
         {[b EXCEPT !.json = FALSE] : b \in bodies}
    \cup {[b EXCEPT !.item = Blank] : b \in bodies}
    \cup {[b EXCEPT !.price = n] : b \in bodies, n \in {-5, -1, 0}}
    \cup {[b EXCEPT !.currency = c] : b \in bodies, c \in OddCurrencies}
    \cup {[b EXCEPT !.buyer = n] : b \in bodies, n \in {Blank, "nash"}}
    \cup {[b EXCEPT !.seller = n] : b \in bodies, n \in {Blank, "Nash"}}
    \cup {[b EXCEPT !.closed = FALSE] : b \in bodies}
    \cup {[b EXCEPT !.ladder = <<r>>] : b \in bodies,
             r \in {RawRung("both", "ask", 40), RawRung("buyer", "bid", 40),
                    RawRung("buyer", "accept", -1)}}

Answer(status, stop, body) == [status |-> status, stop |-> stop, body |-> body]

MCAnswers ==
         {Answer("success", "end_turn", b) :
             b \in {GoodBody} \cup Wrong({GoodBody}) \cup Wrong(Wrong({GoodBody}))}
    \cup {Answer("success", "refusal", GoodBody), Answer("overloaded", "end_turn", GoodBody)}
=============================================================================
