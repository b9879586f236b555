-------------------------------- MODULE Rates --------------------------------
(***************************************************************************)
(* What a settlement instruction's amount is worth: parse_minor_units, and *)
(* the quote of the cross-rate source, asset/USD times USD/fiat, each leg  *)
(* from the first source of its list that answers.  The sources publish    *)
(* while a quote is under way; what they held before it began is anything. *)
(***************************************************************************)
EXTENDS Integers, Sequences

CONSTANTS
    CryptoLegs,  \* sequence of asset/USD sources, preferred first
    FiatLegs,    \* sequence of USD/fiat sources, preferred first
    Timed,       \* Pyth feeds: dated, and refused when old
    Unfiltered,  \* CoinGecko's USD leg: any number it publishes is an answer
    PricesOf,    \* source -> prices it may publish
    Unit,        \* what a product of two prices is divided by for minor units
    MaxMinor,    \* 1e30: the minor-unit domain
    MaxStale,    \* fx_pyth_max_stale_secs
    MaxU128,     \* largest amount in minor units
    MaxPublished, \* publications during one quote
    Never        \* age of a feed that has never published

Sources == {CryptoLegs[i] : i \in DOMAIN CryptoLegs} \cup {FiatLegs[i] : i \in DOMAIN FiatLegs}

ASSUME RatesAssumption ==
    /\ CryptoLegs \in Seq(Sources) \ {<<>>} /\ FiatLegs \in Seq(Sources) \ {<<>>}
    /\ Timed \subseteq Sources /\ Unfiltered \subseteq Sources
    /\ \A s \in Sources : PricesOf[s] \subseteq Nat
    /\ {Unit, MaxMinor, MaxStale, MaxU128, MaxPublished} \subseteq Nat /\ Unit > 0
    /\ Never \notin Nat

VARIABLES
    leg,       \* the leg being asked for, "none" outside a quote
    at,        \* which of its sources
    crypto,    \* the first leg's answer: source and price
    feed,      \* source -> what it holds: price and age
    published, \* publications so far
    quoted,    \* the quote: minor units per whole asset and its two sources
    during,    \* history: every source's feeds since the quote began
    unheard    \* history: sources whose request failed in this quote

ratesVars == <<leg, at, crypto, feed, published, quoted, during, unheard>>

NoAnswerYet == [source |-> "none", price |-> 0]
NoQuote == [rate |-> 0, sources |-> <<>>]
NoFeed == [s \in Sources |-> [price |-> 0, age |-> 0]]

Ages == 0..(MaxStale + 1) \cup {Never}

RatesTypeOK ==
    /\ leg \in {"none", "crypto", "fiat"}
    /\ at \in Nat
    /\ crypto.source \in Sources \cup {"none"} /\ crypto.price \in Nat
    /\ feed \in [Sources -> [price : Nat, age : Ages]]
    /\ published \in 0..MaxPublished
    /\ quoted.rate \in 0..MaxMinor

RatesInit ==
    /\ leg = "none" /\ at = 1 /\ crypto = NoAnswerYet
    /\ feed = NoFeed /\ published = 0 /\ quoted = NoQuote
    /\ during = {} /\ unheard = {}

-----------------------------------------------------------------------------
(* parse_minor_units.  An amount is its whole part and the characters     *)
(* after its point: digits, or characters that are none, told apart by    *)
(* what the parser and the cut make of them.                              *)

Blank == -1   \* no whole part
Junk == -2    \* a whole part that is no number
Plus == 10
Wide == 11    \* a character of two bytes
Wider == 12   \* one of three or four
Other == 13   \* one of one byte

Digit == 0..9

\* String::truncate(2) cuts bytes, and panics inside a character.
CutsInside(frac) ==
    \/ frac # <<>> /\ frac[1] = Wider
    \/ Len(frac) > 1 /\ frac[1] # Wide /\ frac[2] \in {Wide, Wider}

\* The two characters that are parsed: cut, or padded with zeros.
Cents(frac) == [i \in 1..2 |-> IF i <= Len(frac) THEN frac[i] ELSE 0]

MutantCentsValue(frac) ==
    LET c == IF Len(frac) = 1 THEN <<0, frac[1]>> ELSE Cents(frac)
    IN  IF {c[1], c[2]} \subseteq Digit THEN 10 * c[1] + c[2] ELSE -1

\* Rust's integers take a leading plus sign.
CentsValue(frac) ==
    LET c == Cents(frac)
    IN  IF {c[1], c[2]} \subseteq Digit THEN 10 * c[1] + c[2]
        ELSE IF c[1] = Plus /\ c[2] \in Digit THEN c[2] ELSE -1

MinorUnits(a) == (IF a.whole = Blank THEN 0 ELSE a.whole) * 100 + CentsValue(a.frac)

ParseMinorUnits(a) ==
    IF a.whole = Junk \/ (a.whole = Blank /\ a.frac = <<>>) THEN "refused"
    ELSE IF CutsInside(a.frac) THEN "panic"
    ELSE IF CentsValue(a.frac) < 0 \/ MinorUnits(a) > MaxU128 THEN "refused" ELSE "read"

-----------------------------------------------------------------------------
(* The quote.                                                              *)

Quoting == leg # "none"
Legs == IF leg = "crypto" THEN CryptoLegs ELSE FiatLegs

Source == Legs[at]

Heard(f) == {[source |-> s, price |-> f[s].price, age |-> f[s].age] : s \in Sources}

\* What a source may hold when a quote begins; a Pyth feed may have paused
\* long ago, and may not have begun.
Feeds(s) ==
    IF s \in Timed
    THEN [price : PricesOf[s], age : {0, MaxStale + 1}] \cup {[price |-> 0, age |-> Never]}
    ELSE [price : PricesOf[s], age : {0}]

StartQuote ==
    /\ leg' = "crypto" /\ at' = 1 /\ crypto' = NoAnswerYet /\ quoted' = NoQuote
    /\ feed' \in [Sources -> UNION {Feeds(s) : s \in Sources}]
    /\ \A s \in Sources : feed'[s] \in Feeds(s)
    /\ published' = 0 /\ unheard' = {}
    /\ during' = Heard(feed')

\* The Quote's end leaves nothing behind but its result.
EndQuote(result) ==
    /\ leg' = "none" /\ at' = 1 /\ crypto' = NoAnswerYet /\ feed' = NoFeed
    /\ published' = 0 /\ quoted' = result /\ during' = {} /\ unheard' = {}

MutantRecent(s, f) == f.age # Never

\* pyth_price: never published, or too long ago.
Recent(s, f) == s \in Timed => (f.age # Never /\ f.age <= MaxStale)

\* What crypto_leg_usd and fiat_leg_rate take for an answer.
Usable(s, f) == Recent(s, f) /\ (s \in Unfiltered \/ f.price > 0)

\* price_to_minor: half up.  The code multiplies doubles; the exact product
\* stands for theirs, which differs from it in the last bits, so that only at
\* a tie or at a limit may the code's result be a neighbour of this one.
PriceToMinor(price) == (2 * price + Unit) \div (2 * Unit)

Settleable(price) == price > 0 /\ price < MaxMinor * Unit /\ PriceToMinor(price) > 0

TakeCrypto ==
    /\ leg = "crypto" /\ Usable(Source, feed[Source])
    /\ crypto' = [source |-> Source, price |-> feed[Source].price]
    /\ leg' = "fiat" /\ at' = 1
    /\ UNCHANGED <<feed, published, quoted, during, unheard>>

TakeFiat ==
    /\ leg = "fiat" /\ Usable(Source, feed[Source])
    /\ LET price == crypto.price * feed[Source].price
       IN  EndQuote(IF Settleable(price)
                    THEN [rate |-> PriceToMinor(price), sources |-> <<crypto.source, Source>>]
                    ELSE NoQuote)

\* usd_per_asset and usd_to_fiat: the next source, or the quote is Rejected.
TryNext(failed) ==
    IF at < Len(Legs)
    THEN /\ at' = at + 1 /\ unheard' = unheard \cup failed
         /\ UNCHANGED <<leg, crypto, feed, published, quoted, during>>
    ELSE EndQuote(NoQuote)

RefuseAnswer == Quoting /\ ~Usable(Source, feed[Source]) /\ TryNext({})

\* No connection, a status other than 200, a body that cannot be read.
RequestFails == Quoting /\ TryNext({Source})

\* The world meanwhile.
PublishPrice ==
    /\ Quoting /\ published < MaxPublished
    /\ \E s \in Sources : \E p \in PricesOf[s] :
          feed' = [feed EXCEPT ![s] = [price |-> p, age |-> 0]]
    /\ published' = published + 1
    /\ during' = during \cup Heard(feed')
    /\ UNCHANGED <<leg, at, crypto, quoted, unheard>>

Older(age) == IF age \in 0..MaxStale THEN age + 1 ELSE age

GrowOld ==
    /\ Quoting
    /\ feed' = [s \in Sources |-> IF s \in Timed THEN [feed[s] EXCEPT !.age = Older(@)] ELSE feed[s]]
    /\ feed' # feed
    /\ during' = during \cup Heard(feed')
    /\ UNCHANGED <<leg, at, crypto, published, quoted, unheard>>

Read == TakeCrypto \/ TakeFiat \/ RefuseAnswer
Market == PublishPrice \/ GrowOld

-----------------------------------------------------------------------------
(* Properties.                                                             *)

Fresh(h) == h.source \in Timed => (h.age # Never /\ h.age <= MaxStale)

\* Why a source may be passed over: its request failed, or what it held at
\* some moment of the quote is no price.
Excused(s) ==
    s \in unheard \/ \E h \in during : h.source = s /\ (~Fresh(h) \/ h.price = 0)

\* A source later in the list stands in only for those before it that failed
\* in this very quote, in either leg.
PreferredFirst(named) ==
    \A n \in 1..2 :
        LET legs == IF n = 1 THEN CryptoLegs ELSE FiatLegs
        IN  \E j \in DOMAIN legs : legs[j] = named[n] /\ \A i \in 1..(j - 1) : Excused(legs[i])

\* A quote says where it comes from and is worth what it says: it is the
\* nearest whole number of minor units to the product of two prices that the
\* two sources it names held while the quote was made, the first of each leg
\* that had a price, a Pyth price that was not too old then, and it is never
\* zero.
QuoteIsBacked ==
    [][quoted' # NoQuote /\ Quoting =>
         /\ PreferredFirst(quoted'.sources)
         /\ quoted'.rate > 0
         /\ \E u, f \in {h \in during : Fresh(h)} :
               /\ quoted'.sources = <<u.source, f.source>>
               /\ LET off == 2 * Unit * quoted'.rate - 2 * u.price * f.price
                  IN  -Unit < off /\ off <= Unit]_ratesVars

=============================================================================
