------------------------------- MODULE SellOut -------------------------------
(***************************************************************************)
(* The replacement rules in a shop that sells out: choose_alternative      *)
(* against the list sort it is written with, create_offer's use of a hint, *)
(* and the browser's copy of the rule against the shop's, for one line     *)
(* that is short while other orders take unit after unit.                  *)
(***************************************************************************)
EXTENDS DemoRules

CONSTANTS MaxUnits,    \* bound: units of a product and quantity of the line
          Likings      \* bound: the brands a customer may prefer

ASSUME SellOutAssumption == MaxUnits \in Nat

VARIABLES stock, original, quantity, paid, liked, hint
inputs == <<original, quantity, paid, liked, hint>>

Init ==
    /\ stock \in [Products -> 1..MaxUnits]
    /\ original \in Products /\ quantity \in 1..MaxUnits
    /\ paid \in {Price[original], OfferPrice(Price[original])}
    /\ liked \in Likings
    /\ hint \in Products \cup {NoProduct}

Sell(p) ==
    /\ stock[p] > 0
    /\ stock' = [stock EXCEPT ![p] = @ - 1]
    /\ UNCHANGED inputs

Next == \E p \in Products : Sell(p)

Spec == Init /\ [][Next]_<<stock, inputs>>

-----------------------------------------------------------------------------
Candidates == Eligible(Products, stock, original, quantity, paid)

\* The tuple eligible.sort is given as a key, and how Python compares tuples.
Key(p) == <<IF Brand[p] \in liked THEN 0 ELSE 1, OfferPrice(Price[p]), p>>
Lower(k, m) ==
    \E i \in 1..3 : k[i] < m[i] /\ \A j \in 1..(i - 1) : k[j] = m[j]

\* The list after the sort: every candidate once, in the order of its key.
Sorted(S) ==
    {s \in [1..Cardinality(S) -> S] :
        /\ \A p \in S : \E i \in DOMAIN s : s[i] = p
        /\ \A i \in DOMAIN s : \A j \in 1..(i - 1) : Lower(Key(s[j]), Key(s[i]))}

\* create_offer offers one product whenever there is a candidate: the head of the
\* candidates sorted by the key of choose_alternative, or the hint.  A hint can
\* reorder the candidates and nothing else: it neither makes a product eligible,
\* nor an offer impossible, nor counts when it is not eligible.
HintOnlyRanks ==
    LET chosen == Alternative(stock, original, quantity, paid, liked, hint)
    IN  IF Candidates = {} THEN chosen = {}
        ELSE \E list \in Sorted(Candidates) :
                chosen = {IF hint \in Candidates THEN hint ELSE list[1]}

\* The sample shop of the browser offers a replacement whenever the real shop does,
\* and at the same price, although it sorts by the price before the discount; with
\* equal discounted prices it may offer another product.
DemoOffersSamePrice ==
    LET sample == DemoAlternative(stock, original, quantity, paid)
        real == ChooseAlternative(Products, stock, original, quantity, paid, {})
    IN  /\ Cardinality(sample) = Cardinality(real)
        /\ \A p \in sample, q \in real : DemoPrice(Price[p]) = OfferPrice(Price[q])
=============================================================================
