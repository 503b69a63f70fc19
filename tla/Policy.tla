------------------------------- MODULE Policy -------------------------------
(***************************************************************************)
(* The replacement policy of app/policy.py: what a replacement costs and   *)
(* which product replaces one that is out of stock.  The catalogue is      *)
(* constant: nothing under app/ writes a product's price, group or brand;  *)
(* only its stock changes, and that is passed as an argument.              *)
(***************************************************************************)
EXTENDS Integers, FiniteSets

CONSTANTS Products,      \* product ids
          Price,         \* [Products -> paisa]
          Group,         \* substitution group of a product
          Brand,         \* brand of a product
          DiscountBps    \* settings.discount_bps

NoProduct == 0

ASSUME CatalogAssumption ==
    /\ Products \subseteq Nat \ {NoProduct}
    /\ IsFiniteSet(Products)
    /\ Price \in [Products -> Nat \ {0}]
    /\ DOMAIN Group = Products
    /\ DOMAIN Brand = Products
    /\ DiscountBps \in 0..1000

\* The discounted price; the discount itself is rounded down.
OfferPrice(price) == price - (price * DiscountBps) \div 10000

\* The hard constraints a replacement must satisfy.
Eligible(candidates, stock, original, quantity, paid) ==
    {p \in candidates : /\ p # original
                        /\ Group[p] = Group[original]
                        /\ stock[p] >= quantity
                        /\ OfferPrice(Price[p]) <= paid}

\* The sort key (brand not preferred, offer price, id), compared componentwise.
Before(p, q, liked) ==
    LET liking == Brand[p] \in liked
        cheaper == OfferPrice(Price[p]) < OfferPrice(Price[q])
        level == OfferPrice(Price[p]) = OfferPrice(Price[q])
    IN  IF liking # (Brand[q] \in liked)
        THEN liking
        ELSE cheaper \/ (level /\ p < q)

\* choose_alternative: the head of the sorted list as a set, {} for None.
ChooseAlternative(candidates, stock, original, quantity, paid, liked) ==
    LET eligible == Eligible(candidates, stock, original, quantity, paid)
    IN  {p \in eligible : \A q \in eligible \ {p} : Before(p, q, liked)}

\* Mutant: the hint of the model is taken as it is.
AlternativeUnvalidated(stock, original, quantity, paid, liked, hint) ==
    IF hint \in Products
    THEN {hint}
    ELSE ChooseAlternative(Products, stock, original, quantity, paid, liked)

\* create_offer's choice: a hint that passes the same test now wins, any
\* other answer of the model is ignored.
Alternative(stock, original, quantity, paid, liked, hint) ==
    LET validated == ChooseAlternative(Products \cap {hint}, stock, original,
                                       quantity, paid, liked)
    IN  IF validated # {}
        THEN validated
        ELSE ChooseAlternative(Products, stock, original, quantity, paid, liked)
=============================================================================
