------------------------------ MODULE DemoRules -------------------------------
(***************************************************************************)
(* The replacement rule of the browser's sample shop, written a second     *)
(* time in demo.js: 5% off, the cheapest by list price.                    *)
(***************************************************************************)
EXTENDS Policy

\* price - Math.floor(price * .05)
DemoPrice(price) == price - price \div 20

\* Mutant: the list price is compared with what the customer pays.
DemoCandidatesAtListPrice(stock, product, quantity, paid) ==
    {q \in Products : /\ q # product
                      /\ Group[q] = Group[product]
                      /\ stock[q] >= quantity
                      /\ Price[q] <= paid}

DemoCandidates(stock, product, quantity, paid) ==
    {q \in Products : /\ q # product
                      /\ Group[q] = Group[product]
                      /\ stock[q] >= quantity
                      /\ DemoPrice(Price[q]) <= paid}

\* The sort is stable: of two at one price the one first in the catalogue.
DemoAlternative(stock, product, quantity, paid) ==
    LET candidates == DemoCandidates(stock, product, quantity, paid)
    IN  {q \in candidates : \A r \in candidates \ {q} :
            Price[q] < Price[r] \/ (Price[q] = Price[r] /\ q < r)}
=============================================================================
