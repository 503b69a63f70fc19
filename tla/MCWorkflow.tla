----------------------------- MODULE MCWorkflow -----------------------------
(* The shops TLC checks: small catalogues in which every path is taken.    *)
EXTENDS Refinement, TLC

CONSTANTS o1, o2, w1, w2

SymWorkers == Permutations(Workers)

\* One order of three lines.  Of 1 nothing is left and 2 replaces it, its
\* price only just low enough once it is discounted; 3 is in stock; of 4 there
\* is one unit too few for a line of two and 5 replaces it at its own price.
OneOrder == {o1}
OneProducts == 1..5
OnePrice == <<100, 105, 50, 40, 42>>
OneGroup == <<"tea", "tea", "rice", "oil", "oil">>
OneBrand == <<"a", "b", "c", "d", "e">>
OneStock == <<0, 1, 1, 1, 2>>
OneOrderOf == <<o1, o1, o1>>
OneItem == <<1, 3, 4>>
OneQty == <<1, 1, 2>>
OneLiked == [o \in OneOrder |-> {}]

\* Two orders that compete for the last unit of every product: 2 is what the
\* second ordered and the first's favourite replacement, 4 can replace it for
\* either, 3 is in both and has no replacement.
TwoOrders == {o1, o2}
TwoProducts == 1..4
TwoPrice == <<100, 90, 50, 94>>
TwoGroup == <<"tea", "tea", "rice", "tea">>
TwoBrand == <<"a", "b", "c", "d">>
TwoStock == <<0, 1, 1, 1>>
TwoOrderOf == <<o1, o1, o2, o2>>
TwoItem == <<1, 3, 2, 3>>
TwoQty == <<1, 1, 1, 1>>
TwoLiked == [o \in TwoOrders |-> {"b"}]
=============================================================================
