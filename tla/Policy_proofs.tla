---------------------------- MODULE Policy_proofs ----------------------------
(***************************************************************************)
(* The replacement rules, for every catalogue and whatever is in stock: one *)
(* product is offered whenever there is one to offer, the head of the sort  *)
(* or the hint, and the browser's copy of the rule offers at its price.     *)
(***************************************************************************)
EXTENDS SellOut, Sums_proofs

\* The discount is rounded down and never exceeds the price (policy.offer_price).
LEMMA PricesNat ==
    /\ \A a \in Nat : OfferPrice(a) \in 0..a
    /\ \A p \in Products : p \in Nat /\ Price[p] \in Nat /\ OfferPrice(Price[p]) \in Nat
<1>1. ASSUME NEW a \in Nat PROVE OfferPrice(a) \in 0..a
  <2>1. DiscountBps \in 0..1000
    BY CatalogAssumption
  <2>2. a * DiscountBps \in 0..a * 10000
    BY <2>1
  <2>3. (a * DiscountBps) \div 10000 \in 0..a
    BY <2>2
  <2> QED
    BY <2>3 DEF OfferPrice
<1>2. \A p \in Products : p \in Nat /\ Price[p] \in Nat
  BY CatalogAssumption
<1>3. ASSUME NEW p \in Products PROVE OfferPrice(Price[p]) \in Nat
  <2>1. Price[p] \in Nat
    BY <1>2
  <2>2. OfferPrice(Price[p]) \in 0..Price[p]
    BY <1>1, <2>1
  <2> QED
    BY <2>1, <2>2
<1> QED
  BY <1>1, <1>2, <1>3

\* The sort key orders the catalogue completely.
LEMMA BeforeOrders ==
    ASSUME NEW brands
    PROVE  /\ \A p \in Products : \A q \in Products :
                 p # q => (Before(p, q, brands) <=> ~Before(q, p, brands))
           /\ \A p \in Products : \A q \in Products : \A r \in Products :
                 Before(p, q, brands) /\ Before(q, r, brands) => Before(p, r, brands)
<1>1. \A p \in Products : p \in Nat /\ OfferPrice(Price[p]) \in Int
  BY PricesNat
<1> DEFINE price(p) == OfferPrice(Price[p])
           likes(p) == Brand[p] \in brands
<1>2. \A p, q : Before(p, q, brands) <=>
                  IF likes(p) # likes(q) THEN likes(p)
                  ELSE price(p) < price(q) \/ (price(p) = price(q) /\ p < q)
  BY DEF Before
<1>3. \A p \in Products : price(p) \in Int /\ p \in Int /\ likes(p) \in BOOLEAN
  BY <1>1
<1> HIDE DEF price, likes
<1> QED
  BY <1>2, <1>3

\* choose_alternative answers with one product whenever there is an eligible one, the
\* one that comes before all others in the order of its sort key.
THEOREM OneReplacement ==
    ASSUME NEW candidates \in SUBSET Products, NEW stk, NEW out, NEW qty,
           NEW bound, NEW brands
    PROVE  LET eligible == Eligible(candidates, stk, out, qty, bound)
               chosen == ChooseAlternative(candidates, stk, out, qty, bound, brands)
           IN  /\ eligible = {} => chosen = {}
               /\ eligible # {} => \E p \in eligible :
                     /\ chosen = {p}
                     /\ \A q \in eligible \ {p} : Before(p, q, brands)
<1> DEFINE eligible == Eligible(candidates, stk, out, qty, bound)
           chosen == ChooseAlternative(candidates, stk, out, qty, bound, brands)
           R == {pair \in Products \X Products : Before(pair[1], pair[2], brands)}
<1>1. chosen = {p \in eligible : \A q \in eligible \ {p} : Before(p, q, brands)}
  BY DEF ChooseAlternative
<1>2. eligible \subseteq Products /\ IsFiniteSet(eligible)
  <2>1. eligible \subseteq Products
    BY DEF Eligible
  <2> QED
    BY <2>1, CatalogAssumption, FS_Subset
<1> HIDE DEF eligible, chosen
<1>3. \A p \in Products : \A q \in Products : <<p, q>> \in R <=> Before(p, q, brands)
  OBVIOUS
<1>4. CASE eligible # {}
  <2>1. \E p \in eligible : \A q \in eligible \ {p} : <<p, q>> \in R
    <3>1. \A p \in eligible : \A q \in eligible : p # q => <<p, q>> \in R \/ <<q, p>> \in R
      BY <1>2, <1>3, BeforeOrders
    <3>2. \A p \in eligible : \A q \in eligible : \A r \in eligible :
             <<p, q>> \in R /\ <<q, r>> \in R => <<p, r>> \in R
      BY <1>2, <1>3, BeforeOrders
    <3> HIDE DEF R
    <3> QED
      BY <1>2, <1>4, <3>1, <3>2, LeastIs
  <2>2. PICK p \in eligible : \A q \in eligible \ {p} : Before(p, q, brands)
    BY <1>2, <1>3, <2>1
  <2>3. \A q \in eligible \ {p} : ~Before(q, p, brands)
    BY <1>2, <2>2, BeforeOrders
  <2>4. chosen = {p}
    BY <1>1, <2>2, <2>3
  <2> QED
    BY <1>4, <2>2, <2>4 DEF eligible, chosen
<1>5. CASE eligible = {}
  BY <1>1, <1>5 DEF eligible, chosen
<1> QED
  BY <1>4, <1>5

\* The hint of the model reorders the eligible products and does nothing else: it
\* is taken if and only if it is eligible itself, and there is an offer whenever there
\* is an eligible product (create_offer).
THEOREM HintRanks ==
    ASSUME NEW stk, NEW out, NEW qty, NEW bound, NEW brands, NEW guess
    PROVE  LET eligible == Eligible(Products, stk, out, qty, bound)
               chosen == Alternative(stk, out, qty, bound, brands, guess)
           IN  /\ guess \in eligible => chosen = {guess}
               /\ guess \notin eligible =>
                     chosen = ChooseAlternative(Products, stk, out, qty, bound, brands)
               /\ eligible = {} => chosen = {}
               /\ eligible # {} => \E p \in eligible : chosen = {p}
<1> DEFINE eligible == Eligible(Products, stk, out, qty, bound)
           chosen == Alternative(stk, out, qty, bound, brands, guess)
           validated == ChooseAlternative(Products \cap {guess}, stk, out, qty,
                                          bound, brands)
           best == ChooseAlternative(Products, stk, out, qty, bound, brands)
<1>1. Eligible(Products \cap {guess}, stk, out, qty, bound) = eligible \cap {guess}
  BY DEF Eligible
<1>2. validated = eligible \cap {guess}
  BY <1>1 DEF ChooseAlternative
<1>3. chosen = IF validated # {} THEN validated ELSE best
  BY DEF Alternative
<1>4. /\ eligible = {} => best = {}
      /\ eligible # {} => \E p \in eligible : best = {p}
  BY OneReplacement
<1> HIDE DEF eligible, chosen, validated, best
<1>5. /\ guess \in eligible => chosen = {guess}
      /\ guess \notin eligible => chosen = best
      /\ eligible = {} => chosen = {}
      /\ eligible # {} => \E p \in eligible : chosen = {p}
  BY <1>2, <1>3, <1>4
<1> QED
  BY <1>5 DEF eligible, chosen, best

-----------------------------------------------------------------------------
(***************************************************************************)
(* The sample shop and the real one offer at one price.                    *)
(***************************************************************************)
LEMMA FivePercent ==
    ASSUME DiscountBps = 500
    PROVE  /\ \A a \in Nat : DemoPrice(a) = OfferPrice(a) /\ DemoPrice(a) \in Nat
           /\ \A a \in Nat : \A b \in Nat : a <= b => DemoPrice(a) <= DemoPrice(b)
<1>1. \A a \in Nat : (a * 500) \div 10000 = a \div 20 /\ a \div 20 \in 0..a
  OBVIOUS
<1>2. \A a \in Nat : \A b \in Nat : a <= b => a - a \div 20 <= b - b \div 20
  OBVIOUS
<1> QED
  BY <1>1, <1>2 DEF DemoPrice, OfferPrice

\* Whatever is in stock, demo.js has a replacement to offer when policy.py at its 5%
\* has, one each, at the same price, though it sorts by list price and policy.py by
\* the discounted one; who prefers a brand is not asked by the sample shop.
THEOREM SamePriceOffered ==
    ASSUME DiscountBps = 500, NEW stk, NEW out, NEW qty, NEW bound
    PROVE  LET sample == DemoAlternative(stk, out, qty, bound)
               real == ChooseAlternative(Products, stk, out, qty, bound, {})
           IN  \/ sample = {} /\ real = {}
               \/ \E p, q \in Products :
                     /\ sample = {p} /\ real = {q}
                     /\ DemoPrice(Price[p]) = OfferPrice(Price[q])
<1> DEFINE E == DemoCandidates(stk, out, qty, bound)
           sample == DemoAlternative(stk, out, qty, bound)
           real == ChooseAlternative(Products, stk, out, qty, bound, {})
           Cheaper(p, q) == Price[p] < Price[q] \/ (Price[p] = Price[q] /\ p < q)
           R == {pair \in Products \X Products : Cheaper(pair[1], pair[2])}
           Q == {pair \in Products \X Products : Before(pair[1], pair[2], {})}
<1>1. \A p \in Products : Price[p] \in Nat /\ p \in Nat
  BY PricesNat
<1>2. E = Eligible(Products, stk, out, qty, bound)
  BY <1>1, FivePercent DEF DemoCandidates, Eligible
<1>3. /\ sample = {p \in E : \A q \in E \ {p} : Cheaper(p, q)}
      /\ real = {p \in E : \A q \in E \ {p} : Before(p, q, {})}
  BY <1>2 DEF DemoAlternative, ChooseAlternative
<1>4. E \subseteq Products /\ IsFiniteSet(E)
  <2>1. E \subseteq Products
    BY DEF DemoCandidates
  <2> QED
    BY <2>1, CatalogAssumption, FS_Subset
<1>5. \A p, q : Before(p, q, {}) <=>
                  \/ OfferPrice(Price[p]) < OfferPrice(Price[q])
                  \/ OfferPrice(Price[p]) = OfferPrice(Price[q]) /\ p < q
  BY DEF Before
<1> HIDE DEF E, sample, real
<1>6. \A p \in Products : OfferPrice(Price[p]) \in Nat
                          /\ OfferPrice(Price[p]) = DemoPrice(Price[p])
  BY <1>1, FivePercent
<1>7. /\ \A p \in Products : \A q \in Products : <<p, q>> \in R <=> Cheaper(p, q)
      /\ \A p \in Products : \A q \in Products : <<p, q>> \in Q <=> Before(p, q, {})
  OBVIOUS
<1>8. CASE E = {}
  BY <1>3, <1>8 DEF sample, real
<1>9. CASE E # {}
  <2>1. PICK p \in E : \A y \in E \ {p} : <<p, y>> \in R
    <3>1. \A x \in E : \A y \in E : x # y => <<x, y>> \in R \/ <<y, x>> \in R
      BY <1>1, <1>4, <1>7
    <3>2. \A x \in E : \A y \in E : \A z \in E :
             <<x, y>> \in R /\ <<y, z>> \in R => <<x, z>> \in R
      BY <1>1, <1>4, <1>7
    <3> HIDE DEF R
    <3> QED
      BY <1>4, <1>9, <3>1, <3>2, LeastIs
  <2>2. PICK q \in E : \A y \in E \ {q} : <<q, y>> \in Q
    <3>1. \A x \in E : \A y \in E : x # y => <<x, y>> \in Q \/ <<y, x>> \in Q
      BY <1>1, <1>4, <1>5, <1>6, <1>7
    <3>2. \A x \in E : \A y \in E : \A z \in E :
             <<x, y>> \in Q /\ <<y, z>> \in Q => <<x, z>> \in Q
      BY <1>1, <1>4, <1>5, <1>6, <1>7
    <3> HIDE DEF Q
    <3> QED
      BY <1>4, <1>9, <3>1, <3>2, LeastIs
  <2>3. p \in Products /\ q \in Products
    BY <1>4, <2>1, <2>2
  <2> HIDE DEF R, Q
  <2>a. \A y \in E \ {p} : Cheaper(p, y)
    BY <1>4, <1>7, <2>1, <2>3
  <2>b. \A y \in E \ {q} : Before(q, y, {})
    BY <1>4, <1>7, <2>2, <2>3
  <2>4. sample = {p}
    <3>1. \A y \in E \ {p} : Cheaper(p, y) /\ ~Cheaper(y, p)
      BY <1>1, <1>4, <2>a, <2>3
    <3> QED
      BY <1>3, <2>1, <3>1
  <2>5. real = {q}
    <3>1. \A y \in E \ {q} : Before(q, y, {}) /\ ~Before(y, q, {})
      BY <1>1, <1>4, <1>5, <1>6, <2>b, <2>3
    <3> QED
      BY <1>3, <2>2, <3>1
  <2>6. DemoPrice(Price[p]) = OfferPrice(Price[q])
    <3>1. CASE p = q
      BY <1>6, <2>3, <3>1
    <3>2. CASE p # q
      <4>1. Price[p] <= Price[q]
        BY <1>1, <2>a, <2>2, <2>3, <3>2
      <4>2. DemoPrice(Price[p]) <= DemoPrice(Price[q])
        BY <1>1, <2>3, <4>1, FivePercent
      <4>3. OfferPrice(Price[q]) <= OfferPrice(Price[p])
        BY <1>5, <1>6, <2>b, <2>1, <2>3, <3>2
      <4> QED
        BY <1>6, <2>3, <4>2, <4>3
    <3> QED
      BY <3>1, <3>2
  <2> QED
    BY <2>3, <2>4, <2>5, <2>6 DEF sample, real
<1> QED
  BY <1>8, <1>9

-----------------------------------------------------------------------------
(***************************************************************************)
(* The shop that sells out.                                                *)
(***************************************************************************)

\* Python's comparison of the key tuples is the order the rule is modelled with.
LEMMA KeysCompare ==
    \A p \in Products : \A q \in Products :
       Lower(Key(p), Key(q)) <=> Before(p, q, liked)
<1> SUFFICES ASSUME NEW p \in Products, NEW q \in Products
             PROVE  Lower(Key(p), Key(q)) <=> Before(p, q, liked)
  OBVIOUS
<1> DEFINE k == Key(p)
           m == Key(q)
<1>1. /\ k[1] \in Int /\ k[2] \in Int /\ k[3] \in Int
      /\ m[1] \in Int /\ m[2] \in Int /\ m[3] \in Int
  BY PricesNat DEF Key
<1>2. Before(p, q, liked) <=>
         \/ k[1] < m[1]
         \/ k[1] = m[1] /\ k[2] < m[2]
         \/ k[1] = m[1] /\ k[2] = m[2] /\ k[3] < m[3]
  BY PricesNat DEF Key, Before
<1> HIDE DEF k, m
<1>3. Lower(k, m) <=>
         \/ k[1] < m[1]
         \/ k[1] = m[1] /\ k[2] < m[2]
         \/ k[1] = m[1] /\ k[2] = m[2] /\ k[3] < m[3]
  <2>1. \A i \in 1..3 : i = 1 \/ i = 2 \/ i = 3
    OBVIOUS
  <2>2. /\ \A j \in 1..(1 - 1) : FALSE
        /\ \A j \in 1..(2 - 1) : j = 1
        /\ \A j \in 1..(3 - 1) : j = 1 \/ j = 2
    OBVIOUS
  <2> QED
    BY <2>1, <2>2 DEF Lower
<1> QED
  BY <1>2, <1>3 DEF k, m

\* The sort succeeds, and its head comes before every other candidate.
LEMMA SortedHead ==
    ASSUME Candidates # {}
    PROVE  \E list \in Sorted(Candidates) :
              /\ list[1] \in Candidates
              /\ \A q \in Candidates \ {list[1]} : Before(list[1], q, liked)
<1> DEFINE R == {pair \in Products \X Products : Before(pair[1], pair[2], liked)}
           n == Cardinality(Candidates)
<1>1. Candidates \subseteq Products /\ IsFiniteSet(Candidates)
  <2>1. Candidates \subseteq Products
    BY DEF Candidates, Eligible
  <2> QED
    BY <2>1, CatalogAssumption, FS_Subset
<1>2. \A p \in Products : \A q \in Products : <<p, q>> \in R <=> Before(p, q, liked)
  OBVIOUS
<1> HIDE DEF R
<1>3. PICK list \in [1..n -> Candidates] :
         /\ \A p \in Candidates : \E i \in 1..n : list[i] = p
         /\ \A i \in 1..n : \A j \in 1..(i - 1) : <<list[j], list[i]>> \in R
  <2>1. \A p \in Candidates : \A q \in Candidates : p # q => <<p, q>> \in R \/ <<q, p>> \in R
    BY <1>1, <1>2, BeforeOrders
  <2>2. \A p \in Candidates : \A q \in Candidates : \A r \in Candidates :
           <<p, q>> \in R /\ <<q, r>> \in R => <<p, r>> \in R
    BY <1>1, <1>2, BeforeOrders
  <2> QED
    BY <1>1, <2>1, <2>2, OrderedList
<1>4. n \in Nat /\ n # 0
  BY <1>1, FS_CardinalityType, FS_EmptySet
<1>5. \A i \in 1..n : \A j \in 1..(i - 1) : Before(list[j], list[i], liked)
  <2> SUFFICES ASSUME NEW i \in 1..n, NEW j \in 1..(i - 1)
               PROVE  Before(list[j], list[i], liked)
    OBVIOUS
  <2>1. j \in 1..n
    BY <1>4
  <2> QED
    BY <1>1, <1>2, <1>3, <2>1
<1>6. list \in Sorted(Candidates)
  <2>1. \A i \in 1..n : \A j \in 1..(i - 1) : Lower(Key(list[j]), Key(list[i]))
    <3> SUFFICES ASSUME NEW i \in 1..n, NEW j \in 1..(i - 1)
                 PROVE  Lower(Key(list[j]), Key(list[i]))
      OBVIOUS
    <3>1. j \in 1..n
      BY <1>4
    <3>2. list[j] \in Products /\ list[i] \in Products
      BY <1>1, <1>3, <3>1
    <3> QED
      BY <1>5, <3>2, KeysCompare
  <2> QED
    BY <1>3, <2>1 DEF Sorted
<1>7. list[1] \in Candidates
  BY <1>3, <1>4
<1>8. ASSUME NEW q \in Candidates \ {list[1]} PROVE Before(list[1], q, liked)
  <2>1. PICK i \in 1..n : list[i] = q
    BY <1>3
  <2>2. 1 \in 1..(i - 1)
    BY <1>4, <2>1
  <2> QED
    BY <1>5, <2>1, <2>2
<1> QED
  BY <1>6, <1>7, <1>8

\* For every catalogue, customer and hint, and whatever has been sold: the offer is
\* the hint if it is eligible, otherwise the head of the sorted candidates.
THEOREM HintsOnlyRank == Spec => []HintOnlyRanks
<1>1. HintOnlyRanks
  <2> DEFINE chosen == Alternative(stock, original, quantity, paid, liked, hint)
             best == ChooseAlternative(Products, stock, original, quantity, paid, liked)
  <2>1. /\ hint \in Candidates => chosen = {hint}
        /\ hint \notin Candidates => chosen = best
        /\ Candidates = {} => chosen = {}
    BY HintRanks DEF Candidates
  <2>2. CASE Candidates # {}
    <3>1. PICK list \in Sorted(Candidates) :
             /\ list[1] \in Candidates
             /\ \A q \in Candidates \ {list[1]} : Before(list[1], q, liked)
      BY <2>2, SortedHead
    <3>2. best = {p \in Candidates : \A q \in Candidates \ {p} : Before(p, q, liked)}
      BY DEF ChooseAlternative, Candidates
    <3>3. \A q \in Candidates \ {list[1]} : ~Before(q, list[1], liked)
      <4>1. Candidates \subseteq Products
        BY DEF Candidates, Eligible
      <4> QED
        BY <3>1, <4>1, BeforeOrders
    <3>4. best = {list[1]}
      BY <3>1, <3>2, <3>3
    <3> HIDE DEF chosen, best
    <3>5. chosen = {IF hint \in Candidates THEN hint ELSE list[1]}
      BY <2>1, <3>4
    <3> QED
      BY <2>2, <3>1, <3>5 DEF HintOnlyRanks, chosen
  <2>3. CASE Candidates = {}
    BY <2>1, <2>3 DEF HintOnlyRanks
  <2> QED
    BY <2>2, <2>3
<1> QED
  BY <1>1, PTL

\* For every catalogue, at the 5% the browser has built in: it offers whenever the
\* shop does, at the shop's price, whatever has been sold.
THEOREM SampleOffersSamePrice ==
    ASSUME DiscountBps = 500
    PROVE  Spec => []DemoOffersSamePrice
<1>1. DemoOffersSamePrice
  <2> DEFINE sample == DemoAlternative(stock, original, quantity, paid)
             real == ChooseAlternative(Products, stock, original, quantity, paid, {})
  <2>1. \/ sample = {} /\ real = {}
        \/ \E p, q \in Products : /\ sample = {p} /\ real = {q}
                                  /\ DemoPrice(Price[p]) = OfferPrice(Price[q])
    BY SamePriceOffered
  <2> HIDE DEF sample, real
  <2>2. Cardinality(sample) = Cardinality(real)
    BY <2>1, FS_Singleton
  <2>3. \A p \in sample : \A q \in real : DemoPrice(Price[p]) = OfferPrice(Price[q])
    BY <2>1
  <2> QED
    BY <2>2, <2>3 DEF DemoOffersSamePrice, sample, real
<1> QED
  BY <1>1, PTL
=============================================================================
