------------------------- MODULE SalePostingProofs --------------------------
(***************************************************************************)
(* Safety of SalePosting, and that it implements SaleBooks, for every set  *)
(* of devices and products, every price, and whatever the carts hold.      *)
(***************************************************************************)
EXTENDS SalePosting, TLAPS, FiniteSetTheorems, SequenceTheorems, WellFoundedInduction

-----------------------------------------------------------------------------
(* Sums over finite sets, however large: each fact by a set of least size that would refute it. *)

\* Every set of numbers has a least one.
LEMMA LeastExists ==
  ASSUME NEW T \in SUBSET Nat, T # {}
  PROVE  \E x \in T : \A y \in T : x <= y
<1> DEFINE R == OpToRel(<, Nat)
<1>1. IsWellFoundedOn(R, Nat)
  BY NatLessThanWellFounded
<1>2. \E x \in T : \A y \in T : ~ (<<y, x>> \in R)
  <2> HIDE DEF R
  <2> QED BY <1>1, WFMin
<1>3. PICK x \in T : \A y \in T : ~ (<<y, x>> \in R)
  BY <1>2
<1>4. \A y \in T : <<y, x>> \in Nat \X Nat
  OBVIOUS
<1>5. \A y \in T : ~(y < x)
  BY <1>3, <1>4 DEF OpToRel
<1>6. \A y \in T : x <= y
  <2> HIDE DEF R
  <2> QED BY <1>5
<1> QED BY <1>6, Zenon

\* The element a sum takes out of a set next.
Pick(T) == CHOOSE x \in T : TRUE

\* g sums f over each subset of S.
Sums(f, S, g) ==
  g = [T \in SUBSET S |-> IF T = {} THEN 0 ELSE f[Pick(T)] + g[T \ {Pick(T)}]]

\* There is such a function, however large S is.
LEMMA SumDefined ==
  ASSUME NEW S, IsFiniteSet(S), NEW f, \A x \in S : f[x] \in Nat
  PROVE  \E g : Sums(f, S, g)
<1> DEFINE Upto(n) == {T \in SUBSET S : Cardinality(T) <= n}
           Step(g, T) == IF T = {} THEN 0 ELSE f[Pick(T)] + g[T \ {Pick(T)}]
           Good(n) == \E g \in [Upto(n) -> Nat] : \A T \in Upto(n) : g[T] = Step(g, T)
           Bad == {n \in Nat : ~Good(n)}
<1>1. \A T \in SUBSET S : /\ IsFiniteSet(T) /\ Cardinality(T) \in Nat
                          /\ Cardinality(T) <= Cardinality(S)
                          /\ T = {} <=> Cardinality(T) = 0
  BY FS_Subset, FS_CardinalityType, FS_EmptySet
<1>2. \A T \in SUBSET S : T # {} =>
         /\ Pick(T) \in S /\ T \ {Pick(T)} \in SUBSET S
         /\ Cardinality(T \ {Pick(T)}) = Cardinality(T) - 1
  <2> SUFFICES ASSUME NEW T \in SUBSET S, T # {}
               PROVE  /\ Pick(T) \in S /\ T \ {Pick(T)} \in SUBSET S
                      /\ Cardinality(T \ {Pick(T)}) = Cardinality(T) - 1
    OBVIOUS
  <2>1. Pick(T) \in T
    BY DEF Pick
  <2>2. Cardinality(T \ {Pick(T)}) = Cardinality(T) - 1
    BY <1>1, <2>1, FS_RemoveElement
  <2> QED BY <2>1, <2>2
<1>3. Good(0)
  <2> DEFINE g == [T \in Upto(0) |-> 0]
  <2>1. \A T \in Upto(0) : T = {}
    BY <1>1
  <2>2. g \in [Upto(0) -> Nat]
    OBVIOUS
  <2>3. \A T \in Upto(0) : g[T] = Step(g, T)
    BY <2>1
  <2> QED BY <2>2, <2>3
<1>4. ASSUME NEW n \in Nat, Good(n)
      PROVE  Good(n + 1)
  <2>1. PICK g \in [Upto(n) -> Nat] : \A T \in Upto(n) : g[T] = Step(g, T)
    BY <1>4
  <2> DEFINE h == [T \in Upto(n + 1) |-> IF T \in Upto(n) THEN g[T] ELSE Step(g, T)]
  <2>2. \A T \in Upto(n + 1) : T # {} => T \ {Pick(T)} \in Upto(n)
    BY <1>1, <1>2
  <2>3. \A T \in Upto(n + 1) : Step(g, T) \in Nat
    BY <2>2, <1>2
  <2>4. h \in [Upto(n + 1) -> Nat]
    <3> HIDE DEF Step, Upto
    <3> QED BY <2>3
  <2>5. \A T \in Upto(n + 1) : h[T] = Step(h, T)
    <3> SUFFICES ASSUME NEW T \in Upto(n + 1)
                 PROVE  h[T] = Step(h, T)
      OBVIOUS
    <3>1. h[T] = Step(g, T)
      BY <2>1
    <3>2. T # {} => T \ {Pick(T)} \in Upto(n) /\ T \ {Pick(T)} \in Upto(n + 1)
      BY <2>2, <1>1
    <3>3. Step(h, T) = Step(g, T)
      <4> HIDE DEF Upto
      <4> QED BY <3>2
    <3> QED BY <3>1, <3>3
  <2> HIDE DEF h, Upto, Step
  <2> QED BY <2>4, <2>5
<1>5. Bad = {}
  <2> SUFFICES ASSUME Bad # {} PROVE FALSE
    OBVIOUS
  <2> HIDE DEF Good
  <2>1. PICK n \in Bad : \A m \in Bad : n <= m
    <3>1. Bad \in SUBSET Nat
      OBVIOUS
    <3> HIDE DEF Bad
    <3> QED BY <3>1, LeastExists
  <2>2. n # 0
    BY <1>3
  <2>3. n - 1 \in Nat /\ n - 1 \notin Bad
    BY <2>1, <2>2
  <2>4. Good(n - 1)
    BY <2>3
  <2>5. Good((n - 1) + 1)
    BY <2>3, <2>4, <1>4
  <2>6. (n - 1) + 1 = n
    BY <2>3
  <2> QED BY <2>1, <2>5, <2>6
<1>6. Good(Cardinality(S))
  <2> HIDE DEF Good
  <2> QED BY <1>5, FS_CardinalityType
<1>7. Upto(Cardinality(S)) = SUBSET S
  BY <1>1
<1>8. PICK g \in [SUBSET S -> Nat] : \A T \in SUBSET S : g[T] = Step(g, T)
  <2> HIDE DEF Upto, Step
  <2> QED BY <1>6, <1>7
<1>9. g = [T \in SUBSET S |-> Step(g, T)]
  <2> HIDE DEF Step
  <2> QED BY <1>8
<1> QED BY <1>9 DEF Sums

\* The sum of f over a finite set, and the function over its subsets that it is read from.
Sum(f, S) == MapThenSumSet(LAMBDA x : f[x], S)

Partial(f, S) == CHOOSE g : Sums(f, S, g)

LEMMA PartialIs ==
  ASSUME NEW S, IsFiniteSet(S), NEW f, \A x \in S : f[x] \in Nat
  PROVE  /\ Sum(f, S) = Partial(f, S)[S]
         /\ Partial(f, S)[{}] = 0
         /\ \A T \in SUBSET S : T # {} =>
              Pick(T) \in T /\ Partial(f, S)[T] = f[Pick(T)] + Partial(f, S)[T \ {Pick(T)}]
<1> DEFINE g == Partial(f, S)
<1>1. Sum(f, S) = g[S]
  BY DEF Sum, MapThenSumSet, MapThenFoldSet, Partial, Sums, Pick
<1>2. Sums(f, S, g)
  BY SumDefined DEF Partial
<1>3. \A T \in SUBSET S : T # {} => Pick(T) \in T
  BY DEF Pick
<1> HIDE DEF g
<1>4. g[{}] = 0
  BY <1>2 DEF Sums
<1>5. \A T \in SUBSET S : T # {} => g[T] = f[Pick(T)] + g[T \ {Pick(T)}]
  BY <1>2 DEF Sums
<1> QED BY <1>1, <1>3, <1>4, <1>5, Zenon DEF g

\* What is summed over a subset does not depend on the set it is a subset of.
LEMMA PartialSame ==
  ASSUME NEW S, IsFiniteSet(S), NEW f, \A x \in S : f[x] \in Nat, NEW U \in SUBSET S
  PROVE  Partial(f, S)[U] = Sum(f, U) /\ Sum(f, U) \in Nat
<1> DEFINE g == Partial(f, S)
           h == Partial(f, U)
           Same(T) == g[T] = h[T] /\ h[T] \in Nat
           Bad == {n \in Nat : \E T \in SUBSET U : Cardinality(T) = n /\ ~Same(T)}
<1>1. IsFiniteSet(U) /\ \A x \in U : f[x] \in Nat
  BY FS_Subset
<1>2. /\ g[{}] = 0
      /\ \A T \in SUBSET S : T # {} => Pick(T) \in T /\ g[T] = f[Pick(T)] + g[T \ {Pick(T)}]
  BY PartialIs
<1>3. /\ h[{}] = 0 /\ Sum(f, U) = h[U]
      /\ \A T \in SUBSET U : T # {} => Pick(T) \in T /\ h[T] = f[Pick(T)] + h[T \ {Pick(T)}]
  BY <1>1, PartialIs
<1> HIDE DEF g, h
<1>4. ASSUME Bad # {} PROVE FALSE
  <2>1. PICK n \in Bad : \A m \in Bad : n <= m
    <3>1. Bad \in SUBSET Nat
      OBVIOUS
    <3> HIDE DEF Bad
    <3> QED BY <1>4, <3>1, LeastExists
  <2>2. PICK T \in SUBSET U : Cardinality(T) = n /\ ~Same(T)
    OBVIOUS
  <2>3. T # {}
    <3>1. Same({})
      BY <1>2, <1>3
    <3> HIDE DEF Same
    <3> QED BY <2>2, <3>1
  <2>4. IsFiniteSet(T) /\ n \in Nat
    BY <1>1, FS_Subset
  <2>5. Pick(T) \in T /\ f[Pick(T)] \in Nat
    BY <1>1, <1>3, <2>3
  <2>6. Cardinality(T \ {Pick(T)}) = n - 1 /\ n - 1 \in Nat
    <3>1. Cardinality(T \ {Pick(T)}) = n - 1 /\ IsFiniteSet(T \ {Pick(T)})
      BY <2>2, <2>4, <2>5, FS_RemoveElement
    <3> QED BY <3>1, FS_CardinalityType
  <2>7. n - 1 \notin Bad
    BY <2>1, <2>4
  <2>8. Same(T \ {Pick(T)})
    BY <2>6, <2>7
  <2>9. g[T] = f[Pick(T)] + g[T \ {Pick(T)}] /\ h[T] = f[Pick(T)] + h[T \ {Pick(T)}]
    BY <1>2, <1>3, <2>3
  <2> QED BY <2>2, <2>5, <2>8, <2>9
<1>5. Same(U)
  <2>1. Cardinality(U) \in Nat
    BY <1>1, FS_CardinalityType
  <2> QED BY <1>4, <2>1
<1> QED BY <1>3, <1>5 DEF g

\* A sum over a set that is not empty: an element and the sum over the others.
LEMMA SumPick ==
  ASSUME NEW S, IsFiniteSet(S), NEW f, \A x \in S : f[x] \in Nat
  PROVE  /\ Sum(f, S) \in Nat
         /\ S = {} => Sum(f, S) = 0
         /\ S # {} => Pick(S) \in S /\ Sum(f, S) = f[Pick(S)] + Sum(f, S \ {Pick(S)})
<1>1. Sum(f, S) \in Nat
  BY PartialSame
<1>2. S = {} => Sum(f, S) = 0
  BY PartialIs
<1>3. ASSUME S # {}
      PROVE  Pick(S) \in S /\ Sum(f, S) = f[Pick(S)] + Sum(f, S \ {Pick(S)})
  <2>1. Pick(S) \in S /\ Sum(f, S) = f[Pick(S)] + Partial(f, S)[S \ {Pick(S)}]
    BY <1>3, PartialIs
  <2>2. Partial(f, S)[S \ {Pick(S)}] = Sum(f, S \ {Pick(S)})
    BY PartialSame
  <2> QED BY <2>1, <2>2
<1> QED BY <1>1, <1>2, <1>3

\* Any element may be taken out of a sum.
LEMMA SumRemove ==
  ASSUME NEW S, IsFiniteSet(S), NEW f, \A x \in S : f[x] \in Nat, NEW y \in S
  PROVE  Sum(f, S) = f[y] + Sum(f, S \ {y})
<1> DEFINE Splits(T) == \A z \in T : Sum(f, T) = f[z] + Sum(f, T \ {z})
           Bad == {n \in Nat : \E T \in SUBSET S : Cardinality(T) = n /\ ~Splits(T)}
<1>1. \A T \in SUBSET S : /\ IsFiniteSet(T) /\ Cardinality(T) \in Nat
                          /\ Sum(f, T) \in Nat
                          /\ T # {} => Pick(T) \in T /\ Sum(f, T) = f[Pick(T)] + Sum(f, T \ {Pick(T)})
  <2> SUFFICES ASSUME NEW T \in SUBSET S
               PROVE  /\ IsFiniteSet(T) /\ Cardinality(T) \in Nat
                      /\ Sum(f, T) \in Nat
                      /\ T # {} => Pick(T) \in T /\ Sum(f, T) = f[Pick(T)] + Sum(f, T \ {Pick(T)})
    OBVIOUS
  <2>1. IsFiniteSet(T) /\ Cardinality(T) \in Nat
    BY FS_Subset, FS_CardinalityType
  <2>2. \A x \in T : f[x] \in Nat
    OBVIOUS
  <2> QED BY <2>1, <2>2, SumPick
<1>2. ASSUME Bad # {} PROVE FALSE
  <2>1. PICK n \in Bad : \A m \in Bad : n <= m
    <3>1. Bad \in SUBSET Nat
      OBVIOUS
    <3> HIDE DEF Bad
    <3> QED BY <1>2, <3>1, LeastExists
  <2>2. PICK T \in SUBSET S : Cardinality(T) = n /\ ~Splits(T)
    OBVIOUS
  <2>3. PICK z \in T : Sum(f, T) # f[z] + Sum(f, T \ {z})
    BY <2>2
  <2> DEFINE x == Pick(T)
  <2>4. x \in T /\ Sum(f, T) = f[x] + Sum(f, T \ {x})
    BY <1>1
  <2> HIDE DEF x
  <2>5. x # z
    BY <2>3, <2>4
  <2>6. \A w \in T : Splits(T \ {w})
    <3> SUFFICES ASSUME NEW w \in T PROVE Splits(T \ {w})
      OBVIOUS
    <3>1. IsFiniteSet(T) /\ T \ {w} \in SUBSET S
      BY <1>1
    <3>2. Cardinality(T \ {w}) = n - 1
      BY <2>2, <3>1, FS_RemoveElement
    <3>3. n - 1 \in Nat
      BY <1>1, <3>1, <3>2
    <3>4. n - 1 \notin Bad
      BY <2>1, <3>3
    <3> HIDE DEF Splits
    <3> QED BY <3>1, <3>2, <3>3, <3>4
  <2>7. Sum(f, T \ {x}) = f[z] + Sum(f, (T \ {x}) \ {z})
    BY <2>4, <2>5, <2>6
  <2>8. Sum(f, T \ {z}) = f[x] + Sum(f, (T \ {z}) \ {x})
    BY <2>4, <2>5, <2>6
  <2> DEFINE rest == (T \ {z}) \ {x}
  <2>9. (T \ {x}) \ {z} = rest /\ rest \in SUBSET S
    OBVIOUS
  <2>10. f[x] \in Nat /\ f[z] \in Nat /\ Sum(f, rest) \in Nat
    BY <1>1, <2>4, <2>9
  <2>11. Sum(f, T) = f[x] + (f[z] + Sum(f, rest)) /\ Sum(f, T \ {z}) = f[x] + Sum(f, rest)
    BY <2>4, <2>7, <2>8, <2>9, Zenon
  <2> HIDE DEF rest
  <2>12. f[x] + (f[z] + Sum(f, rest)) = f[z] + (f[x] + Sum(f, rest))
    BY <2>10
  <2> QED BY <2>3, <2>11, <2>12, Zenon
<1>3. Splits(S)
  <2>1. Cardinality(S) \in Nat
    BY FS_CardinalityType
  <2> HIDE DEF Splits
  <2> QED BY <1>2, <2>1
<1> QED BY <1>3

\* A sum is of the values on the set alone.
LEMMA SumSame ==
  ASSUME NEW S, IsFiniteSet(S), NEW f, NEW g, \A x \in S : f[x] \in Nat /\ g[x] = f[x]
  PROVE  Sum(g, S) = Sum(f, S)
<1> DEFINE Bad == {n \in Nat : \E T \in SUBSET S : Cardinality(T) = n /\ Sum(g, T) # Sum(f, T)}
<1>1. ASSUME Bad # {} PROVE FALSE
  <2>1. PICK n \in Bad : \A m \in Bad : n <= m
    <3>1. Bad \in SUBSET Nat
      OBVIOUS
    <3> HIDE DEF Bad
    <3> QED BY <1>1, <3>1, LeastExists
  <2>2. PICK T \in SUBSET S : Cardinality(T) = n /\ Sum(g, T) # Sum(f, T)
    OBVIOUS
  <2>3. IsFiniteSet(T) /\ \A x \in T : f[x] \in Nat /\ g[x] \in Nat /\ g[x] = f[x]
    BY FS_Subset
  <2>4. T # {}
    BY <2>2, <2>3, SumPick
  <2>5. /\ Pick(T) \in T
        /\ Sum(f, T) = f[Pick(T)] + Sum(f, T \ {Pick(T)})
        /\ Sum(g, T) = g[Pick(T)] + Sum(g, T \ {Pick(T)})
    BY <2>3, <2>4, SumPick
  <2>6. Cardinality(T \ {Pick(T)}) = n - 1 /\ n - 1 \in Nat
    <3>1. Cardinality(T \ {Pick(T)}) = n - 1 /\ IsFiniteSet(T \ {Pick(T)})
      BY <2>2, <2>3, <2>5, FS_RemoveElement
    <3> QED BY <3>1, FS_CardinalityType
  <2>7. n - 1 \notin Bad /\ n \in Nat
    BY <2>1
  <2>8. Sum(g, T \ {Pick(T)}) = Sum(f, T \ {Pick(T)})
    BY <2>6, <2>7
  <2> QED BY <2>2, <2>3, <2>5, <2>8
<1>2. Cardinality(S) \in Nat
  BY FS_CardinalityType
<1> QED BY <1>1, <1>2

USE SalePostingAssumption

-----------------------------------------------------------------------------
(* The inductive invariant. *)

Outcome == {"accepted", "rejected"}

Shape ==
  /\ counter \in [Devices -> Nat]
  /\ sales \in [Devices -> Seq(Sale)]
  /\ outcome \in [Devices -> Seq(Outcome)]
  /\ invoices \in [Devices -> SUBSET (1..MaxSales)]
  /\ lastSeq \in [Devices -> 0..MaxSales]
  /\ missing \in [Devices -> SUBSET (1..MaxSales)]
  /\ levels \in [Products -> Int]
  /\ posting \in [Devices -> Posting]

\* The device numbers its sales from 1, and the server handles them in order.
Numbered ==
  \A d \in Devices :
    /\ counter[d] = Len(sales[d]) /\ Len(sales[d]) <= MaxSales
    /\ \A i \in 1..Len(sales[d]) : sales[d][i].number = i
    /\ Len(outcome[d]) <= Len(sales[d])

\* The numbers after the last one seen were rejected, and so were the ones said to be missing.
Accounted ==
  \A d \in Devices :
    /\ lastSeq[d] <= Len(outcome[d])
    /\ invoices[d] \cup missing[d] = 1..lastSeq[d]
    /\ invoices[d] \cap missing[d] = {}
    /\ \A n \in missing[d] : outcome[d][n] = "rejected"
    /\ \A n \in (lastSeq[d] + 1)..Len(outcome[d]) : outcome[d][n] = "rejected"

\* A transaction has moved some of the products of its sale, the first ones, each from what is
\* committed of it.
Halfway(d) ==
  /\ Waiting(d) /\ Recordable(Pushed(d))
  /\ posting[d].gap = GapOf(lastSeq[d], Pushed(d).number)
  /\ posting[d].todo \cup posting[d].moved = ProductsOf(Pushed(d).lines)
  /\ \A p \in posting[d].moved : /\ posting[d].level[p] = levels[p] - 1
                                 /\ \A q \in posting[d].todo : p < q

RowsLocked ==
  \A d, e \in Devices : \A p \in Products :
    p \in posting[d].moved /\ p \in posting[e].moved => d = e

IInv ==
  /\ Shape /\ Numbered /\ Accounted
  /\ \A d \in Devices : Posts(d) => Halfway(d)
  /\ RowsLocked

-----------------------------------------------------------------------------
(* Products and sequences. *)

\* A set of products that is not empty has a greatest one: no set of products greater than one of
\* them is within another's for ever.
LEMMA GreatestExists ==
  ASSUME NEW T \in SUBSET Products, T # {}
  PROVE  \E x \in T : \A y \in T : y <= x
<1> DEFINE Above(p) == {q \in Products : q > p}
           R == StrictSubsetOrdering(Products)
           A == {Above(p) : p \in T}
<1>1. IsWellFoundedOn(R, SUBSET Products)
  BY FS_StrictSubsetOrderingWellFounded, FS_FiniteSubsetsOfFinite, ZenonT(40)
<1>2. A \subseteq SUBSET Products /\ A # {}
  <2>1. \A p \in T : Above(p) \in SUBSET Products
    OBVIOUS
  <2>2. PICK p \in T : TRUE
    OBVIOUS
  <2>3. Above(p) \in A
    BY <2>2
  <2> HIDE DEF Above
  <2> QED BY <2>1, <2>3
<1>3. PICK a \in A : \A b \in A : <<b, a>> \notin R
  <2> HIDE DEF A, R
  <2> QED BY <1>1, <1>2, WFMin
<1>4. PICK x \in T : a = Above(x)
  OBVIOUS
<1>5. ASSUME NEW y \in T, ~(y <= x)
      PROVE  FALSE
  <2>1. x \in Nat /\ y \in Nat /\ y > x /\ y \in Products
    BY <1>5
  <2>2. Above(y) \subseteq a /\ y \in a /\ y \notin Above(y)
    BY <1>4, <2>1
  <2>3. Above(y) \in A /\ Above(y) \in SUBSET Products /\ a \in SUBSET Products
    BY <1>2
  <2>4. <<Above(y), a>> \in R
    BY <2>2, <2>3 DEF StrictSubsetOrdering
  <2> QED BY <1>3, <2>3, <2>4
<1> QED BY <1>4, <1>5

\* The next product of a transaction is the first that it has still to move.
LEMMA NextIs ==
  ASSUME Shape, NEW d \in Devices, posting[d].todo # {}
  PROVE  /\ NextProduct(d) \in posting[d].todo /\ NextProduct(d) \in Products
         /\ \A q \in posting[d].todo : NextProduct(d) <= q
<1>1. posting[d].todo \in SUBSET Products
  BY DEF Shape, Posting
<1>2. \E p \in posting[d].todo : \A q \in posting[d].todo : p <= q
  BY <1>1, LeastExists
<1> QED BY <1>1, <1>2 DEF NextProduct

\* The operation the server handles next carries the number after the outcomes.
LEMMA PushedIs ==
  ASSUME Shape, Numbered, NEW d \in Devices, Waiting(d)
  PROVE  /\ Pushed(d) \in Sale
         /\ Pushed(d).number = Len(outcome[d]) + 1
         /\ Len(outcome[d]) + 1 \in 1..MaxSales /\ Len(outcome[d]) + 1 \in 1..Len(sales[d])
         /\ ProductsOf(Pushed(d).lines) \in SUBSET Products
         /\ ProductsOf(Pushed(d).lines) # {}
<1>1. sales[d] \in Seq(Sale) /\ outcome[d] \in Seq(Outcome)
  BY DEF Shape
<1>2. Len(outcome[d]) + 1 \in 1..MaxSales /\ Len(outcome[d]) + 1 \in 1..Len(sales[d])
  BY <1>1 DEF Waiting, Numbered
<1>3. Pushed(d) \in Sale
  BY <1>1, <1>2 DEF Pushed
<1>4. Pushed(d).number = Len(outcome[d]) + 1
  BY <1>2 DEF Pushed, Numbered
<1>5. Pushed(d).lines \in Seq(Products) /\ Pushed(d).lines # <<>>
  BY <1>3 DEF Sale
<1>6. \A i \in DOMAIN Pushed(d).lines : Pushed(d).lines[i] \in Products
  BY <1>5
<1>7. 1 \in DOMAIN Pushed(d).lines
  BY <1>5
<1>8. ProductsOf(Pushed(d).lines) \in SUBSET Products
  BY <1>6 DEF ProductsOf
<1>9. Pushed(d).lines[1] \in ProductsOf(Pushed(d).lines)
  BY <1>7 DEF ProductsOf
<1> QED BY <1>2, <1>3, <1>4, <1>8, <1>9

\* A transaction that does not run holds nothing.
LEMMA IdleIs ==
  /\ Idle \in Posting
  /\ Idle.todo = {} /\ Idle.moved = {} /\ Idle.gap = {}
  BY DEF Idle, Posting

\* The invariant holds before anything happened.
LEMMA InitInv == Init => IInv
<1> SUFFICES ASSUME Init PROVE IInv
  OBVIOUS
<1> USE DEF Init
<1>1. Shape
  BY IdleIs DEF Shape
<1>2. Numbered /\ Accounted
  BY DEF Numbered, Accounted
<1>3. \A d \in Devices : ~Posts(d) /\ posting[d].moved = {}
  BY IdleIs DEF Posts
<1> QED BY <1>1, <1>2, <1>3 DEF IInv, RowsLocked

-----------------------------------------------------------------------------
(* The steps of the model. *)

\* A sale of a device takes its next number; what the server has is as it was.
LEMMA SellStep ==
  ASSUME IInv, NEW d \in Devices, Sell(d)
  PROVE  IInv'
<1> USE DEF IInv
<1>1. PICK lines \in Carts :
        sales' = [sales EXCEPT ![d] = Append(@, [number |-> NextNumber(d), lines |-> lines])]
  BY DEF Sell
<1> DEFINE sale == [number |-> NextNumber(d), lines |-> lines]
<1>2. /\ Len(sales[d]) < MaxSales
      /\ counter' = [counter EXCEPT ![d] = NextNumber(d)]
      /\ UNCHANGED <<committed, posting>>
  BY DEF Sell
<1>3. /\ sales \in [Devices -> Seq(Sale)] /\ counter \in [Devices -> Nat]
      /\ \A e \in Devices : outcome[e] \in Seq(Outcome) /\ Len(outcome[e]) \in Nat
      /\ \A e \in Devices : Len(sales[e]) \in Nat
  BY DEF Shape
<1>4. counter[d] = Len(sales[d]) /\ NextNumber(d) = Len(sales[d]) + 1
  BY DEF Numbered, NextNumber
<1>5. sale \in Sale
  BY <1>2, <1>3, <1>4 DEF Sale
<1> HIDE DEF sale
<1>6. /\ Append(sales[d], sale) \in Seq(Sale)
      /\ Len(Append(sales[d], sale)) = Len(sales[d]) + 1
      /\ \A i \in 1..Len(sales[d]) : Append(sales[d], sale)[i] = sales[d][i]
      /\ Append(sales[d], sale)[Len(sales[d]) + 1] = sale
  BY <1>3, <1>5, AppendProperties
<1>7. /\ sales' \in [Devices -> Seq(Sale)]
      /\ sales'[d] = Append(sales[d], sale)
      /\ \A e \in Devices : e # d => sales'[e] = sales[e]
  BY <1>1, <1>3, <1>6 DEF sale
<1>8. /\ counter' \in [Devices -> Nat]
      /\ \A e \in Devices : counter'[e] = IF e = d THEN Len(sales[d]) + 1 ELSE counter[e]
  BY <1>2, <1>3, <1>4
<1>9. /\ outcome' = outcome /\ invoices' = invoices /\ lastSeq' = lastSeq /\ missing' = missing
      /\ levels' = levels /\ posting' = posting
  BY <1>2 DEF committed
<1>10. Shape'
  BY <1>7, <1>8, <1>9 DEF Shape
<1>11. \A e \in Devices :
         /\ Len(sales[e]) <= Len(sales'[e])
         /\ \A i \in 1..Len(sales[e]) : sales'[e][i] = sales[e][i]
  <2> TAKE e \in Devices
  <2>1. CASE e = d
    <3>1. Len(sales[d]) <= Len(sales'[d])
      BY <1>3, <1>6, <1>7
    <3>2. \A i \in 1..Len(sales[d]) : sales'[d][i] = sales[d][i]
      BY <1>6, <1>7
    <3> QED BY <2>1, <3>1, <3>2
  <2>2. CASE e # d
    BY <1>3, <1>7, <2>2
  <2> QED BY <2>1, <2>2
<1>12. Numbered'
  <2> SUFFICES ASSUME NEW e \in Devices
              PROVE  /\ counter'[e] = Len(sales'[e]) /\ Len(sales'[e]) <= MaxSales
                     /\ \A i \in 1..Len(sales'[e]) : sales'[e][i].number = i
                     /\ Len(outcome[e]) <= Len(sales'[e])
    BY <1>9 DEF Numbered
  <2>1. CASE e # d
    BY <1>7, <1>8, <2>1 DEF Numbered
  <2>2. CASE e = d
    <3>1. Len(sales'[d]) = Len(sales[d]) + 1
      BY <1>6, <1>7
    <3>2. sale.number = Len(sales[d]) + 1
      BY <1>4 DEF sale
    <3>3. \A i \in 1..(Len(sales[d]) + 1) : sales'[d][i].number = i
      <4> TAKE i \in 1..(Len(sales[d]) + 1)
      <4>1. i \in 1..Len(sales[d]) \/ i = Len(sales[d]) + 1
        BY <1>3
      <4> QED BY <1>6, <1>7, <3>2, <4>1 DEF Numbered
    <3> QED BY <1>2, <1>3, <1>8, <2>2, <3>1, <3>3 DEF Numbered
  <2> QED BY <2>1, <2>2
<1>13. Accounted'
  BY <1>9 DEF Accounted
<1>14. \A e \in Devices : Posts(e)' => Halfway(e)'
  <2> SUFFICES ASSUME NEW e \in Devices, Posts(e) PROVE Halfway(e)'
    BY <1>9 DEF Posts
  <2>1. Halfway(e) /\ Len(outcome[e]) + 1 \in 1..Len(sales[e])
    BY PushedIs DEF Halfway
  <2>2. Waiting(e)' /\ Pushed(e)' = Pushed(e)
    BY <1>3, <1>7, <1>9, <1>11, <2>1 DEF Halfway, Waiting, Pushed, Shape
  <2> QED BY <1>9, <2>1, <2>2 DEF Halfway, Recordable
<1>15. RowsLocked'
  BY <1>9 DEF RowsLocked
<1> QED BY <1>10, <1>12, <1>13, <1>14, <1>15

\* A step of the transaction of d alone keeps the invariant if it keeps what is said of d.
LEMMA PostingStep ==
  ASSUME IInv, NEW d \in Devices, NEW x \in Posting,
         posting' = [posting EXCEPT ![d] = x],
         UNCHANGED <<deviceVars, committed>>,
         Posts(d)' => Halfway(d)',
         \A e \in Devices \ {d}, p \in Products : p \in x.moved => p \notin posting[e].moved
  PROVE  IInv'
<1> USE DEF IInv
<1>1. posting \in [Devices -> Posting]
  BY DEF Shape
<1>2. /\ posting' \in [Devices -> Posting] /\ posting'[d] = x
      /\ \A e \in Devices : e # d => posting'[e] = posting[e]
  BY <1>1
<1>3. /\ counter' = counter /\ sales' = sales /\ outcome' = outcome /\ invoices' = invoices
      /\ lastSeq' = lastSeq /\ missing' = missing /\ levels' = levels
  BY DEF deviceVars, committed
<1>4. Shape'
  BY <1>2, <1>3 DEF Shape
<1>5. Numbered' /\ Accounted'
  BY <1>3 DEF Numbered, Accounted
<1>6. \A e \in Devices : Posts(e)' => Halfway(e)'
  <2> SUFFICES ASSUME NEW e \in Devices, e # d, Posts(e) PROVE Halfway(e)'
    BY <1>2 DEF Posts
  <2> QED BY <1>2, <1>3 DEF Halfway, Waiting, Recordable, Pushed
<1>7. RowsLocked'
  BY <1>2 DEF RowsLocked
<1> QED BY <1>4, <1>5, <1>6, <1>7

\* A transaction starts with all of the sale's products to move.
LEMMA StartStep ==
  ASSUME IInv, NEW d \in Devices, StartPosting(d)
  PROVE  IInv'
<1> USE DEF IInv
<1> DEFINE x == [Idle EXCEPT !.todo = ProductsOf(Pushed(d).lines),
                             !.gap = GapOf(lastSeq[d], Pushed(d).number)]
<1>1. /\ Waiting(d) /\ Recordable(Pushed(d))
      /\ posting' = [posting EXCEPT ![d] = x]
      /\ UNCHANGED <<deviceVars, committed>>
  BY DEF StartPosting
<1>2. /\ Pushed(d).number \in 1..MaxSales /\ ProductsOf(Pushed(d).lines) \in SUBSET Products
  BY <1>1, PushedIs
<1>3. lastSeq[d] \in Nat
  BY DEF Shape
<1>4. GapOf(lastSeq[d], Pushed(d).number) \in SUBSET (1..MaxSales)
  BY <1>2, <1>3 DEF GapOf
<1>5. /\ x \in Posting
      /\ x.todo = ProductsOf(Pushed(d).lines) /\ x.moved = {}
      /\ x.gap = GapOf(lastSeq[d], Pushed(d).number)
  BY <1>2, <1>4, IdleIs DEF Posting
<1> HIDE DEF x
<1>6. /\ sales' = sales /\ outcome' = outcome /\ levels' = levels /\ lastSeq' = lastSeq
      /\ posting'[d] = x
  BY <1>1 DEF deviceVars, committed, Shape
<1>7. Halfway(d)'
  BY <1>1, <1>5, <1>6 DEF Halfway, Waiting, Recordable, Pushed
<1> QED BY <1>1, <1>5, <1>7, PostingStep

\* A transaction moves the next product, which no other holds: it reads what is committed.
LEMMA MoveStep ==
  ASSUME IInv, NEW d \in Devices, Move(d)
  PROVE  IInv'
<1> USE DEF IInv
<1> DEFINE p == NextProduct(d)
           level == [posting[d].level EXCEPT ![p] = levels[p] - 1]
           x == [posting[d] EXCEPT !.todo = posting[d].todo \ {p},
                                   !.moved = posting[d].moved \cup {p},
                                   !.level = level]
<1>1. /\ posting[d].todo # {} /\ RowFree(p)
      /\ posting' = [posting EXCEPT ![d] = x]
      /\ UNCHANGED <<deviceVars, committed>>
  BY DEF Move
<1>2. posting[d] \in Posting /\ levels \in [Products -> Int]
  BY DEF Shape
<1>3. p \in posting[d].todo /\ p \in Products /\ \A q \in posting[d].todo : p <= q
  BY <1>1, NextIs
<1> HIDE DEF p
<1>3a. level \in [Products -> Int]
  BY <1>2, <1>3 DEF Posting
<1> HIDE DEF level
<1>4. /\ x \in Posting
      /\ x.todo = posting[d].todo \ {p} /\ x.moved = posting[d].moved \cup {p}
      /\ x.gap = posting[d].gap
      /\ x.level = level
  BY <1>2, <1>3, <1>3a DEF Posting
<1>5. /\ x.level[p] = levels[p] - 1
      /\ \A q \in Products : q # p => x.level[q] = posting[d].level[q]
  BY <1>2, <1>3, <1>4 DEF Posting, level
<1> HIDE DEF x
<1>6. Posts(d) /\ Halfway(d)
  BY <1>1, IdleIs DEF Posts
<1>7. /\ sales' = sales /\ outcome' = outcome /\ levels' = levels /\ lastSeq' = lastSeq
      /\ posting'[d] = x
  BY <1>1 DEF deviceVars, committed, Shape
<1>8. \A q \in x.moved : /\ x.level[q] = levels[q] - 1
                         /\ \A r \in x.todo : q < r
  <2>1. \A q \in posting[d].moved : q \in Products /\ q # p /\ q < p
    <3> TAKE q \in posting[d].moved
    <3>1. q \in Products /\ q < p
      BY <1>2, <1>3, <1>6 DEF Halfway, Posting
    <3>2. q \in Nat /\ p \in Nat
      BY <1>3, <3>1
    <3> QED BY <3>1, <3>2
  <2>2. \A r \in x.todo : r \in posting[d].todo /\ p < r
    BY <1>2, <1>3, <1>4 DEF Posting
  <2> QED BY <1>4, <1>5, <1>6, <2>1, <2>2, ZenonT(40) DEF Halfway
<1>9. Halfway(d)'
  <2>1. x.todo \cup x.moved = posting[d].todo \cup posting[d].moved
    BY <1>3, <1>4
  <2> QED BY <1>4, <1>6, <1>7, <1>8, <2>1 DEF Halfway, Waiting, Recordable, Pushed
<1>10. \A e \in Devices \ {d}, q \in Products : q \in x.moved => q \notin posting[e].moved
  <2> TAKE e \in Devices \ {d}, q \in Products
  <2>1. CASE q = p
    BY <1>1, <2>1 DEF RowFree
  <2>2. CASE q # p
    BY <1>4, <2>2 DEF RowsLocked
  <2> QED BY <2>1, <2>2
<1> QED BY <1>1, <1>4, <1>9, <1>10, PostingStep

\* A transaction that fails leaves nothing.
LEMMA FailStep ==
  ASSUME IInv, NEW d \in Devices, Fail(d)
  PROVE  IInv'
<1>1. posting' = [posting EXCEPT ![d] = Idle] /\ UNCHANGED <<deviceVars, committed>>
  BY DEF Fail
<1>2. ~Posts(d)'
  BY <1>1 DEF IInv, Shape, Posts
<1> QED BY <1>1, <1>2, IdleIs, PostingStep

\* An outcome is recorded for the next sale.
LEMMA Answered ==
  ASSUME Shape, Numbered, NEW d \in Devices, Waiting(d), NEW how \in Outcome,
         outcome' = [outcome EXCEPT ![d] = Append(@, how)],
         UNCHANGED deviceVars
  PROVE  /\ outcome' \in [Devices -> Seq(Outcome)]
         /\ Len(outcome'[d]) = Len(outcome[d]) + 1
         /\ \A i \in 1..Len(outcome[d]) : outcome'[d][i] = outcome[d][i]
         /\ outcome'[d][Len(outcome[d]) + 1] = how
         /\ \A e \in Devices : e # d => outcome'[e] = outcome[e]
         /\ Numbered'
<1>1. outcome \in [Devices -> Seq(Outcome)] /\ outcome[d] \in Seq(Outcome)
  BY DEF Shape
<1>2. /\ Append(outcome[d], how) \in Seq(Outcome)
      /\ Len(Append(outcome[d], how)) = Len(outcome[d]) + 1
      /\ \A i \in 1..Len(outcome[d]) : Append(outcome[d], how)[i] = outcome[d][i]
      /\ Append(outcome[d], how)[Len(outcome[d]) + 1] = how
  BY <1>1, AppendProperties
<1>3. /\ outcome' \in [Devices -> Seq(Outcome)]
      /\ outcome'[d] = Append(outcome[d], how)
      /\ \A e \in Devices : e # d => outcome'[e] = outcome[e]
  BY <1>1, <1>2
<1>4. sales' = sales /\ counter' = counter
  BY DEF deviceVars
<1>5. Len(outcome'[d]) <= Len(sales[d])
  <2>1. Len(outcome[d]) + 1 <= Len(sales[d])
    BY PushedIs
  <2> QED BY <1>2, <1>3, <2>1
<1>6. Numbered'
  <2> SUFFICES ASSUME NEW e \in Devices PROVE Len(outcome'[e]) <= Len(sales[e])
    BY <1>4 DEF Numbered
  <2> QED BY <1>3, <1>5 DEF Numbered
<1> QED BY <1>2, <1>3, <1>6

\* A sale is refused: its number was not seen.
LEMMA RejectStep ==
  ASSUME IInv, NEW d \in Devices, Reject(d)
  PROVE  IInv'
<1> USE DEF IInv
<1>1. /\ Waiting(d) /\ ~Posts(d)
      /\ outcome' = [outcome EXCEPT ![d] = Append(@, "rejected")]
      /\ UNCHANGED deviceVars
      /\ invoices' = invoices /\ lastSeq' = lastSeq /\ missing' = missing
      /\ levels' = levels /\ posting' = posting
  BY DEF Reject
<1>2. /\ outcome' \in [Devices -> Seq(Outcome)]
      /\ Len(outcome'[d]) = Len(outcome[d]) + 1
      /\ \A i \in 1..Len(outcome[d]) : outcome'[d][i] = outcome[d][i]
      /\ outcome'[d][Len(outcome[d]) + 1] = "rejected"
      /\ \A e \in Devices : e # d => outcome'[e] = outcome[e]
      /\ Numbered'
  BY <1>1, Answered DEF Outcome
<1>3. sales' = sales /\ counter' = counter
  BY <1>1 DEF deviceVars
<1>4. Shape'
  BY <1>1, <1>2, <1>3 DEF Shape
<1>5. Len(outcome[d]) \in Nat /\ lastSeq[d] \in Nat /\ missing[d] \in SUBSET (1..MaxSales)
  BY DEF Shape
<1>6. Accounted'
  <2> SUFFICES ASSUME NEW e \in Devices
              PROVE  /\ lastSeq[e] <= Len(outcome'[e])
                     /\ \A n \in missing[e] : outcome'[e][n] = "rejected"
                     /\ \A n \in (lastSeq[e] + 1)..Len(outcome'[e]) : outcome'[e][n] = "rejected"
    BY <1>1 DEF Accounted
  <2>1. CASE e # d
    BY <1>2, <2>1 DEF Accounted
  <2>2. lastSeq[d] <= Len(outcome[d]) + 1
    BY <1>5 DEF Accounted
  <2>3. \A n \in missing[d] : outcome'[d][n] = "rejected"
    <3> TAKE n \in missing[d]
    <3>1. n \in 1..Len(outcome[d])
      BY <1>5 DEF Accounted
    <3> QED BY <1>2, <3>1 DEF Accounted
  <2>4. \A n \in (lastSeq[d] + 1)..(Len(outcome[d]) + 1) : outcome'[d][n] = "rejected"
    <3> TAKE n \in (lastSeq[d] + 1)..(Len(outcome[d]) + 1)
    <3>1. n = Len(outcome[d]) + 1 \/ n \in (lastSeq[d] + 1)..Len(outcome[d])
      BY <1>5
    <3>2. n \in (lastSeq[d] + 1)..Len(outcome[d]) => n \in 1..Len(outcome[d])
      BY <1>5
    <3> QED BY <1>2, <3>1, <3>2 DEF Accounted
  <2> QED BY <1>2, <2>1, <2>2, <2>3, <2>4
<1>7. \A e \in Devices : Posts(e)' => Halfway(e)'
  <2> SUFFICES ASSUME NEW e \in Devices, Posts(e), e # d PROVE Halfway(e)'
    BY <1>1 DEF Posts
  <2> QED BY <1>1, <1>2, <1>3 DEF Halfway, Waiting, Recordable, Pushed
<1>8. RowsLocked'
  BY <1>1 DEF RowsLocked
<1> QED BY <1>2, <1>4, <1>6, <1>7, <1>8

\* The levels after a transaction: one less of what it sold, and nobody else's are touched.
LEMMA CommitLevels ==
  ASSUME IInv, NEW d \in Devices, Commit(d)
  PROVE  /\ posting[d].moved = ProductsOf(Pushed(d).lines)
         /\ levels' = [p \in Products |-> IF p \in ProductsOf(Pushed(d).lines) THEN levels[p] - 1
                                                                              ELSE levels[p]]
         /\ levels' \in [Products -> Int]
<1>1. Halfway(d) /\ posting[d].todo = {}
  BY DEF IInv, Commit
<1>2. posting[d].moved = ProductsOf(Pushed(d).lines)
  BY <1>1 DEF Halfway
<1>3. levels' = [p \in Products |-> IF p \in posting[d].moved THEN posting[d].level[p]
                                                              ELSE levels[p]]
  BY DEF Commit
<1>4. \A p \in posting[d].moved : posting[d].level[p] = levels[p] - 1
  BY <1>1 DEF Halfway
<1>5. levels \in [Products -> Int]
  BY DEF IInv, Shape
<1> QED BY <1>2, <1>3, <1>4, <1>5

\* A sale is recorded: its number is the last one seen, and the ones before it were refused.
LEMMA CommitStep ==
  ASSUME IInv, NEW d \in Devices, Commit(d)
  PROVE  IInv'
<1> USE DEF IInv
<1> DEFINE n == Pushed(d).number
<1>1. /\ Posts(d) /\ posting[d].todo = {}
      /\ outcome' = [outcome EXCEPT ![d] = Append(@, "accepted")]
      /\ invoices' = [invoices EXCEPT ![d] = @ \cup {n}]
      /\ lastSeq' = [lastSeq EXCEPT ![d] = SeenAfter(d, n)]
      /\ missing' = [missing EXCEPT ![d] = @ \cup posting[d].gap]
      /\ posting' = [posting EXCEPT ![d] = Idle]
      /\ UNCHANGED deviceVars
  BY DEF Commit
<1>2. Halfway(d) /\ Waiting(d)
  BY <1>1 DEF Halfway
<1>3. /\ outcome' \in [Devices -> Seq(Outcome)]
      /\ Len(outcome'[d]) = Len(outcome[d]) + 1
      /\ \A i \in 1..Len(outcome[d]) : outcome'[d][i] = outcome[d][i]
      /\ outcome'[d][Len(outcome[d]) + 1] = "accepted"
      /\ \A e \in Devices : e # d => outcome'[e] = outcome[e]
      /\ Numbered'
  BY <1>1, <1>2, Answered DEF Outcome
<1>4. sales' = sales /\ counter' = counter
  BY <1>1 DEF deviceVars
<1>5. /\ n = Len(outcome[d]) + 1 /\ n \in 1..MaxSales
      /\ Len(outcome[d]) \in Nat /\ lastSeq[d] \in Nat /\ lastSeq[d] <= Len(outcome[d])
      /\ missing[d] \in SUBSET (1..MaxSales) /\ invoices[d] \in SUBSET (1..MaxSales)
  BY <1>2, PushedIs DEF Shape, Accounted
<1> HIDE DEF n
<1>6. SeenAfter(d, n) = n
  BY <1>5 DEF SeenAfter
<1>7. posting[d].gap = (lastSeq[d] + 1)..(n - 1) /\ posting[d].gap \in SUBSET (1..MaxSales)
  BY <1>2, <1>5 DEF Halfway, GapOf, n
<1>8. /\ invoices' \in [Devices -> SUBSET (1..MaxSales)] /\ invoices'[d] = invoices[d] \cup {n}
      /\ missing' \in [Devices -> SUBSET (1..MaxSales)]
      /\ missing'[d] = missing[d] \cup posting[d].gap
      /\ lastSeq' \in [Devices -> 0..MaxSales] /\ lastSeq'[d] = n
      /\ posting' \in [Devices -> Posting] /\ posting'[d] = Idle
      /\ \A e \in Devices : e # d => /\ invoices'[e] = invoices[e] /\ missing'[e] = missing[e]
                                     /\ lastSeq'[e] = lastSeq[e] /\ posting'[e] = posting[e]
  BY <1>1, <1>5, <1>6, <1>7, IdleIs DEF Shape
<1>9. Shape'
  BY <1>3, <1>4, <1>8, CommitLevels DEF Shape
<1>10. Accounted'
  <2>1. \A e \in Devices : e # d =>
          /\ lastSeq'[e] <= Len(outcome'[e])
          /\ invoices'[e] \cup missing'[e] = 1..lastSeq'[e]
          /\ invoices'[e] \cap missing'[e] = {}
          /\ \A k \in missing'[e] : outcome'[e][k] = "rejected"
          /\ \A k \in (lastSeq'[e] + 1)..Len(outcome'[e]) : outcome'[e][k] = "rejected"
    <3> SUFFICES ASSUME NEW e \in Devices, e # d
                PROVE  /\ lastSeq'[e] <= Len(outcome'[e])
                       /\ invoices'[e] \cup missing'[e] = 1..lastSeq'[e]
                       /\ invoices'[e] \cap missing'[e] = {}
                       /\ \A k \in missing'[e] : outcome'[e][k] = "rejected"
                       /\ \A k \in (lastSeq'[e] + 1)..Len(outcome'[e]) :
                            outcome'[e][k] = "rejected"
      OBVIOUS
    <3>1. /\ lastSeq'[e] = lastSeq[e] /\ outcome'[e] = outcome[e]
          /\ invoices'[e] = invoices[e] /\ missing'[e] = missing[e]
      BY <1>3, <1>8
    <3> QED BY <3>1 DEF Accounted
  <2>2. lastSeq'[d] = n /\ Len(outcome'[d]) = n
    BY <1>3, <1>5, <1>8
  <2>3. invoices'[d] \cup missing'[d] = 1..n
    <3>1. invoices[d] \cup missing[d] = 1..lastSeq[d]
      BY DEF Accounted
    <3>2. 1..lastSeq[d] \cup ((lastSeq[d] + 1)..(n - 1)) \cup {n} = 1..n
      BY <1>5
    <3> QED BY <1>7, <1>8, <3>1, <3>2
  <2>4. invoices'[d] \cap missing'[d] = {}
    <3>1. \A k \in invoices[d] \cup missing[d] : k \in 1..lastSeq[d]
      BY DEF Accounted
    <3>2. n \notin missing[d]
      BY <1>5, <3>1
    <3>3. invoices[d] \cap ((lastSeq[d] + 1)..(n - 1)) = {}
      BY <1>5, <3>1
    <3>4. n \notin (lastSeq[d] + 1)..(n - 1)
      BY <1>5
    <3> QED BY <1>7, <1>8, <3>2, <3>3, <3>4 DEF Accounted
  <2>5. \A k \in missing'[d] : outcome'[d][k] = "rejected"
    <3> TAKE k \in missing'[d]
    <3>1. k \in missing[d] \/ k \in (lastSeq[d] + 1)..Len(outcome[d])
      BY <1>5, <1>7, <1>8
    <3>2. k \in 1..Len(outcome[d]) /\ outcome[d][k] = "rejected"
      BY <1>5, <3>1 DEF Accounted
    <3> QED BY <1>3, <3>2
  <2>6. \A k \in (n + 1)..n : FALSE
    BY <1>5
  <2>7. n <= n
    BY <1>5
  <2> QED BY <2>1, <2>2, <2>3, <2>4, <2>5, <2>6, <2>7 DEF Accounted
<1>11. \A e \in Devices : Posts(e)' => Halfway(e)'
  <2> SUFFICES ASSUME NEW e \in Devices, Posts(e), e # d PROVE Halfway(e)'
    BY <1>8 DEF Posts
  <2>1. \A p \in posting[e].moved : levels'[p] = levels[p]
    <3> TAKE p \in posting[e].moved
    <3>1. p \in Products
      BY DEF Shape, Posting
    <3>2. p \notin posting[d].moved
      BY <3>1 DEF RowsLocked
    <3> QED BY <3>1, <3>2, CommitLevels
  <2>2. Halfway(e) /\ posting'[e] = posting[e] /\ outcome'[e] = outcome[e] /\ lastSeq'[e] = lastSeq[e]
    BY <1>3, <1>8
  <2> QED BY <1>4, <2>1, <2>2 DEF Halfway, Waiting, Recordable, Pushed
<1>12. RowsLocked'
  BY <1>8, IdleIs DEF RowsLocked
<1> QED BY <1>3, <1>9, <1>10, <1>11, <1>12

-----------------------------------------------------------------------------
(* The invariants. *)

\* The invariant is inductive.
LEMMA Invariance == Spec => []IInv
<1>1. ASSUME IInv, Next PROVE IInv'
  BY <1>1, SellStep, StartStep, MoveStep, CommitStep, RejectStep, FailStep DEF Next
<1>2. ASSUME IInv, UNCHANGED vars PROVE IInv'
  BY <1>2 DEF vars, deviceVars, committed, IInv, Shape, Numbered, Accounted, RowsLocked, Posts,
       Halfway, Waiting, Recordable, Pushed
<1> QED BY InitInv, <1>1, <1>2, PTL DEF Spec

\* The server's view of the numbers of a device accounts for each of them (numbering.ts,
\* trackDocumentNumber).
THEOREM EveryNumberAccounted == Spec => []NumbersAccounted
<1>1. IInv => NumbersAccounted
  <2> SUFFICES ASSUME IInv, NEW d \in Devices
              PROVE  /\ invoices[d] \cup missing[d] = 1..lastSeq[d]
                     /\ invoices[d] \cap missing[d] = {}
                     /\ missing[d] \subseteq RejectedNumbers(d)
    BY DEF NumbersAccounted
  <2> USE DEF IInv
  <2>1. missing[d] \subseteq RejectedNumbers(d)
    <3> SUFFICES ASSUME NEW n \in missing[d] PROVE n \in RejectedNumbers(d)
      OBVIOUS
    <3>1. /\ outcome[d] \in Seq(Outcome) /\ sales[d] \in Seq(Sale)
          /\ lastSeq[d] \in Nat /\ missing[d] \subseteq 1..MaxSales
      BY DEF Shape
    <3>2. n \in 1..lastSeq[d]
      BY DEF Accounted
    <3>3. n \in 1..Len(outcome[d]) /\ n \in 1..Len(sales[d])
      BY <3>1, <3>2 DEF Accounted, Numbered
    <3>4. n \in DOMAIN outcome[d] /\ outcome[d][n] = "rejected" /\ sales[d][n].number = n
      BY <3>1, <3>3 DEF Accounted, Numbered
    <3> QED BY <3>4 DEF RejectedNumbers
  <2> QED BY <2>1 DEF Accounted
<1> QED BY <1>1, Invariance, PTL

\* Of the documents being posted one can go on: the one whose next product is the greatest is not
\* waited for by itself, and whoever holds that product has a greater one still to move, or none
\* (stock.ts, moveStock).
THEOREM NoDeadlock == Spec => []SomePostingMoves
<1>1. IInv => SomePostingMoves
  <2> SUFFICES ASSUME IInv, NEW c \in Devices, Posts(c),
                      \A d \in Devices :
                        Posts(d) => posting[d].todo # {} /\ ~RowFree(NextProduct(d))
              PROVE  FALSE
    BY DEF SomePostingMoves
  <2> USE DEF IInv
  <2> DEFINE T == {NextProduct(d) : d \in {e \in Devices : Posts(e)}}
  <2>1. T \in SUBSET Products /\ T # {}
    <3>1. \A d \in Devices : Posts(d) => NextProduct(d) \in Products
      BY NextIs
    <3>2. NextProduct(c) \in T
      OBVIOUS
    <3> QED BY <3>1, <3>2
  <2>2. PICK x \in T : \A y \in T : y <= x
    <3> HIDE DEF T
    <3> QED BY <2>1, GreatestExists
  <2>3. PICK d \in Devices : Posts(d) /\ x = NextProduct(d)
    BY <2>2
  <2>4. PICK e \in Devices : x \in posting[e].moved
    BY <2>3 DEF RowFree
  <2>5. Posts(e) /\ NextProduct(e) \in T
    BY <2>4, IdleIs DEF Posts
  <2>6. x < NextProduct(e)
    <3>1. Halfway(e) /\ NextProduct(e) \in posting[e].todo
      BY <2>5, NextIs
    <3> QED BY <2>4, <3>1 DEF Halfway
  <2>7. x \in Nat /\ NextProduct(e) \in Nat
    BY <2>1, <2>2, <2>5
  <2> HIDE DEF T
  <2>8. NextProduct(e) <= x
    BY <2>2, <2>5
  <2> QED BY <2>6, <2>7, <2>8
<1> QED BY <1>1, Invariance, PTL

-----------------------------------------------------------------------------
(* The books. *)

\* What the books know of the sales of a device.
Made == [d \in Devices |-> [i \in DOMAIN sales[d] |-> sales[d][i].lines]]

\* The sales of a device in the books are as many as the device's.
LEMMA MadeIs ==
  ASSUME Shape, NEW d \in Devices
  PROVE  /\ Made[d] \in Seq(Carts) /\ Len(Made[d]) = Len(sales[d])
         /\ \A i \in 1..Len(sales[d]) : Made[d][i] = sales[d][i].lines
<1>1. sales[d] \in Seq(Sale) /\ DOMAIN sales[d] = 1..Len(sales[d]) /\ Len(sales[d]) \in Nat
  BY DEF Shape
<1>2. Made[d] = [i \in 1..Len(sales[d]) |-> sales[d][i].lines]
  BY <1>1 DEF Made
<1>3. \A i \in 1..Len(sales[d]) : sales[d][i].lines \in Carts
  <2>1. \A i \in 1..Len(sales[d]) : sales[d][i] \in Sale
    BY <1>1
  <2> QED BY <2>1 DEF Sale
<1> QED BY <1>1, <1>2, <1>3

\* A device's next sale in the books is the operation the server handles next.
LEMMA DueIs ==
  ASSUME Shape, Numbered, NEW d \in Devices, Waiting(d)
  PROVE  /\ Len(outcome[d]) < Len(Made[d])
         /\ Made[d][Len(outcome[d]) + 1] = Pushed(d).lines
  BY MadeIs, PushedIs DEF Waiting, Pushed

\* The handlers implement the books: a sale is made, entered whole with its commit, or refused
\* with its rejection; what a transaction does before its commit changes no book
\* (invoices.ts, stock.ts, journal.ts).
THEOREM SalesEnterWhole == Spec => PostsWhole
<1>1. Init => Books!Init
  <2> SUFFICES ASSUME Init PROVE Books!Init
    OBVIOUS
  <2>1. Made = [d \in Devices |-> <<>>]
    BY DEF Init, Made
  <2> QED BY <2>1 DEF Init, Books!Init, Made
<1>2. ASSUME IInv, NEW d \in Devices, Sell(d)
      PROVE  Books!Make(d)
  <2> USE <1>2 DEF IInv
  <2>1. PICK lines \in Carts :
          sales' = [sales EXCEPT ![d] = Append(@, [number |-> NextNumber(d), lines |-> lines])]
    BY <1>2 DEF Sell
  <2> DEFINE sale == [number |-> NextNumber(d), lines |-> lines]
  <2>2. /\ Len(sales[d]) < MaxSales
        /\ outcome' = outcome /\ levels' = levels /\ debit' = debit /\ credit' = credit
    BY <1>2 DEF Sell, committed
  <2>3. Shape'
    BY <1>2, SellStep
  <2>4. sales \in [Devices -> Seq(Sale)] /\ sales[d] \in Seq(Sale)
    BY DEF Shape
  <2>5. sale \in Sale /\ sale.lines = lines
    <3>1. NextNumber(d) = Len(sales[d]) + 1
      BY DEF Numbered, NextNumber
    <3> QED BY <2>2, <2>4, <3>1 DEF Sale
  <2> HIDE DEF sale
  <2>6. /\ sales'[d] = Append(sales[d], sale)
        /\ \A e \in Devices : e # d => sales'[e] = sales[e]
    BY <2>1, <2>4 DEF sale
  <2>7. /\ Len(sales'[d]) = Len(sales[d]) + 1
        /\ \A i \in 1..Len(sales[d]) : sales'[d][i] = sales[d][i]
        /\ sales'[d][Len(sales[d]) + 1] = sale
    BY <2>4, <2>5, <2>6, AppendProperties
  <2>8. /\ Made[d] \in Seq(Carts) /\ Len(Made[d]) = Len(sales[d])
        /\ \A i \in 1..Len(sales[d]) : Made[d][i] = sales[d][i].lines
    BY MadeIs
  <2>9. /\ Made'[d] \in Seq(Carts) /\ Len(Made'[d]) = Len(sales'[d])
        /\ \A i \in 1..Len(sales'[d]) : Made'[d][i] = sales'[d][i].lines
    <3>1. \A e \in Devices : sales'[e] \in Seq(Sale)
      BY <2>3 DEF Shape
    <3>2. sales'[d] \in Seq(Sale) /\ DOMAIN sales'[d] = 1..Len(sales'[d]) /\ Len(sales'[d]) \in Nat
      BY <3>1
    <3>3. Made'[d] = [i \in 1..Len(sales'[d]) |-> sales'[d][i].lines]
      BY <3>2 DEF Made
    <3>4. \A i \in 1..Len(sales'[d]) : sales'[d][i].lines \in Carts
      <4>1. \A i \in 1..Len(sales'[d]) : sales'[d][i] \in Sale
        BY <3>2
      <4> QED BY <4>1 DEF Sale
    <3> QED BY <3>2, <3>3, <3>4
  <2>10. Made'[d] = Append(Made[d], lines)
    <3> DEFINE A == Append(Made[d], lines)
               n == Len(sales[d])
    <3>1. /\ A \in Seq(Carts) /\ Len(A) = n + 1
          /\ \A i \in 1..n : A[i] = Made[d][i]
          /\ A[n + 1] = lines
      BY <2>8, AppendProperties
    <3>2. n \in Nat
      BY <2>4
    <3> HIDE DEF A
    <3>3. \A i \in 1..(n + 1) : Made'[d][i] = A[i]
      <4> TAKE i \in 1..(n + 1)
      <4>1. i \in 1..n \/ i = n + 1
        BY <3>2
      <4>2. i \in 1..Len(sales'[d]) /\ Made'[d][i] = sales'[d][i].lines
        BY <2>7, <2>9
      <4>3. CASE i \in 1..n
        BY <2>7, <2>8, <3>1, <4>2, <4>3
      <4>4. CASE i = n + 1
        BY <2>5, <2>7, <3>1, <4>2, <4>4
      <4> QED BY <4>1, <4>3, <4>4
    <3>4. Len(Made'[d]) = n + 1
      BY <2>7, <2>9
    <3>5. Made'[d] = A
      BY <2>9, <3>1, <3>3, <3>4, SeqEqual
    <3> QED BY <3>5 DEF A
  <2>11. Made' = [Made EXCEPT ![d] = Append(Made[d], lines)]
    <3>1. \A e \in Devices : e # d => Made'[e] = Made[e]
      BY <2>6 DEF Made
    <3> QED BY <2>10, <3>1 DEF Made
  <2> QED BY <2>2, <2>8, <2>11 DEF Books!Make, Made
<1>3. ASSUME IInv, NEW d \in Devices, Reject(d)
      PROVE  Books!Refuse(d)
  <2>1. /\ Waiting(d) /\ ~Recordable(Pushed(d))
        /\ outcome' = [outcome EXCEPT ![d] = Append(@, "rejected")]
        /\ sales' = sales /\ levels' = levels /\ debit' = debit /\ credit' = credit
    BY <1>3 DEF Reject, deviceVars
  <2>2. Made[d][Len(outcome[d]) + 1] = Pushed(d).lines /\ Len(outcome[d]) < Len(Made[d])
    BY <1>3, <2>1, DueIs DEF IInv
  <2>3. Len(Pushed(d).lines) > MaxLines
    <3>1. Len(Pushed(d).lines) \in Nat
      BY <1>3, <2>1, PushedIs DEF IInv, Sale
    <3> QED BY <2>1, <3>1 DEF Recordable
  <2> QED BY <2>1, <2>2, <2>3 DEF Books!Refuse, Books!Due, Made
<1>4. ASSUME IInv, NEW d \in Devices, Commit(d)
      PROVE  Books!Enter(d)
  <2>1. /\ Posts(d)
        /\ outcome' = [outcome EXCEPT ![d] = Append(@, "accepted")]
        /\ debit' = debit + Total(Pushed(d).lines) /\ credit' = credit + Total(Pushed(d).lines)
        /\ sales' = sales
    BY <1>4 DEF Commit, deviceVars
  <2>2. Waiting(d) /\ Recordable(Pushed(d))
    BY <1>4, <2>1 DEF IInv, Halfway
  <2>3. Made[d][Len(outcome[d]) + 1] = Pushed(d).lines /\ Len(outcome[d]) < Len(Made[d])
    BY <1>4, <2>2, DueIs DEF IInv
  <2>4. levels' = [p \in Products |-> IF p \in ProductsOf(Pushed(d).lines) THEN levels[p] - 1
                                                                           ELSE levels[p]]
    BY <1>4, CommitLevels
  <2>5. Len(Pushed(d).lines) <= MaxLines
    BY <2>2 DEF Recordable
  <2>6. Made' = Made
    BY <2>1 DEF Made
  <2>7. Books!Due(d) = Pushed(d).lines
    BY <2>3 DEF Books!Due, Made
  <2>8. Books!ProductsOf(Pushed(d).lines) = ProductsOf(Pushed(d).lines)
    BY DEF Books!ProductsOf, ProductsOf
  <2> QED BY <2>1, <2>3, <2>4, <2>5, <2>6, <2>7, <2>8 DEF Books!Enter, Made
<1>5. ASSUME NEW d \in Devices, StartPosting(d) \/ Move(d) \/ Fail(d)
      PROVE  UNCHANGED Books!bookVars
  BY <1>5 DEF StartPosting, Move, Fail, deviceVars, committed, Books!bookVars
<1>6. ASSUME UNCHANGED vars PROVE UNCHANGED Books!bookVars
  BY <1>6 DEF vars, deviceVars, committed, Books!bookVars
<1>7. IInv /\ [Next]_vars => [Books!Next]_(Books!bookVars)
  BY <1>2, <1>3, <1>4, <1>5, <1>6 DEF Next, Books!Next
<1> QED BY <1>1, <1>7, Invariance, PTL DEF Spec, PostsWhole, Books!Spec

-----------------------------------------------------------------------------
(* What the books amount to. *)

\* The total of a cart is a sum of prices.
LEMMA TotalIs ==
  ASSUME NEW lines \in Carts
  PROVE  /\ Total(lines) \in Nat
         /\ \A p \in ProductsOf(lines) : p \in Products
<1>1. lines \in Seq(Products)
  OBVIOUS
<1>2. ProductsOf(lines) \in SUBSET Products
  BY <1>1 DEF ProductsOf
<1>3. IsFiniteSet(ProductsOf(lines)) /\ \A p \in ProductsOf(lines) : Price[p] \in Nat
  BY <1>2, FS_Subset
<1>4. Sum(Price, ProductsOf(lines)) \in Nat
  BY <1>3, SumPick
<1>5. Total(lines) = Sum(Price, ProductsOf(lines))
  BY DEF Total, Sum
<1> QED BY <1>2, <1>4, <1>5

\* The accepted sales: a device and the place among its sales; what each sold, and for how much.
Accepted ==
  {s \in Devices \X (1..MaxSales) : s[2] \in DOMAIN outcome[s[1]] /\ outcome[s[1]][s[2]] = "accepted"}

Sold(s) == sales[s[1]][s[2]].lines

Amount == [lines \in Carts |-> Total(lines)]

Worth == [s \in Accepted |-> Amount[Sold(s)]]

\* Cash and revenue are the sum of all accepted sales, and of each product as many are gone as
\* accepted sales have it (ADR-0005, ADR-0006; journal.ts, stock.ts).
BooksTellSales ==
  /\ debit = Sum(Worth, Accepted) /\ credit = Sum(Worth, Accepted)
  /\ \A p \in Products : levels[p] = 0 - Cardinality({s \in Accepted : p \in ProductsOf(Sold(s))})

Told == IsFiniteSet(Accepted) /\ BooksTellSales

\* Every accepted sale is one of its device's, so of a cart.
LEMMA AcceptedIs ==
  ASSUME IInv, NEW s \in Accepted
  PROVE  /\ s[1] \in Devices /\ s[2] \in 1..Len(outcome[s[1]]) /\ s[2] \in 1..Len(sales[s[1]])
         /\ s = <<s[1], s[2]>>
         /\ Sold(s) \in Carts /\ Worth[s] = Amount[Sold(s)] /\ Worth[s] \in Nat
<1>1. s[1] \in Devices /\ s[2] \in DOMAIN outcome[s[1]] /\ s = <<s[1], s[2]>>
  BY DEF Accepted
<1>2. /\ outcome[s[1]] \in Seq(Outcome) /\ sales[s[1]] \in Seq(Sale)
      /\ Len(outcome[s[1]]) <= Len(sales[s[1]])
  BY <1>1 DEF IInv, Shape, Numbered
<1>3. s[2] \in 1..Len(outcome[s[1]]) /\ s[2] \in 1..Len(sales[s[1]])
  BY <1>1, <1>2
<1>4. sales[s[1]][s[2]] \in Sale
  BY <1>2, <1>3
<1>5. Sold(s) \in Carts
  BY <1>4 DEF Sold, Sale
<1>6. Worth[s] = Amount[Sold(s)] /\ Amount[Sold(s)] = Total(Sold(s))
  BY <1>5 DEF Worth, Amount
<1> QED BY <1>1, <1>3, <1>5, <1>6, TotalIs

\* What sold is as it was, wherever it was accepted.
LEMMA WorthSame ==
  ASSUME IInv, IsFiniteSet(Accepted), Accepted \subseteq Accepted',
         \A s \in Accepted : Sold(s)' = Sold(s)
  PROVE  Sum(Worth', Accepted) = Sum(Worth, Accepted)
<1>1. \A s \in Accepted : Worth[s] \in Nat /\ Worth'[s] = Worth[s]
  <2> TAKE s \in Accepted
  <2>1. Worth[s] = Amount[Sold(s)] /\ Worth[s] \in Nat
    BY AcceptedIs
  <2>2. Worth'[s] = Amount[Sold(s)']
    BY DEF Worth
  <2> QED BY <2>1, <2>2
<1> HIDE DEF Worth
<1> QED BY <1>1, SumSame

\* A step that accepts no sale and changes neither the books nor an accepted sale.
LEMMA NothingTold ==
  ASSUME IInv, Told, Accepted' = Accepted, \A s \in Accepted : Sold(s)' = Sold(s),
         debit' = debit, credit' = credit, levels' = levels
  PROVE  Told'
<1>1. Sum(Worth', Accepted) = Sum(Worth, Accepted)
  BY WorthSame DEF Told
<1>2. \A p \in Products :
        {s \in Accepted : p \in ProductsOf(Sold(s)')} = {s \in Accepted : p \in ProductsOf(Sold(s))}
  OBVIOUS
<1>3. IsFiniteSet(Accepted')
  BY DEF Told
<1>4. debit' = Sum(Worth', Accepted') /\ credit' = Sum(Worth', Accepted')
  BY <1>1, Zenon DEF Told, BooksTellSales
<1>5. \A p \in Products :
        levels'[p] = 0 - Cardinality({s \in Accepted' : p \in ProductsOf(Sold(s)')})
  <2> TAKE p \in Products
  <2>1. levels[p] = 0 - Cardinality({s \in Accepted : p \in ProductsOf(Sold(s))})
    BY DEF Told, BooksTellSales
  <2>2. levels'[p] = levels[p]
    OBVIOUS
  <2>3. {s \in Accepted' : p \in ProductsOf(Sold(s)')} = {s \in Accepted : p \in ProductsOf(Sold(s))}
    OBVIOUS
  <2> QED BY <2>1, <2>2, <2>3
<1> QED BY <1>3, <1>4, <1>5, Zenon DEF Told, BooksTellSales, ProductsOf

\* The device's sales after the ones that were answered are no concern of the books.
LEMMA SellTells ==
  ASSUME IInv, Told, NEW d \in Devices, Sell(d)
  PROVE  Told'
<1>1. PICK lines \in Carts :
        sales' = [sales EXCEPT ![d] = Append(@, [number |-> NextNumber(d), lines |-> lines])]
  BY DEF Sell
<1>2. outcome' = outcome /\ levels' = levels /\ debit' = debit /\ credit' = credit
  BY DEF Sell, committed
<1>3. Accepted' = Accepted
  BY <1>2 DEF Accepted
<1>4. \A s \in Accepted : Sold(s)' = Sold(s)
  <2> TAKE s \in Accepted
  <2>1. s[1] \in Devices /\ s[2] \in 1..Len(sales[s[1]])
    BY AcceptedIs
  <2>2. sales \in [Devices -> Seq(Sale)] /\ sales[s[1]] \in Seq(Sale)
    BY <2>1 DEF IInv, Shape
  <2>3. CASE s[1] = d
    <3> DEFINE new == [number |-> NextNumber(d), lines |-> lines]
    <3>1. sales'[d] = Append(sales[d], new)
      BY <1>1, <2>2
    <3> HIDE DEF new
    <3>2. sales'[d][s[2]] = sales[d][s[2]]
      BY <2>1, <2>2, <2>3, <3>1
    <3> QED BY <2>3, <3>2 DEF Sold
  <2>4. CASE s[1] # d
    <3>1. sales'[s[1]] = sales[s[1]]
      BY <1>1, <2>1, <2>2, <2>4
    <3> QED BY <3>1 DEF Sold
  <2> QED BY <2>3, <2>4
<1> QED BY <1>2, <1>3, <1>4, NothingTold

\* A rejected sale is not in the books.
LEMMA RejectTells ==
  ASSUME IInv, Told, NEW d \in Devices, Reject(d)
  PROVE  Told'
<1>1. /\ Waiting(d) /\ outcome' = [outcome EXCEPT ![d] = Append(@, "rejected")]
      /\ UNCHANGED deviceVars /\ levels' = levels /\ debit' = debit /\ credit' = credit
      /\ sales' = sales
  BY DEF Reject, deviceVars
<1>2. /\ outcome' \in [Devices -> Seq(Outcome)]
      /\ Len(outcome'[d]) = Len(outcome[d]) + 1
      /\ \A i \in 1..Len(outcome[d]) : outcome'[d][i] = outcome[d][i]
      /\ outcome'[d][Len(outcome[d]) + 1] = "rejected"
      /\ \A e \in Devices : e # d => outcome'[e] = outcome[e]
  BY <1>1, Answered DEF Outcome, IInv
<1>3. Accepted' = Accepted
  <2> SUFFICES ASSUME NEW s \in Devices \X (1..MaxSales)
               PROVE  (s[2] \in DOMAIN outcome'[s[1]] /\ outcome'[s[1]][s[2]] = "accepted")
                        <=> (s[2] \in DOMAIN outcome[s[1]] /\ outcome[s[1]][s[2]] = "accepted")
    BY DEF Accepted
  <2>1. CASE s[1] # d
    BY <1>2, <2>1
  <2>2. CASE s[1] = d
    <3>1. outcome[d] \in Seq(Outcome) /\ outcome'[d] \in Seq(Outcome)
      BY <1>2 DEF IInv, Shape
    <3>2. /\ DOMAIN outcome[d] = 1..Len(outcome[d]) /\ Len(outcome[d]) \in Nat
          /\ DOMAIN outcome'[d] = 1..(Len(outcome[d]) + 1)
      BY <1>2, <3>1
    <3>3. s[2] \in DOMAIN outcome'[d] <=> s[2] \in DOMAIN outcome[d] \/ s[2] = Len(outcome[d]) + 1
      BY <3>2
    <3> QED BY <1>2, <2>2, <3>2, <3>3
  <2> QED BY <2>1, <2>2
<1>4. \A s \in Accepted : Sold(s)' = Sold(s)
  BY <1>1 DEF Sold
<1> QED BY <1>1, <1>3, <1>4, NothingTold

\* A commit puts one sale more into each of the books.
LEMMA CommitTells ==
  ASSUME IInv, Told, NEW d \in Devices, Commit(d)
  PROVE  Told'
<1>1. /\ outcome' = [outcome EXCEPT ![d] = Append(@, "accepted")]
      /\ UNCHANGED deviceVars /\ sales' = sales /\ Posts(d)
      /\ debit' = debit + Total(Pushed(d).lines) /\ credit' = credit + Total(Pushed(d).lines)
  BY DEF Commit, deviceVars
<1>2. Waiting(d)
  BY <1>1 DEF IInv, Halfway
<1>3. /\ Pushed(d) \in Sale /\ Pushed(d) = sales[d][Len(outcome[d]) + 1]
      /\ Len(outcome[d]) + 1 \in 1..MaxSales
  BY <1>2, PushedIs DEF IInv, Pushed
<1>4. PICK n \in 1..MaxSales : n = Len(outcome[d]) + 1
  BY <1>3
<1>5. PICK lines \in Carts : lines = Pushed(d).lines
  BY <1>3 DEF Sale
<1>6. PICK new \in Devices \X (1..MaxSales) : new = <<d, n>>
  OBVIOUS
<1>7. /\ outcome' \in [Devices -> Seq(Outcome)]
      /\ Len(outcome'[d]) = n
      /\ \A i \in 1..Len(outcome[d]) : outcome'[d][i] = outcome[d][i]
      /\ outcome'[d][n] = "accepted"
      /\ \A e \in Devices : e # d => outcome'[e] = outcome[e]
  BY <1>1, <1>2, <1>4, Answered DEF Outcome, IInv
<1>8. lines = sales[d][n].lines /\ Len(outcome[d]) \in Nat
  BY <1>3, <1>4, <1>5 DEF IInv, Shape
<1>9. levels' = [p \in Products |-> IF p \in ProductsOf(lines) THEN levels[p] - 1 ELSE levels[p]]
  BY <1>5, CommitLevels
<1>10. new \notin Accepted /\ Accepted' = Accepted \cup {new}
  <2>1. outcome[d] \in Seq(Outcome) /\ outcome'[d] \in Seq(Outcome)
    BY <1>7 DEF IInv, Shape
  <2>2. /\ DOMAIN outcome[d] = 1..Len(outcome[d]) /\ DOMAIN outcome'[d] = 1..n
        /\ n = Len(outcome[d]) + 1
    BY <1>4, <1>7, <2>1
  <2>3. new \notin Accepted
    BY <1>6, <1>8, <2>2 DEF Accepted
  <2>5. ASSUME NEW s \in Devices \X (1..MaxSales)
        PROVE  (s[2] \in DOMAIN outcome'[s[1]] /\ outcome'[s[1]][s[2]] = "accepted")
                 <=> \/ s[2] \in DOMAIN outcome[s[1]] /\ outcome[s[1]][s[2]] = "accepted"
                     \/ s = new
    <3>1. CASE s[1] # d
      <4>1. s # new
        BY <1>6, <3>1
      <4> QED BY <1>7, <3>1, <4>1
    <3>2. CASE s[1] = d
      <4>1. s[2] \in DOMAIN outcome'[d] <=> s[2] \in DOMAIN outcome[d] \/ s[2] = n
        BY <1>8, <2>2
      <4>2. s = new <=> s[2] = n
        BY <1>6, <3>2
      <4>3. n \notin DOMAIN outcome[d]
        BY <1>8, <2>2
      <4> QED BY <1>7, <2>2, <3>2, <4>1, <4>2, <4>3
    <3> QED BY <3>1, <3>2
  <2> QED BY <2>3, <2>5 DEF Accepted
<1>11. \A s \in Accepted : Sold(s)' = Sold(s)
  BY <1>1 DEF Sold
<1>12. Sold(new)' = lines
  BY <1>1, <1>6, <1>8 DEF Sold
<1>13. IsFiniteSet(Accepted) /\ IsFiniteSet(Accepted')
  BY <1>10, FS_AddElement DEF Told
<1>14. Worth'[new] = Total(lines) /\ Total(lines) \in Nat
  <2>1. new \in Accepted'
    BY <1>10
  <2>2. Worth'[new] = Amount[Sold(new)']
    BY <2>1 DEF Worth
  <2>3. Amount[lines] = Total(lines)
    BY <1>8 DEF Amount
  <2> QED BY <1>8, <1>12, <2>2, <2>3, TotalIs
<1>15. Sum(Worth', Accepted') = Total(lines) + Sum(Worth, Accepted) /\ Sum(Worth, Accepted) \in Nat
  <2>1. \A s \in Accepted : Worth[s] \in Nat /\ Worth'[s] = Worth[s]
    <3> TAKE s \in Accepted
    <3>1. Worth[s] = Amount[Sold(s)] /\ Worth[s] \in Nat
      BY AcceptedIs
    <3>2. s \in Accepted'
      BY <1>10
    <3>3. Worth'[s] = Amount[Sold(s)']
      BY <3>2 DEF Worth
    <3> QED BY <1>11, <3>1, <3>3
  <2>2. \A s \in Accepted' : Worth'[s] \in Nat
    BY <1>10, <1>14, <2>1
  <2>3. Accepted' \ {new} = Accepted /\ new \in Accepted'
    BY <1>10
  <2> HIDE DEF Worth
  <2>4. Sum(Worth', Accepted') = Worth'[new] + Sum(Worth', Accepted)
    BY <1>13, <2>2, <2>3, SumRemove
  <2>5. Sum(Worth', Accepted) = Sum(Worth, Accepted)
    BY <1>13, <2>1, SumSame
  <2>6. Sum(Worth, Accepted) \in Nat
    BY <1>13, <2>1, SumPick
  <2> QED BY <1>14, <2>4, <2>5, <2>6
<1>16. debit' = Sum(Worth', Accepted') /\ credit' = Sum(Worth', Accepted')
  <2>1. debit = Sum(Worth, Accepted) /\ credit = Sum(Worth, Accepted)
    BY DEF Told, BooksTellSales
  <2> QED BY <1>1, <1>5, <1>14, <1>15, <2>1
<1>17. \A p \in Products :
         levels'[p] = 0 - Cardinality({s \in Accepted' : p \in ProductsOf(Sold(s)')})
  <2> TAKE p \in Products
  <2> DEFINE old == {s \in Accepted : p \in ProductsOf(Sold(s))}
             now == {s \in Accepted' : p \in ProductsOf(Sold(s)')}
  <2>1. levels[p] = 0 - Cardinality(old)
    BY DEF Told, BooksTellSales
  <2>2. IsFiniteSet(old) /\ Cardinality(old) \in Nat
    BY <1>13, FS_Subset, FS_CardinalityType
  <2>3. new \notin old
    BY <1>10
  <2>4. now = IF p \in ProductsOf(lines) THEN old \cup {new} ELSE old
    BY <1>10, <1>11, <1>12
  <2> HIDE DEF old, now
  <2>5. Cardinality(now) = IF p \in ProductsOf(lines) THEN Cardinality(old) + 1 ELSE Cardinality(old)
    BY <2>2, <2>3, <2>4, FS_AddElement
  <2>6. levels'[p] = 0 - Cardinality(now)
    BY <1>9, <2>1, <2>2, <2>5
  <2> QED BY <2>6 DEF now
<1> QED BY <1>13, <1>16, <1>17, Zenon DEF Told, BooksTellSales, ProductsOf

\* The books tell what was sold, always.
LEMMA ToldAlways == Spec => []Told
<1>1. Init => Told
  <2> SUFFICES ASSUME Init PROVE Told
    OBVIOUS
  <2>1. Accepted = {}
    BY DEF Init, Accepted
  <2>2. IsFiniteSet({}) /\ Cardinality({}) = 0 /\ Sum(Worth, {}) = 0
    BY FS_EmptySet, SumPick
  <2>3. \A p \in Products : {s \in Accepted : p \in ProductsOf(Sold(s))} = {}
    BY <2>1
  <2> QED BY <2>1, <2>2, <2>3 DEF Init, Told, BooksTellSales
<1>2. ASSUME IInv, Told, Next PROVE Told'
  <2>1. ASSUME NEW d \in Devices, StartPosting(d) \/ Move(d) \/ Fail(d) PROVE Told'
    <3>1. /\ outcome' = outcome /\ sales' = sales /\ levels' = levels
          /\ debit' = debit /\ credit' = credit
      BY <2>1 DEF StartPosting, Move, Fail, deviceVars, committed
    <3> QED BY <1>2, <3>1, NothingTold DEF Accepted, Sold
  <2> QED BY <1>2, <2>1, SellTells, RejectTells, CommitTells DEF Next
<1>3. ASSUME IInv, Told, UNCHANGED vars PROVE Told'
  <2>1. /\ outcome' = outcome /\ sales' = sales /\ levels' = levels
        /\ debit' = debit /\ credit' = credit
    BY <1>3 DEF vars, deviceVars, committed
  <2> QED BY <1>3, <2>1, NothingTold DEF Accepted, Sold
<1> QED BY <1>1, <1>2, <1>3, Invariance, PTL DEF Spec

\* The cash, the revenue and the stock are what the accepted sales amount to, however many
\* devices sold and failed, and in whichever order their postings ran (journal.ts, stock.ts).
THEOREM BooksAmountToSales == Spec => []BooksTellSales
<1>1. Told => BooksTellSales
  BY DEF Told
<1> QED BY <1>1, ToldAlways, PTL

\* Every variable has its type, the two sums of the journal included (local-sales.ts,
\* invoices.ts).
THEOREM Types == Spec => []TypeOK
<1>1. IInv /\ Told => TypeOK
  <2> SUFFICES ASSUME IInv, Told PROVE TypeOK
    OBVIOUS
  <2>1. debit \in Nat /\ credit \in Nat
    <3>1. \A s \in Accepted : Worth[s] \in Nat
      BY AcceptedIs
    <3>2. Sum(Worth, Accepted) \in Nat
      BY <3>1, SumPick DEF Told
    <3> QED BY <3>2 DEF Told, BooksTellSales
  <2>2. \A d \in Devices : DOMAIN sales[d] = 1..Len(sales[d])
    BY DEF IInv, Shape
  <2>3. /\ sales \in [Devices -> Seq(Sale)]
        /\ outcome \in [Devices -> Seq({"accepted", "rejected"})]
        /\ invoices \in [Devices -> SUBSET (1..MaxSales)]
        /\ lastSeq \in [Devices -> 0..MaxSales]
        /\ missing \in [Devices -> SUBSET (1..MaxSales)]
        /\ levels \in [Products -> Int]
        /\ posting \in [Devices -> Posting]
    BY DEF IInv, Shape, Outcome
  <2>4. \A d \in Devices :
          /\ counter[d] = Len(sales[d])
          /\ \A i \in DOMAIN sales[d] : sales[d][i].number = i
          /\ Len(outcome[d]) <= Len(sales[d])
    BY <2>2 DEF IInv, Numbered
  <2> QED BY <2>1, <2>3, <2>4 DEF TypeOK
<1> QED BY <1>1, Invariance, ToldAlways, PTL
=============================================================================
