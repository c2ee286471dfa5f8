-------------------------- MODULE StudyViewsProofs --------------------------
(***************************************************************************)
(* Proofs about the views: today's figures, the scores, the lists and      *)
(* their pages, the home screen, the heatmap and the streaks.              *)
(*                                                                         *)
(* A list is read off its set, rank by rank (InOrderIs); what a loop over  *)
(* a list comes to is a recursion from each place to the next, which has a *)
(* solution (RecursionExists), and a sum is the size of a disjoint union   *)
(* (TotalCounts).  VInv is what the views rely on beyond IInv.             *)
(***************************************************************************)
EXTENDS StudyRecordsProofs, StudyViews, WellFoundedInduction

-----------------------------------------------------------------------------
(* Numbers.                                                                 *)

\* The well-founded order of the numbers.
LEMMA Descent ==
    ASSUME NEW S, NEW R, IsWellFoundedOn(R, Nat), S \subseteq Nat, S # {}
    PROVE  \E x \in S : \A y \in S : <<y, x>> \notin R
  BY WFMin

\* A set of numbers has a least one.
LEMMA LeastNumber ==
    ASSUME NEW S, S \subseteq Nat, S # {}
    PROVE  \E m \in S : \A n \in S : m <= n
<1>. DEFINE R == OpToRel(<, Nat)
<1>1. IsWellFoundedOn(R, Nat)
  BY NatLessThanWellFounded
<1>2. \A m, n \in Nat : m < n => <<m, n>> \in R
  BY DEF OpToRel
<1>. HIDE DEF R
<1>3. PICK x \in S : \A y \in S : <<y, x>> \notin R
  BY <1>1, Descent
<1>4. \A y \in S : ~(y < x)
  BY <1>2, <1>3
<1>. QED BY <1>4

\* What holds of 0, and passes from each number to the next, holds up to n.
LEMMA OneByOne ==
    ASSUME NEW n \in Nat, NEW S, 0 \in S, \A i \in 1 .. n : i - 1 \in S => i \in S
    PROVE  0 .. n \subseteq S
<1>. DEFINE missed == (0 .. n) \ S
<1>. SUFFICES ASSUME missed # {} PROVE FALSE
  OBVIOUS
<1>1. missed \subseteq Nat
  OBVIOUS
<1>2. PICK m \in missed : \A k \in missed : m <= k
  BY <1>1, LeastNumber
<1>3. m \in 1 .. n /\ m - 1 \in 0 .. n /\ m - 1 \notin missed
  BY <1>1, <1>2
<1>. QED BY <1>2, <1>3

\* The greatest element, once it is known.
LEMMA MaxIs ==
    ASSUME NEW S, S \subseteq Int, NEW m \in S, \A n \in S : m >= n
    PROVE  Max(S) = m
<1>1. PICK k : k = Max(S)
  OBVIOUS
<1>2. k \in S /\ \A n \in S : k >= n
  BY <1>1 DEF Max
<1>3. k >= m /\ m >= k /\ k \in Int /\ m \in Int
  BY <1>2
<1>. QED BY <1>1, <1>3

LEMMA MinOfTwo == \A a, b \in Int : Min({a, b}) = IF a <= b THEN a ELSE b
<1>. SUFFICES ASSUME NEW a \in Int, NEW b \in Int
              PROVE  Min({a, b}) = IF a <= b THEN a ELSE b
  OBVIOUS
<1>1. PICK k : k = Min({a, b})
  OBVIOUS
<1>2. k \in {a, b} /\ \A n \in {a, b} : k <= n
  BY <1>1 DEF Min
<1>. QED BY <1>1, <1>2

\* Quotients and remainders.
LEMMA Division ==
    ASSUME NEW a \in Nat, NEW d \in Nat \ {0}
    PROVE  /\ a \div d \in Nat /\ (a \div d) * d <= a /\ a < (a \div d) * d + d
           /\ (a \div d) * d \in Nat
  OBVIOUS

\* Arithmetic that the provers find only when it is asked for alone.
LEMMA Products ==
    ASSUME NEW a \in Nat, NEW b \in Nat
    PROVE  a * b \in Nat
  OBVIOUS

LEMMA Monotone ==
    ASSUME NEW a \in Int, NEW b \in Int, a <= b, NEW c \in Nat
    PROVE  a * c <= b * c
  OBVIOUS

LEMMA QuotientIs ==
    ASSUME NEW a \in Nat, NEW d \in Nat \ {0}, NEW q \in Nat, q * d <= a, a < q * d + d
    PROVE  a \div d = q
  OBVIOUS

LEMMA QuotientAtMost ==
    ASSUME NEW a \in Nat, NEW d \in Nat \ {0}, NEW q \in Nat, a < q * d + d
    PROVE  a \div d <= q
  OBVIOUS

-----------------------------------------------------------------------------
(* Order.                                                                   *)

Orders(before, set) ==
    /\ \A x \in set : <<x, x>> \notin before
    /\ \A x, y \in set : x = y \/ <<x, y>> \in before \/ <<y, x>> \in before
    /\ \A x, y, z \in set : <<x, y>> \in before /\ <<y, z>> \in before => <<x, z>> \in before

\* A list has every element of the set at one place.
Lists(list, set) ==
    /\ list \in Seq(set) /\ Len(list) = Cardinality(set) /\ Cardinality(set) \in Nat
    /\ list \in [1 .. Cardinality(set) -> set]
    /\ \A x \in set : \E i \in 1 .. Cardinality(set) : list[i] = x
    /\ \A i, j \in 1 .. Cardinality(set) : list[i] = list[j] => i = j

\* The elements come in the order.
LEMMA InOrderIs ==
    ASSUME NEW set, IsFiniteSet(set), NEW before, Orders(before, set)
    PROVE  /\ Lists(InOrder(set, before), set)
           /\ \A i, j \in 1 .. Cardinality(set) :
                 i < j => <<InOrder(set, before)[i], InOrder(set, before)[j]>> \in before
<1>. DEFINE n == Cardinality(set)
            Below(x) == {y \in set : <<y, x>> \in before}
            rank == [x \in set |-> Cardinality(Below(x)) + 1]
<1>1. n \in Nat
  BY FS_CardinalityType
<1>2. \A x \in set : IsFiniteSet(Below(x)) /\ Cardinality(Below(x)) \in 0 .. n - 1
  <2>. TAKE x \in set
  <2>1. IsFiniteSet(set \ {x}) /\ Cardinality(set \ {x}) = n - 1
    BY FS_RemoveElement
  <2>2. Below(x) \in SUBSET (set \ {x})
    BY DEF Orders
  <2>3. IsFiniteSet(Below(x)) /\ Cardinality(Below(x)) <= n - 1
    <3>1. PICK s : s = set \ {x}
      OBVIOUS
    <3>2. Below(x) \in SUBSET s
      BY <2>2, <3>1
    <3>. HIDE DEF Below, n
    <3>. QED BY <2>1, <3>1, <3>2, FS_Subset
  <2>. QED BY <2>3, FS_CardinalityType
<1>3. rank \in [set -> 1 .. n]
  <2>1. \A x \in set : Cardinality(Below(x)) + 1 \in 1 .. n
    <3>. HIDE DEF Below, n
    <3>. QED BY <1>1, <1>2
  <2>. QED BY <2>1
<1>4. \A x, y \in set : <<x, y>> \in before => rank[x] < rank[y]
  <2>. SUFFICES ASSUME NEW x \in set, NEW y \in set, <<x, y>> \in before
                PROVE  rank[x] < rank[y]
    OBVIOUS
  <2>1. Below(x) \in SUBSET Below(y) /\ x \in Below(y) /\ x \notin Below(x)
    BY DEF Orders
  <2>2. Below(x) # Below(y)
    BY <2>1
  <2>3. /\ Cardinality(Below(x)) <= Cardinality(Below(y))
        /\ Cardinality(Below(x)) # Cardinality(Below(y))
    <3>1. PICK s, t : s = Below(y) /\ t = Below(x)
      OBVIOUS
    <3>. HIDE DEF Below
    <3>2. IsFiniteSet(s) /\ t \in SUBSET s /\ s # t
      BY <1>2, <2>1, <2>2, <3>1
    <3>3. Cardinality(t) <= Cardinality(s) /\ (Cardinality(s) = Cardinality(t) => s = t)
      BY <3>2, FS_Subset
    <3>. QED BY <3>1, <3>2, <3>3
  <2>4. Cardinality(Below(x)) \in Int /\ Cardinality(Below(y)) \in Int
    BY <1>2
  <2>. QED BY <2>3, <2>4
<1>5. \A x, y \in set : rank[x] = rank[y] => x = y
  <2>. SUFFICES ASSUME NEW x \in set, NEW y \in set, rank[x] = rank[y], x # y PROVE FALSE
    OBVIOUS
  <2>1. rank[x] \in Int /\ rank[y] \in Int
    BY <1>3
  <2>2. rank[x] < rank[y] \/ rank[y] < rank[x]
    BY <1>4 DEF Orders
  <2>. QED BY <2>1, <2>2
<1>6. \A i \in 1 .. n : \E x \in set : rank[x] = i
  <2>1. IsFiniteSet(1 .. n) /\ Cardinality(1 .. n) = n
    BY <1>1, FS_Interval
  <2>2. rank \in Injection(set, 1 .. n)
    BY <1>3, <1>5 DEF Injection, IsInjective
  <2>3. rank \in Surjection(set, 1 .. n)
    <3>. HIDE DEF rank, n
    <3>. QED BY <2>1, <2>2, FS_Injection DEF n
  <2>. QED BY <2>3 DEF Surjection
<1>7. PICK f : f = InOrder(set, before)
  OBVIOUS
<1>8. f = [i \in 1 .. n |-> CHOOSE x \in set : Cardinality(Below(x)) = i - 1]
  BY <1>7 DEF InOrder
<1>9. \A i \in 1 .. n : f[i] \in set /\ rank[f[i]] = i
  <2>. TAKE i \in 1 .. n
  <2>1. PICK x \in set : rank[x] = i
    BY <1>6
  <2>2. Cardinality(Below(x)) = i - 1
    BY <1>2, <2>1
  <2>3. f[i] \in set /\ Cardinality(Below(f[i])) = i - 1
    BY <1>8, <2>2
  <2>. QED BY <2>3
<1>. HIDE DEF rank, Below
<1>10. f \in [1 .. n -> set]
  BY <1>8, <1>9
<1>11. f \in Seq(set) /\ Len(f) = n
  BY <1>1, <1>10
<1>12. \A x \in set : \E i \in 1 .. n : f[i] = x
  BY <1>3, <1>5, <1>9
<1>13. \A i, j \in 1 .. n : f[i] = f[j] => i = j
  BY <1>9
<1>14. \A i, j \in 1 .. n : i < j => <<f[i], f[j]>> \in before
  <2>. SUFFICES ASSUME NEW i \in 1 .. n, NEW j \in 1 .. n, i < j
                PROVE  <<f[i], f[j]>> \in before
    OBVIOUS
  <2>1. f[i] \in set /\ f[j] \in set /\ rank[f[i]] = i /\ rank[f[j]] = j
    BY <1>9
  <2>2. f[i] # f[j] /\ ~(rank[f[j]] < rank[f[i]])
    BY <1>1, <2>1
  <2>3. <<f[j], f[i]>> \notin before
    BY <1>4, <2>1, <2>2
  <2>. QED BY <2>1, <2>2, <2>3 DEF Orders
<1>. QED BY <1>1, <1>7, <1>10, <1>11, <1>12, <1>13, <1>14 DEF Lists

\* A set of integers in ascending order.
LEMMA AscendingIs ==
    ASSUME NEW set, IsFiniteSet(set), set \subseteq Int
    PROVE  /\ Lists(Ascending(set), set)
           /\ \A i, j \in 1 .. Cardinality(set) : i < j => Ascending(set)[i] < Ascending(set)[j]
<1>. DEFINE before == {p \in set \X set : p[1] < p[2]}
<1>1. \A x, y \in set : <<x, y>> \in before <=> x < y
  OBVIOUS
<1>2. Ascending(set) = InOrder(set, before)
  BY DEF Ascending
<1>. HIDE DEF before
<1>3. Orders(before, set)
  BY <1>1 DEF Orders
<1>4. /\ Lists(InOrder(set, before), set)
      /\ \A i, j \in 1 .. Cardinality(set) :
            i < j => <<InOrder(set, before)[i], InOrder(set, before)[j]>> \in before
  BY <1>3, InOrderIs
<1>. QED BY <1>1, <1>2, <1>4 DEF Lists

-----------------------------------------------------------------------------
(* Recursion over the places of a list, and sums.                           *)

\* A recursion that goes on from each place to the next has a solution.
Solves(f, top, values, base, next) ==
    /\ f \in [0 .. top -> values] /\ f[0] = base
    /\ \A i \in 1 .. top : f[i] = next[i][f[i - 1]]

LEMMA RecursionExists ==
    ASSUME NEW top \in Nat, NEW V, NEW base \in V, NEW next,
           \A i \in 1 .. top : \A v \in V : next[i][v] \in V
    PROVE  \E f : Solves(f, top, V, base, next)
<1>. DEFINE solved == {n \in 0 .. top : \E f : Solves(f, n, V, base, next)}
<1>1. 0 \in solved
  <2>1. PICK f : f = [i \in 0 .. 0 |-> base]
    OBVIOUS
  <2>2. Solves(f, 0, V, base, next)
    BY <2>1 DEF Solves
  <2>. QED BY <2>2
<1>2. ASSUME NEW n \in 1 .. top, n - 1 \in solved PROVE n \in solved
  <2>1. n \in 0 .. top /\ n \in Nat /\ n # 0
    OBVIOUS
  <2>2. PICK g : Solves(g, n - 1, V, base, next)
    BY <1>2
  <2>3. next[n][g[n - 1]] \in V
    BY <2>1, <2>2 DEF Solves
  <2>4. PICK f : f = [i \in 0 .. n |-> IF i = n THEN next[n][g[n - 1]] ELSE g[i]]
    OBVIOUS
  <2>5. \A i \in 0 .. n - 1 : f[i] = g[i] /\ g[i] \in V
    BY <2>1, <2>2, <2>4 DEF Solves
  <2>6. f \in [0 .. n -> V] /\ f[0] = base
    BY <2>1, <2>2, <2>3, <2>4, <2>5 DEF Solves
  <2>7. ASSUME NEW i \in 1 .. n PROVE f[i] = next[i][f[i - 1]]
    <3>1. i - 1 \in 0 .. n - 1 /\ f[i - 1] = g[i - 1]
      BY <2>1, <2>5
    <3>2. CASE i = n
      BY <2>4, <3>1, <3>2
    <3>3. CASE i # n
      <4>1. i \in 1 .. n - 1 /\ i \in 0 .. n - 1
        BY <2>1, <3>3
      <4>. QED BY <2>2, <2>5, <3>1, <4>1 DEF Solves
    <3>. QED BY <3>2, <3>3
  <2>8. Solves(f, n, V, base, next)
    BY <2>6, <2>7 DEF Solves
  <2>. QED BY <2>1, <2>8
<1>3. 0 .. top \subseteq solved
  <2>. HIDE DEF solved
  <2>. QED BY <1>1, <1>2, OneByOne
<1>4. PICK f : Solves(f, top, V, base, next)
  BY <1>3
<1>. QED BY <1>4

\* SumUpTo is the sum it is meant to be.
LEMMA SumRecurs ==
    ASSUME NEW n \in Nat, NEW amounts \in [1 .. n -> Nat]
    PROVE  /\ amounts \in Seq(Nat) /\ Len(amounts) = n
           /\ SumUpTo(amounts)[0] = 0
           /\ \A i \in 1 .. n : SumUpTo(amounts)[i] = SumUpTo(amounts)[i - 1] + amounts[i]
           /\ \A i \in 0 .. n : SumUpTo(amounts)[i] \in Nat
           /\ Total(amounts) = SumUpTo(amounts)[n]
<1>. DEFINE IsSum(f) == f = [i \in 0 .. n |-> IF i = 0 THEN 0 ELSE f[i - 1] + amounts[i]]
            next == [i \in 1 .. n |-> [m \in Nat |-> m + amounts[i]]]
<1>1. next \in [1 .. n -> [Nat -> Nat]]
  OBVIOUS
<1>2. \A i \in 1 .. n : \A m \in Nat : next[i][m] = m + amounts[i]
  OBVIOUS
<1>. HIDE DEF next
<1>3. PICK f \in [0 .. n -> Nat] : f[0] = 0 /\ \A i \in 1 .. n : f[i] = next[i][f[i - 1]]
  <2>1. PICK sums, none : sums = Nat /\ none = 0
    OBVIOUS
  <2>2. none \in sums /\ \A i \in 1 .. n : \A m \in sums : next[i][m] \in sums
    <3>1. \A i \in 1 .. n : \A m \in Nat : m + amounts[i] \in Nat
      OBVIOUS
    <3>2. none \in Nat
      BY <2>1
    <3>3. \A i \in 1 .. n : \A m \in Nat : next[i][m] \in Nat
      BY <1>2, <3>1
    <3>. QED BY <2>1, <3>2, <3>3
  <2>3. \E f : Solves(f, n, sums, none, next)
    BY <2>2, RecursionExists
  <2>. QED BY <2>1, <2>3 DEF Solves
<1>4. \A i \in 1 .. n : i \in 0 .. n /\ i - 1 \in 0 .. n /\ i # 0
  OBVIOUS
<1>5. \A i \in 1 .. n : f[i] = f[i - 1] + amounts[i]
  BY <1>2, <1>3, <1>4
<1>6. \A i \in 0 .. n : i = 0 \/ i \in 1 .. n
  OBVIOUS
<1>7. IsSum(f)
  BY <1>3, <1>4, <1>5, <1>6
<1>8. amounts \in Seq(Nat) /\ Len(amounts) = n
  OBVIOUS
<1>9. SumUpTo(amounts) = CHOOSE g : IsSum(g)
  BY <1>8 DEF SumUpTo
<1>. HIDE DEF IsSum
<1>10. IsSum(SumUpTo(amounts))
  BY <1>7, <1>9
<1>11. PICK sum : sum = SumUpTo(amounts)
  OBVIOUS
<1>12. sum = [i \in 0 .. n |-> IF i = 0 THEN 0 ELSE sum[i - 1] + amounts[i]]
  BY <1>10, <1>11 DEF IsSum
<1>13. sum[0] = 0 /\ \A i \in 1 .. n : sum[i] = sum[i - 1] + amounts[i]
  <2>1. 0 \in 0 .. n
    OBVIOUS
  <2>. QED BY <1>4, <1>12, <2>1
<1>14. \A i \in 0 .. n : sum[i] \in Nat
  <2>. DEFINE S == {i \in 0 .. n : sum[i] \in Nat}
  <2>1. 0 \in S
    BY <1>13
  <2>2. \A i \in 1 .. n : i - 1 \in S => i \in S
    BY <1>4, <1>13
  <2>3. 0 .. n \subseteq S
    <3>. HIDE DEF S
    <3>. QED BY <2>1, <2>2, OneByOne
  <2>. QED BY <2>3
<1>15. Total(amounts) = sum[n]
  BY <1>8, <1>11 DEF Total
<1>. QED BY <1>8, <1>11, <1>13, <1>14, <1>15

\* The sizes of disjoint sets add up to the size of their union.
Pieces(sets, n) == UNION {sets[i] : i \in 1 .. n}

\* A sum of sizes of disjoint sets is the size of their union.
LEMMA TotalCounts ==
    ASSUME NEW n \in Nat, NEW amounts \in [1 .. n -> Nat], NEW sets,
           \A i \in 1 .. n : IsFiniteSet(sets[i]) /\ Cardinality(sets[i]) = amounts[i],
           \A i, j \in 1 .. n : i # j => sets[i] \intersect sets[j] = {}
    PROVE  IsFiniteSet(Pieces(sets, n)) /\ Total(amounts) = Cardinality(Pieces(sets, n))
<1>. DEFINE Upto(k) == UNION {sets[i] : i \in 1 .. k}
<1>0. /\ SumUpTo(amounts)[0] = 0
      /\ \A i \in 1 .. n : SumUpTo(amounts)[i] = SumUpTo(amounts)[i - 1] + amounts[i]
      /\ \A i \in 0 .. n : SumUpTo(amounts)[i] \in Nat
      /\ Total(amounts) = SumUpTo(amounts)[n]
  BY SumRecurs, ZenonT(30)
<1>1. PICK sum : /\ sum[0] = 0 /\ Total(amounts) = sum[n]
                 /\ \A i \in 1 .. n : sum[i] = sum[i - 1] + amounts[i]
                 /\ \A i \in 0 .. n : sum[i] \in Nat
  BY <1>0, Zenon
<1>. DEFINE S == {k \in 0 .. n : IsFiniteSet(Upto(k)) /\ Cardinality(Upto(k)) = sum[k]}
<1>2. 0 \in S
  <2>1. Upto(0) = {}
    OBVIOUS
  <2>. HIDE DEF Upto
  <2>2. IsFiniteSet(Upto(0)) /\ Cardinality(Upto(0)) = 0
    BY <2>1, FS_EmptySet
  <2>3. 0 \in 0 .. n
    OBVIOUS
  <2>. QED BY <1>1, <2>2, <2>3
<1>3. ASSUME NEW k \in 1 .. n, k - 1 \in S PROVE k \in S
  <2>1. Upto(k) = Upto(k - 1) \union sets[k]
    <3>1. \A i : i \in 1 .. k <=> i \in 1 .. k - 1 \/ i = k
      OBVIOUS
    <3>. QED BY <3>1
  <2>2. Upto(k - 1) \intersect sets[k] = {}
    <3>1. \A i \in 1 .. k - 1 : i \in 1 .. n /\ i # k
      OBVIOUS
    <3>. QED BY <3>1
  <2>3. IsFiniteSet(Upto(k - 1)) /\ Cardinality(Upto(k - 1)) = sum[k - 1]
    BY <1>3
  <2>4. PICK a, b : a = Upto(k - 1) /\ b = sets[k]
    OBVIOUS
  <2>. HIDE DEF Upto
  <2>5. IsFiniteSet(a) /\ IsFiniteSet(b) /\ Cardinality(b) = amounts[k] /\ a \intersect b = {}
    BY <2>2, <2>3, <2>4
  <2>6. /\ IsFiniteSet(a \union b)
        /\ Cardinality(a \union b) = Cardinality(a) + Cardinality(b) - Cardinality(a \intersect b)
    BY <2>5, FS_Union
  <2>7. Cardinality(a \intersect b) = 0
    BY <2>5, FS_EmptySet
  <2>8. Cardinality(a \union b) = sum[k - 1] + amounts[k]
    <3>1. k - 1 \in 0 .. n /\ amounts[k] \in Nat /\ sum[k - 1] \in Nat
      BY <1>1
    <3>. QED BY <2>3, <2>4, <2>5, <2>6, <2>7, <3>1
  <2>9. k \in 0 .. n /\ Upto(k) = a \union b /\ sum[k] = sum[k - 1] + amounts[k]
    BY <1>1, <2>1, <2>4
  <2>. QED BY <2>6, <2>8, <2>9
<1>4. 0 .. n \subseteq S
  <2>. HIDE DEF S
  <2>. QED BY <1>2, <1>3, OneByOne
<1>5. IsFiniteSet(Upto(n)) /\ Cardinality(Upto(n)) = sum[n]
  <2>1. n \in S
    <3>. HIDE DEF S
    <3>. QED BY <1>4
  <2>. HIDE DEF Upto
  <2>. QED BY <2>1
<1>6. Pieces(sets, n) = Upto(n)
  BY DEF Pieces
<1>. QED BY <1>1, <1>5, <1>6

-----------------------------------------------------------------------------
(* What the views take for granted of the documents.                        *)

\* A revision has a status of its own and falls due some day, and nothing was written
\* in the future.
Plain(doc, time) ==
    /\ doc.createdAt <= time /\ doc.updatedAt <= time
    /\ doc.collection = "revisions" => doc.status \in RevisionStatuses /\ doc.at # Absent

\* No request gives a revision the status of something else.
Suits(q) ==
    /\ q.op \in {"update", "complete"} /\ docs[q.id].collection = "revisions"
    /\ "status" \in DOMAIN q.patch
    => q.patch.status \in RevisionStatuses

VInv ==
    /\ \A id \in DOMAIN docs : Plain(docs[id], now)
    /\ \A c \in Clients : Suits(api[c])

Grows ==
    \A c \in Clients : api'[c] = api[c] \/ api'[c].op \in {"idle", "create", "rung"}

\* A document is replaced by a plain one of its collection, or by none.
LEMMA RewriteIsPlain ==
    ASSUME IInv, VInv, Grows, UNCHANGED now, NEW id \in DOMAIN docs, NEW d \in Document,
           docs' = [docs EXCEPT ![id] = d], Plain(d, now),
           d.collection \in {docs[id].collection, "deleted"}
    PROVE  VInv'
<1>1. /\ DOMAIN docs' = DOMAIN docs /\ docs'[id] = d
      /\ \A i \in DOMAIN docs : i # id => docs'[i] = docs[i]
  BY WriteEffect DEF IInv, TypeOK
<1>2. \A i \in DOMAIN docs : docs'[i].collection \in {docs[i].collection, "deleted"}
  BY <1>1
<1>3. \A i \in DOMAIN docs : Plain(docs'[i], now)
  BY <1>1 DEF VInv
<1>4. \A c \in Clients : Suits(api[c])'
  BY <1>2 DEF VInv, Suits, Grows, IInv, RequestsFit, Fits
<1>. QED BY <1>1, <1>3, <1>4 DEF VInv

\* A plain document is added.
LEMMA AppendIsPlain ==
    ASSUME IInv, VInv, Grows, UNCHANGED now, NEW d \in Document,
           docs' = Append(docs, d), Plain(d, now)
    PROVE  VInv'
<1>. DEFINE new == Len(docs) + 1
<1>1. /\ DOMAIN docs' = DOMAIN docs \union {new}
      /\ new \notin DOMAIN docs /\ docs'[new] = d
      /\ \A i \in DOMAIN docs : docs'[i] = docs[i]
  BY AppendEffect DEF IInv, TypeOK
<1>. HIDE DEF new
<1>2. \A i \in DOMAIN docs' : Plain(docs'[i], now)
  BY <1>1 DEF VInv
<1>3. \A c \in Clients : Suits(api[c])'
  BY <1>1 DEF VInv, Suits, Grows, IInv, RequestsFit, Fits
<1>. QED BY <1>2, <1>3 DEF VInv

\* What is created is plain.
LEMMA CreateIsPlain ==
    ASSUME IInv, VInv, NEW name, NEW data \in Document, create(name, data),
           name = "revisions" => data.status \in RevisionStatuses /\ data.at # Absent
    PROVE  VInv'
<1>. DEFINE d == Stored(name, data)
<1>1. docs' = Append(docs, d) /\ UNCHANGED <<now, api>> /\ name \in Collections
  BY DEF create
<1>2. now \in Times /\ now \in Int
  BY ConstantsAssumption DEF IInv, TypeOK, Times
<1>3. /\ d \in Document /\ d.collection = name /\ d.status = data.status
      /\ d.at = data.at /\ d.doneAt = data.doneAt /\ d.createdAt = now /\ d.updatedAt = now
  BY <1>1, <1>2, StoredEffect
<1>. HIDE DEF d
<1>4. Plain(d, now)
  BY <1>2, <1>3 DEF Plain
<1>5. Grows
  BY <1>1 DEF Grows
<1>. QED BY <1>1, <1>3, <1>4, <1>5, AppendIsPlain

LEMMA CreatesArePlain ==
    ASSUME IInv, VInv,
           createTask \/ createSession \/ createNote \/ createProblem \/ scheduleRevision
           \/ completeHabit
    PROVE  VInv'
<1>. USE BlankIsDocument, ConstantsAssumption
<1>1. now \in Times /\ now \in Nat /\ now # Absent /\ Absent \notin Nat
  BY DEF IInv, TypeOK, Times, Absent
<1>2. CASE createTask
  <2>1. PICK status \in Statuses, at \in Dates \union {Absent},
             reminderAt \in Reminders \union {Absent} :
          create("tasks", [Blank EXCEPT !.status = status, !.at = at, !.reminderAt = reminderAt,
                              !.doneAt = IF status = "completed" THEN now ELSE Absent])
    BY <1>2 DEF createTask
  <2>2. PICK data : data = [Blank EXCEPT !.status = status, !.at = at, !.reminderAt = reminderAt,
                              !.doneAt = IF status = "completed" THEN now ELSE Absent]
    OBVIOUS
  <2>3. data \in Document
    BY <1>1, <2>2, ZenonT(60) DEF Document
  <2>. QED BY <2>1, <2>2, <2>3, CreateIsPlain
<1>3. CASE createSession
  <2>1. PICK at \in Dates, minutes \in Minutes :
          create("study_sessions", [Blank EXCEPT !.at = at, !.durationMinutes = minutes])
    BY <1>3 DEF createSession
  <2>2. PICK data : data = [Blank EXCEPT !.at = at, !.durationMinutes = minutes]
    OBVIOUS
  <2>3. data \in Document
    BY <2>2 DEF Document
  <2>. QED BY <2>1, <2>2, <2>3, CreateIsPlain
<1>4. CASE createNote
  <2>1. PICK archived \in BOOLEAN : create("notes", [Blank EXCEPT !.flag = archived])
    BY <1>4 DEF createNote
  <2>2. PICK data : data = [Blank EXCEPT !.flag = archived]
    OBVIOUS
  <2>3. data \in Document
    BY <2>2 DEF Document
  <2>. QED BY <2>1, <2>2, <2>3, CreateIsPlain
<1>5. CASE createProblem
  <2>1. PICK status \in Solving :
          create("problems", [Blank EXCEPT !.status = status,
                                 !.doneAt = IF status = "completed" THEN now ELSE Absent])
    BY <1>5 DEF createProblem
  <2>2. PICK data : data = [Blank EXCEPT !.status = status,
                               !.doneAt = IF status = "completed" THEN now ELSE Absent]
    OBVIOUS
  <2>3. data \in Document
    BY <1>1, <2>2, ZenonT(60) DEF Document
  <2>. QED BY <2>1, <2>2, <2>3, CreateIsPlain
<1>6. CASE scheduleRevision
  <2>1. PICK at \in Dates : create("revisions", [Blank EXCEPT !.status = "scheduled", !.at = at])
    BY <1>6 DEF scheduleRevision
  <2>2. PICK data : data = [Blank EXCEPT !.status = "scheduled", !.at = at]
    OBVIOUS
  <2>3. data \in Document /\ data.status = "scheduled" /\ data.at = at
    BY <2>2 DEF Document, RevisionStatuses
  <2>4. at # Absent /\ data.status \in RevisionStatuses
    BY <1>1, <2>3 DEF RevisionStatuses
  <2>. QED BY <2>1, <2>2, <2>3, <2>4, CreateIsPlain
<1>7. CASE completeHabit
  <2>1. PICK data : data = [Blank EXCEPT !.at = dayKey]
    OBVIOUS
  <2>2. dayKey \in Nat
    BY <1>1 DEF dayKey, dayKeyOf
  <2>3. data \in Document
    BY <2>1, <2>2 DEF Document
  <2>. QED BY <1>7, <2>1, <2>3, CreateIsPlain DEF completeHabit
<1>. QED BY <1>2, <1>3, <1>4, <1>5, <1>6, <1>7

\* A patch leaves a document plain, as long as it suits a revision.
LEMMA UpdateIsPlain ==
    ASSUME IInv, VInv, Grows, UNCHANGED now, NEW id \in DOMAIN docs, NEW patch, PatchFits(patch),
           docs[id].collection # "deleted", update(id, patch),
           docs[id].collection = "revisions" /\ "status" \in DOMAIN patch =>
              patch.status \in RevisionStatuses
    PROVE  VInv'
<1>. DEFINE doc == [docs[id] EXCEPT !.updatedAt = now]
            d == Merged(doc, patch)
<1>1. now \in Times /\ docs[id] \in Document /\ now \in Int
  BY DocumentAt, ConstantsAssumption DEF IInv, TypeOK, Times
<1>2. /\ doc \in Document /\ doc.collection = docs[id].collection /\ doc.status = docs[id].status
      /\ doc.at = docs[id].at /\ doc.createdAt = docs[id].createdAt /\ doc.updatedAt = now
  BY <1>1 DEF Document
<1>3. docs' = [docs EXCEPT ![id] = d]
  BY DEF update
<1>. HIDE DEF doc
<1>4. /\ d \in Document /\ d.collection = doc.collection
      /\ d.status = IF "status" \in DOMAIN patch THEN patch.status ELSE doc.status
      /\ d.at = IF "at" \in DOMAIN patch THEN patch.at ELSE doc.at
      /\ d.createdAt = doc.createdAt /\ d.updatedAt = doc.updatedAt
  BY <1>1, <1>2, MergedEffect
<1>. HIDE DEF d
<1>5. Plain(d, now)
  <2>1. Plain(docs[id], now)
    BY DEF VInv
  <2>2. d.createdAt <= now /\ d.updatedAt <= now
    BY <1>1, <1>2, <1>4, <2>1 DEF Plain
  <2>3. "at" \in DOMAIN patch => patch.at # Absent
    BY DEF PatchFits, Absent
  <2>4. d.collection = "revisions" => d.status \in RevisionStatuses /\ d.at # Absent
    BY <1>2, <1>4, <2>1, <2>3 DEF Plain
  <2>. QED BY <1>2, <1>4, <2>2, <2>4 DEF Plain
<1>. QED BY <1>2, <1>3, <1>4, <1>5, RewriteIsPlain

LEMMA AnswerGrows ==
    ASSUME IInv, NEW c \in Clients, Answer(c)
    PROVE  Grows /\ UNCHANGED now
<1>1. api = [k \in Clients |-> api[k]] /\ Idle.op = "idle"
  BY DEF IInv, RequestsFit, Idle
<1>2. \A k \in Clients : api'[k] = IF k = c THEN Idle ELSE api[k]
  BY <1>1 DEF Answer
<1>. QED BY <1>1, <1>2 DEF Grows, Answer

\* The document that a request creates is plain.
LEMMA CreationIsPlain ==
    ASSUME IInv, VInv, NEW c \in Clients, NEW name \in Collections, Answer(c),
           docs' = Append(docs, Stored(name, Merged(Blank, api[c].patch))),
           PatchFits(api[c].patch),
           name = "revisions" =>
              /\ {"status", "at"} \subseteq DOMAIN api[c].patch
              /\ api[c].patch.status \in RevisionStatuses
    PROVE  VInv'
<1>1. PICK patch : patch = api[c].patch
  OBVIOUS
<1>. DEFINE data == Merged(Blank, patch)
            d == Stored(name, data)
<1>2. docs' = Append(docs, d) /\ PatchFits(patch) /\ now \in Times /\ now \in Int
  BY <1>1, ConstantsAssumption DEF IInv, TypeOK, Times
<1>3. /\ data \in Document
      /\ data.status = IF "status" \in DOMAIN patch THEN patch.status ELSE Blank.status
      /\ data.at = IF "at" \in DOMAIN patch THEN patch.at ELSE Blank.at
  BY <1>2, BlankIsDocument, MergedEffect
<1>4. name = "revisions" => data.status \in RevisionStatuses /\ data.at # Absent
  BY <1>1, <1>2, <1>3 DEF PatchFits, Absent
<1>. HIDE DEF data
<1>5. /\ d \in Document /\ d.collection = name /\ d.createdAt = now /\ d.updatedAt = now
      /\ d.status = data.status /\ d.at = data.at
  BY <1>2, <1>3, StoredEffect
<1>. HIDE DEF d
<1>6. Plain(d, now)
  BY <1>2, <1>4, <1>5 DEF Plain
<1>. QED BY <1>2, <1>5, <1>6, AnswerGrows, AppendIsPlain

\* Requests write plain documents.
LEMMA WritesArePlain ==
    ASSUME IInv, VInv, NEW c \in Clients,
           \/ WriteUpdate(c) \/ WriteCompletion(c) \/ RemoveDocument(c)
           \/ WriteReflection(c) \/ WriteRung(c)
    PROVE  VInv'
<1>1. PICK id, patch : id = api[c].id /\ patch = api[c].patch
  OBVIOUS
<1>2. CASE WriteUpdate(c) \/ WriteCompletion(c)
  <2>1. /\ api[c].op \in {"update", "complete"}
        /\ update(id, patch) /\ id \in DOMAIN docs /\ PatchFits(patch)
        /\ docs[id].collection = "revisions" /\ "status" \in DOMAIN patch =>
              patch.status \in RevisionStatuses
    BY <1>1, <1>2 DEF WriteUpdate, WriteCompletion, IInv, RequestsFit, Fits, VInv, Suits
  <2>2. Grows /\ UNCHANGED now
    <3>1. CASE Answer(c)
      BY <3>1, AnswerGrows
    <3>2. CASE ~Answer(c)
      <4>1. PICK at : /\ api' = [api EXCEPT ![c] = [op |-> "rung", id |-> 0,
                                           patch |-> [status |-> "scheduled", at |-> at]]]
                      /\ UNCHANGED now
        BY <1>2, <3>2 DEF WriteUpdate, WriteCompletion
      <4>2. \A k \in Clients : api'[k] = api[k] \/ api'[k].op = "rung"
        BY <4>1 DEF IInv, RequestsFit
      <4>. QED BY <4>1, <4>2 DEF Grows
    <3>. QED BY <3>1, <3>2
  <2>3. CASE docs[id].collection # "deleted"
    BY <2>1, <2>2, <2>3, UpdateIsPlain
  <2>4. CASE docs[id].collection = "deleted"
    <3>1. docs' = docs /\ docs[id] \in Document /\ Plain(docs[id], now)
      BY <2>1, <2>4, DocumentAt DEF update, IInv, VInv
    <3>2. docs' = [docs EXCEPT ![id] = docs[id]]
      BY <2>1, <3>1 DEF IInv, TypeOK
    <3>. QED BY <2>1, <2>2, <2>4, <3>1, <3>2, RewriteIsPlain
  <2>. QED BY <2>3, <2>4
<1>3. CASE RemoveDocument(c)
  <2>1. docs' = [docs EXCEPT ![id] = Blank] /\ id \in DOMAIN docs /\ Answer(c)
    BY <1>1, <1>3 DEF RemoveDocument, IInv, RequestsFit, Fits
  <2>2. Blank \in Document /\ Blank.collection = "deleted"
    BY BlankIsDocument
  <2>3. Plain(Blank, now)
    <3>1. Blank.createdAt = 0 /\ Blank.updatedAt = 0 /\ 0 <= now
      BY ConstantsAssumption DEF Blank, IInv, TypeOK, Times
    <3>. QED BY <2>2, <3>1 DEF Plain
  <2>. QED BY <2>1, <2>2, <2>3, AnswerGrows, RewriteIsPlain
<1>4. CASE WriteReflection(c)
  <2>1. /\ docs' = Append(docs, Stored("reflections", Merged(Blank, api[c].patch)))
        /\ PatchFits(api[c].patch) /\ "reflections" \in Collections /\ Answer(c)
    BY <1>4 DEF WriteReflection, IInv, RequestsFit, Fits
  <2>. QED BY <2>1, CreationIsPlain
<1>5. CASE WriteRung(c)
  <2>1. /\ docs' = Append(docs, Stored("revisions", Merged(Blank, api[c].patch)))
        /\ PatchFits(api[c].patch) /\ "revisions" \in Collections /\ Answer(c)
        /\ DOMAIN api[c].patch = {"status", "at"} /\ api[c].patch.status = "scheduled"
    BY <1>5 DEF WriteRung, IInv, RequestsFit, Fits
  <2>. QED BY <2>1, CreationIsPlain DEF RevisionStatuses
<1>. QED BY <1>2, <1>3, <1>4, <1>5

LEMMA AcceptIsPlain ==
    ASSUME IInv, VInv, NEW c \in Clients, NEW q, api' = [api EXCEPT ![c] = q],
           UNCHANGED <<now, docs>>, Suits(q)
    PROVE  VInv'
<1>1. \A d \in Clients : api'[d] = IF d = c THEN q ELSE api[d]
  BY DEF IInv, RequestsFit
<1>2. \A d \in Clients : Suits(api[d])'
  BY <1>1 DEF VInv, Suits
<1>. QED BY <1>2 DEF VInv

LEMMA BeginIsPlain ==
    ASSUME IInv, VInv, NEW c \in Clients, NEW name, NEW op, NEW id, NEW patch,
           Begin(c, name, op, id, patch),
           /\ name = "revisions" /\ op # "delete" /\ "status" \in DOMAIN patch
           => patch.status \in RevisionStatuses
    PROVE  VInv'
<1>1. PICK q : q = [op |-> op, id |-> id, patch |-> patch]
  OBVIOUS
<1>2. api' = [api EXCEPT ![c] = q] /\ UNCHANGED <<now, docs>> /\ docs[id].collection = name
  BY <1>1 DEF Begin, In
<1>3. Suits(q)
  BY <1>1, <1>2 DEF Suits
<1>. QED BY <1>2, <1>3, AcceptIsPlain

\* A request that begins suits what it is for.
LEMMA BeginsArePlain ==
    ASSUME IInv, VInv, NEW c \in Clients,
           \/ BeginUpdateTask(c) \/ BeginUpdateSession(c) \/ BeginUpdateReflection(c)
           \/ BeginUpdateNote(c) \/ BeginUpdateProblem(c) \/ BeginUpdateRevision(c)
           \/ BeginReflection(c) \/ BeginDelete(c)
    PROVE  VInv'
<1>1. CASE \/ BeginUpdateTask(c) \/ BeginUpdateSession(c) \/ BeginUpdateReflection(c)
           \/ BeginUpdateNote(c) \/ BeginUpdateProblem(c)
  <2>1. \E name \in CollectionNames \ {"revisions"} :
            \E op, id, patch : Begin(c, name, op, id, patch)
    <3>1. BeginUpdateTask(c) => \E op, id, patch : Begin(c, "tasks", op, id, patch)
      BY DEF BeginUpdateTask
    <3>2. BeginUpdateSession(c) => \E op, id, patch : Begin(c, "study_sessions", op, id, patch)
      BY DEF BeginUpdateSession
    <3>3. BeginUpdateReflection(c) => \E op, id, patch : Begin(c, "reflections", op, id, patch)
      BY DEF BeginUpdateReflection
    <3>4. BeginUpdateNote(c) => \E op, id, patch : Begin(c, "notes", op, id, patch)
      BY DEF BeginUpdateNote
    <3>5. BeginUpdateProblem(c) => \E op, id, patch : Begin(c, "problems", op, id, patch)
      BY DEF BeginUpdateProblem
    <3>. QED BY <1>1, <3>1, <3>2, <3>3, <3>4, <3>5 DEF CollectionNames
  <2>. QED BY <2>1, BeginIsPlain
<1>2. CASE BeginUpdateRevision(c)
  <2>1. PICK id, op, patch : /\ op \in {"update", "complete"} /\ Begin(c, "revisions", op, id, patch)
                             /\ RevisionPatch(op, patch)
    BY <1>2, RevisionRequests
  <2>2. "status" \in DOMAIN patch => patch.status \in RevisionStatuses
    BY <2>1 DEF RevisionPatch, RevisionStatuses
  <2>. QED BY <2>1, <2>2, BeginIsPlain
<1>3. CASE BeginDelete(c)
  <2>1. PICK name, id : Begin(c, name, "delete", id, <<>>)
    BY <1>3 DEF BeginDelete
  <2>. QED BY <2>1, BeginIsPlain
<1>4. CASE BeginReflection(c)
  <2>1. PICK day, goals :
          \/ \E id : Begin(c, "reflections", "update", id, [flag |-> goals])
          \/ /\ api' = [api EXCEPT ![c] = [op |-> "create", id |-> 0,
                                           patch |-> [at |-> day, flag |-> goals]]]
             /\ UNCHANGED <<now, docs>>
    BY <1>4 DEF BeginReflection
  <2>2. CASE \E id : Begin(c, "reflections", "update", id, [flag |-> goals])
    BY <2>2, BeginIsPlain
  <2>3. CASE /\ api' = [api EXCEPT ![c] = [op |-> "create", id |-> 0,
                                           patch |-> [at |-> day, flag |-> goals]]]
             /\ UNCHANGED <<now, docs>>
    <3>1. PICK q : q = [op |-> "create", id |-> 0, patch |-> [at |-> day, flag |-> goals]]
      OBVIOUS
    <3>2. Suits(q)
      BY <3>1 DEF Suits
    <3>. QED BY <2>3, <3>1, <3>2, AcceptIsPlain
  <2>. QED BY <2>1, <2>2, <2>3
<1>. QED BY <1>1, <1>2, <1>3, <1>4

\* What the views take for granted holds in every reachable state.
LEMMA ViewsInvariant == Spec => [](IInv /\ VInv)
<1>1. Init => VInv
  BY DEF Init, VInv, Suits, Idle
<1>2. IInv /\ VInv /\ [Next]_vars => VInv'
  <2>. SUFFICES ASSUME IInv, VInv, [Next]_vars PROVE VInv'
    OBVIOUS
  <2>1. CASE Tick
    <3>1. now' = now + 1 /\ UNCHANGED <<docs, api>> /\ now \in Int
      BY <2>1, ConstantsAssumption DEF Tick, IInv, TypeOK, Times
    <3>2. \A id \in DOMAIN docs : docs[id].createdAt \in Int /\ docs[id].updatedAt \in Int
      BY DocumentAt, ConstantsAssumption DEF IInv, Document, Times
    <3>3. \A id \in DOMAIN docs : Plain(docs[id], now')
      BY <3>1, <3>2 DEF VInv, Plain
    <3>. QED BY <3>1, <3>3 DEF VInv, Suits
  <2>2. CASE Create
    BY <2>2, CreatesArePlain DEF Create
  <2>3. ASSUME NEW c \in Clients, Request(c) PROVE VInv'
    BY <2>3, WritesArePlain, BeginsArePlain DEF Request
  <2>4. CASE UNCHANGED vars
    BY <2>4 DEF vars, VInv, Suits
  <2>. QED BY <2>1, <2>2, <2>3, <2>4 DEF Next
<1>. QED BY <1>1, <1>2, Invariant, PTL DEF Spec

-----------------------------------------------------------------------------
(* Sizes, and minutes.                                                      *)

LEMMA PartSize ==
    ASSUME NEW whole, IsFiniteSet(whole), NEW part, part \subseteq whole
    PROVE  IsFiniteSet(part) /\ Cardinality(part) \in Nat
<1>1. part \in SUBSET whole
  OBVIOUS
<1>2. IsFiniteSet(part)
  BY <1>1, FS_Subset
<1>. QED BY <1>2, FS_CardinalityType

LEMMA DisjointSizes ==
    ASSUME NEW a, NEW b, IsFiniteSet(a), IsFiniteSet(b), a \intersect b = {}
    PROVE  IsFiniteSet(a \union b) /\ Cardinality(a \union b) = Cardinality(a) + Cardinality(b)
<1>1. /\ IsFiniteSet(a \union b)
      /\ Cardinality(a \union b) = Cardinality(a) + Cardinality(b) - Cardinality(a \intersect b)
  BY FS_Union
<1>2. Cardinality(a \intersect b) = 0
  BY FS_EmptySet
<1>3. Cardinality(a) \in Nat /\ Cardinality(b) \in Nat
  BY FS_CardinalityType
<1>. QED BY <1>1, <1>2, <1>3

\* A set has as many elements as the set it is mapped onto, one to one.
LEMMA SameSize ==
    ASSUME NEW a, IsFiniteSet(a), NEW b, NEW f \in [a -> b],
           \A y \in b : \E x \in a : f[x] = y,
           \A x, y \in a : f[x] = f[y] => x = y
    PROVE  IsFiniteSet(b) /\ Cardinality(b) = Cardinality(a)
<1>1. f \in Bijection(a, b)
  BY DEF Bijection, Injection, Surjection, IsInjective
<1>2. ExistsBijection(a, b)
  BY <1>1 DEF ExistsBijection
<1>. QED BY <1>2, FS_Bijection

\* A document and n minutes make n pairs.
LEMMA PairsSize ==
    ASSUME NEW x, NEW m \in Nat
    PROVE  IsFiniteSet({x} \X (1 .. m)) /\ Cardinality({x} \X (1 .. m)) = m
<1>1. IsFiniteSet(1 .. m) /\ Cardinality(1 .. m) = m
  <2>1. PICK first : first = 1
    OBVIOUS
  <2>2. IsFiniteSet(first .. m) /\ Cardinality(first .. m) = IF first > m THEN 0 ELSE m - first + 1
    BY <2>1, FS_Interval
  <2>. QED BY <2>1, <2>2
<1>2. PICK a, b : a = 1 .. m /\ b = {x} \X (1 .. m)
  OBVIOUS
<1>3. PICK f : f = [i \in a |-> <<x, i>>]
  OBVIOUS
<1>4. f \in [a -> b] /\ \A y \in b : \E i \in a : f[i] = y
  BY <1>2, <1>3
<1>5. \A i, j \in a : f[i] = f[j] => i = j
  BY <1>3
<1>6. IsFiniteSet(a) /\ Cardinality(a) = m
  BY <1>1, <1>2
<1>7. IsFiniteSet(b) /\ Cardinality(b) = Cardinality(a)
  BY <1>4, <1>5, <1>6, SameSize
<1>. QED BY <1>2, <1>6, <1>7

\* The documents are finitely many, and numbered.
LEMMA IdsFinite ==
    ASSUME IInv
    PROVE  /\ IsFiniteSet(DOMAIN docs) /\ DOMAIN docs \subseteq Int
           /\ \A ids : ids \subseteq DOMAIN docs =>
                 IsFiniteSet(ids) /\ Cardinality(ids) \in Nat /\ ids \subseteq Int
<1>1. docs \in Seq(Document) /\ Len(docs) \in Nat /\ DOMAIN docs = 1 .. Len(docs)
  BY DEF IInv, TypeOK
<1>2. PICK first, last : first = 1 /\ last = Len(docs)
  OBVIOUS
<1>3. IsFiniteSet(first .. last)
  BY <1>1, <1>2, FS_Interval
<1>4. IsFiniteSet(DOMAIN docs) /\ DOMAIN docs \subseteq Int
  BY <1>1, <1>2, <1>3
<1>5. \A ids : ids \subseteq DOMAIN docs => IsFiniteSet(ids) /\ Cardinality(ids) \in Nat
  BY <1>4, PartSize
<1>. QED BY <1>4, <1>5

LEMMA MinutesAreNumbers ==
    ASSUME IInv, NEW id \in DOMAIN docs
    PROVE  docs[id].durationMinutes \in Nat
<1>1. docs[id] \in Document
  BY DocumentAt DEF IInv
<1>2. docs[id].durationMinutes \in Minutes \union {0}
  BY <1>1 DEF Document
<1>3. Minutes \subseteq Nat
  BY ConstantsAssumption
<1>4. docs[id].durationMinutes \in Minutes => docs[id].durationMinutes \in Nat
  BY <1>3
<1>. QED BY <1>2, <1>4

\* Every minute of every document, by itself.
Units(ids) == UNION {{id} \X (1 .. docs[id].durationMinutes) : id \in ids}

\* The minutes of documents are so many units of time.
LEMMA MinutesAreUnits ==
    ASSUME IInv, NEW ids, ids \subseteq DOMAIN docs
    PROVE  /\ IsFiniteSet(Units(ids)) /\ MinutesOf(ids) = Cardinality(Units(ids))
           /\ MinutesOf(ids) \in Nat
<1>. DEFINE n == Cardinality(ids)
            list == Ascending(ids)
            amounts == [i \in 1 .. n |-> docs[list[i]].durationMinutes]
            sets == [i \in 1 .. n |-> {list[i]} \X (1 .. amounts[i])]
<1>1. IsFiniteSet(ids) /\ n \in Nat /\ ids \subseteq Int
  BY IdsFinite
<1>2. Lists(list, ids)
  BY <1>1, AscendingIs
<1>. HIDE DEF list
<1>3. /\ list \in [1 .. n -> ids] /\ \A x \in ids : \E i \in 1 .. n : list[i] = x
      /\ \A i, j \in 1 .. n : list[i] = list[j] => i = j
  BY <1>2 DEF Lists
<1>4. MinutesOf(ids) = Total(amounts)
  BY DEF MinutesOf, list
<1>5. \A i \in 1 .. n : list[i] \in DOMAIN docs /\ docs[list[i]].durationMinutes \in Nat
  BY <1>3, MinutesAreNumbers
<1>6. amounts \in [1 .. n -> Nat]
  BY <1>5
<1>7. \A i \in 1 .. n : amounts[i] = docs[list[i]].durationMinutes /\ amounts[i] \in Nat
  BY <1>5
<1>8. \A i \in 1 .. n : sets[i] = {list[i]} \X (1 .. amounts[i])
  OBVIOUS
<1>. HIDE DEF amounts, sets, n
<1>9. \A i \in 1 .. n : IsFiniteSet(sets[i]) /\ Cardinality(sets[i]) = amounts[i]
  <2>. TAKE i \in 1 .. n
  <2>1. PICK x, m : m \in Nat /\ m = amounts[i] /\ x = list[i]
    BY <1>7
  <2>2. IsFiniteSet({x} \X (1 .. m)) /\ Cardinality({x} \X (1 .. m)) = m
    BY <2>1, PairsSize
  <2>. QED BY <1>8, <2>1, <2>2
<1>10. \A i, j \in 1 .. n : i # j => sets[i] \intersect sets[j] = {}
  BY <1>3, <1>8
<1>11. /\ IsFiniteSet(Pieces(sets, n))
       /\ Total(amounts) = Cardinality(Pieces(sets, n))
  BY <1>1, <1>6, <1>9, <1>10, TotalCounts
<1>12. Pieces(sets, n) = Units(ids)
  <2>1. \A i \in 1 .. n : /\ sets[i] = {list[i]} \X (1 .. docs[list[i]].durationMinutes)
                         /\ list[i] \in ids
    BY <1>3, <1>7, <1>8
  <2>2. ASSUME NEW u \in Pieces(sets, n) PROVE u \in Units(ids)
    BY <2>1, <2>2 DEF Units, Pieces
  <2>3. ASSUME NEW u \in Units(ids) PROVE u \in Pieces(sets, n)
    <3>1. PICK id \in ids : u \in {id} \X (1 .. docs[id].durationMinutes)
      BY <2>3 DEF Units
    <3>2. PICK i \in 1 .. n : list[i] = id
      BY <1>3, <3>1
    <3>3. u \in sets[i]
      BY <2>1, <3>1, <3>2
    <3>. QED BY <3>3 DEF Pieces
  <2>. QED BY <2>2, <2>3
<1>13. Cardinality(Units(ids)) \in Nat
  BY <1>11, <1>12, FS_CardinalityType
<1>. QED BY <1>4, <1>11, <1>12, <1>13

\* The minutes of disjoint sets of documents add up.
LEMMA MinutesAdd ==
    ASSUME IInv, NEW a, NEW b, a \subseteq DOMAIN docs, b \subseteq DOMAIN docs,
           a \intersect b = {}
    PROVE  MinutesOf(a \union b) = MinutesOf(a) + MinutesOf(b)
<1>1. Units(a \union b) = Units(a) \union Units(b)
  BY DEF Units
<1>2. Units(a) \intersect Units(b) = {}
  BY DEF Units
<1>3. a \union b \subseteq DOMAIN docs
  OBVIOUS
<1>4. /\ IsFiniteSet(Units(a)) /\ MinutesOf(a) = Cardinality(Units(a))
      /\ IsFiniteSet(Units(b)) /\ MinutesOf(b) = Cardinality(Units(b))
      /\ MinutesOf(a \union b) = Cardinality(Units(a \union b))
  BY <1>3, MinutesAreUnits
<1>5. PICK s, t : s = Units(a) /\ t = Units(b)
  OBVIOUS
<1>6. Cardinality(s \union t) = Cardinality(s) + Cardinality(t)
  BY <1>2, <1>4, <1>5, DisjointSizes
<1>. QED BY <1>1, <1>4, <1>5, <1>6

LEMMA NoMinutes == IInv => MinutesOf({}) = 0
<1>. SUFFICES ASSUME IInv PROVE MinutesOf({}) = 0
  OBVIOUS
<1>1. Units({}) = {}
  BY DEF Units
<1>. QED BY <1>1, MinutesAreUnits, FS_EmptySet

-----------------------------------------------------------------------------
(* Scores.                                                                  *)

\* A share is at most its weight, and nothing has no share.
LEMMA Capped ==
    ASSUME NEW amount \in Nat, NEW target \in Nat \ {0}, NEW k \in Nat
    PROVE  /\ (k * Min({amount, target})) \div target \in 0 .. k
           /\ amount = 0 => (k * Min({amount, target})) \div target = 0
<1>1. PICK m : m = Min({amount, target})
  OBVIOUS
<1>2. m \in Nat /\ m <= target /\ (amount = 0 => m = 0)
  BY <1>1, MinOfTwo
<1>3. k * m \in Nat /\ k * m < k * target + target
  <2>1. k * m \in Nat
    BY <1>2, Products
  <2>2. m * k <= target * k
    BY <1>2, Monotone
  <2>. QED BY <1>2, <2>1, <2>2
<1>4. (k * m) \div target <= k
  BY <1>3, QuotientAtMost
<1>5. (k * m) \div target \in Nat
  BY <1>3, Division
<1>6. m = 0 => (k * m) \div target = 0
  <2>1. ASSUME m = 0 PROVE k * m = 0
    BY <2>1
  <2>2. 0 \div target = 0
    <3>1. PICK none \in Nat : none = 0
      OBVIOUS
    <3>2. none * target <= none /\ none < none * target + target
      BY <3>1
    <3>3. none \div target = none
      BY <3>2, QuotientIs
    <3>. QED BY <3>1, <3>3
  <2>. QED BY <2>1, <2>2
<1>. QED BY <1>1, <1>2, <1>4, <1>5, <1>6

LEMMA RoundedAtMost ==
    ASSUME NEW n \in Nat, NEW d \in Nat \ {0}, NEW k \in Nat, n <= k * d
    PROVE  Rounded(n, d) <= k
<1>1. PICK a, b : a = 2 * n + d /\ b = 2 * d
  OBVIOUS
<1>2. a \in Nat /\ b \in Nat \ {0}
  BY <1>1
<1>3. k * b = 2 * (k * d)
  BY <1>1
<1>4. a < k * b + b
  <2>1. k * d \in Nat
    BY Products
  <2>. QED BY <1>1, <1>3, <2>1
<1>5. a \div b <= k
  BY <1>2, <1>4, QuotientAtMost
<1>. QED BY <1>1, <1>5 DEF Rounded

\* The home screen's score is capped, and one share alone by its weight.
LEMMA CompositeAtMost ==
    ASSUME NEW minutes \in Nat, NEW problems \in Nat, NEW tasks \in Nat, NEW days \in Nat
    PROVE  LET score == Composite(minutes, problems, tasks, days) IN
           /\ score <= 100
           /\ problems = 0 /\ tasks = 0 /\ days = 0 => score <= 40
           /\ minutes = 0 /\ tasks = 0 /\ days = 0 => score <= 30
           /\ minutes = 0 /\ problems = 0 /\ days = 0 => score <= 20
<1>1. PICK s : s = TARGET_STUDY_MINUTES * TARGET_PROBLEMS * TARGET_TASKS * TARGET_REFLECTION_DAYS
  OBVIOUS
<1>2. s \in Nat \ {0}
  BY <1>1, TargetsAssumption
<1>3. PICK a, b, c, d :
        /\ a = Share(minutes, TARGET_STUDY_MINUTES, 40, s)
        /\ b = Share(problems, TARGET_PROBLEMS, 30, s)
        /\ c = Share(tasks, TARGET_TASKS, 20, s)
        /\ d = Share(days, TARGET_REFLECTION_DAYS, 10, s)
  OBVIOUS
<1>4. Composite(minutes, problems, tasks, days) = Rounded(a + b + c + d, s)
  BY <1>1, <1>3 DEF Composite
<1>5. ASSUME NEW amount \in Nat, NEW target \in Nat \ {0}, NEW weight \in Nat
      PROVE  /\ Share(amount, target, weight, s) \in 0 .. weight * s
             /\ amount = 0 => Share(amount, target, weight, s) = 0
  <2>1. PICK k \in Nat : k = weight * s
    BY <1>2, Products
  <2>. QED BY <2>1, Capped DEF Share
<1>6. /\ a \in 0 .. 40 * s /\ b \in 0 .. 30 * s /\ c \in 0 .. 20 * s /\ d \in 0 .. 10 * s
      /\ minutes = 0 => a = 0
      /\ problems = 0 => b = 0
      /\ tasks = 0 => c = 0
      /\ days = 0 => d = 0
  BY <1>3, <1>5, TargetsAssumption
<1>7. PICK total : total = a + b + c + d
  OBVIOUS
<1>8. /\ total \in Nat /\ total <= 100 * s
      /\ problems = 0 /\ tasks = 0 /\ days = 0 => total <= 40 * s
      /\ minutes = 0 /\ tasks = 0 /\ days = 0 => total <= 30 * s
      /\ minutes = 0 /\ problems = 0 /\ days = 0 => total <= 20 * s
  BY <1>2, <1>6, <1>7
<1>9. \A k \in Nat : total <= k * s => Rounded(total, s) <= k
  BY <1>2, <1>8, RoundedAtMost
<1>. QED BY <1>4, <1>7, <1>8, <1>9

LEMMA NothingDue == rate(0, 0) = 0
  BY DEF rate

\* The score of a report with some of its figures at 0.
LEMMA ReportAtMost ==
    ASSUME NEW input, input.studyHours \in Nat, input.problemsSolved \in Nat,
           input.focusSessions \in Nat, input.revisionCompletionRate = 0,
           input.taskCompletionRate = 0, input.habitCompletionRate = 0
    PROVE  /\ input.problemsSolved = 0 => productivityScore(input) <= 35
           /\ input.studyHours = 0 /\ input.focusSessions = 0 => productivityScore(input) <= 20
<1>1. PICK s : s = 10 * HealthyHours * HealthyProblems * HealthySessions
  OBVIOUS
<1>2. s \in Nat \ {0} /\ {HealthyHours, HealthyProblems, HealthySessions} \subseteq Nat \ {0}
  BY <1>1, RangesAssumption
<1>3. PICK a, b, c :
        /\ a = Signal(input.studyHours, 10 * HealthyHours, 25, s)
        /\ b = Signal(input.problemsSolved, HealthyProblems, 20, s)
        /\ c = Signal(input.focusSessions, HealthySessions, 10, s)
  OBVIOUS
<1>4. PICK composite : composite = a + b + s * (20 * 0 + 15 * 0 + 10 * 0) + c
  OBVIOUS
<1>5. productivityScore(input) = Min({100, (composite + 50 * s) \div (100 * s)})
  BY <1>1, <1>3, <1>4 DEF productivityScore
<1>6. ASSUME NEW amount \in Nat, NEW healthy \in Nat \ {0}, NEW weight \in Nat
      PROVE  /\ Signal(amount, healthy, weight, s) \in 0 .. weight * s * 100
             /\ amount = 0 => Signal(amount, healthy, weight, s) = 0
  <2>1. PICK k \in Nat : k = weight * s * 100
    BY <1>2
  <2>. QED BY <2>1, Capped DEF Signal
<1>7. 10 * HealthyHours \in Nat \ {0}
  BY <1>2
<1>8. /\ a \in 0 .. 25 * s * 100 /\ b \in 0 .. 20 * s * 100 /\ c \in 0 .. 10 * s * 100
      /\ input.studyHours = 0 => a = 0
      /\ input.problemsSolved = 0 => b = 0
      /\ input.focusSessions = 0 => c = 0
  BY <1>2, <1>3, <1>6, <1>7
<1>9. s * (20 * 0 + 15 * 0 + 10 * 0) = 0
  BY <1>2
<1>10. PICK n, d : n = composite + 50 * s /\ d = 100 * s
  OBVIOUS
<1>11. /\ n \in Nat /\ d \in Nat \ {0}
       /\ input.problemsSolved = 0 => n < 35 * d + d
       /\ input.studyHours = 0 /\ input.focusSessions = 0 => n < 20 * d + d
  BY <1>2, <1>4, <1>8, <1>9, <1>10
<1>12. \A k \in Nat : n < k * d + d => n \div d <= k
  BY <1>11, QuotientAtMost
<1>13. Min({100, n \div d}) <= n \div d
  <2>1. n \div d \in Int
    BY <1>11, Division
  <2>2. PICK q \in Int : q = n \div d
    BY <2>1
  <2>3. Min({100, q}) = IF 100 <= q THEN 100 ELSE q
    BY MinOfTwo
  <2>. QED BY <2>2, <2>3
<1>14. Min({100, n \div d}) \in Int /\ n \div d \in Int
  <2>1. PICK q \in Int : q = n \div d
    BY <1>11, Division
  <2>2. Min({100, q}) = IF 100 <= q THEN 100 ELSE q
    BY MinOfTwo
  <2>. QED BY <2>1, <2>2
<1>. QED BY <1>5, <1>10, <1>11, <1>12, <1>13, <1>14

-----------------------------------------------------------------------------
LEMMA ReportFigures ==
    ASSUME NEW week
    PROVE  LET figures == getWeeklyReport(week).figures
               weekStart == startOfIsoWeek(week)
           IN /\ figures.studyHours = (MinutesOf(OfWeek("study_sessions", weekStart)) + 3) \div 6
              /\ figures.problemsSolved = Cardinality(OfWeek("problems", weekStart))
              /\ figures.focusSessions = Cardinality(OfWeek("study_sessions", weekStart))
              /\ figures.revisionCompletionRate = DueRate("revisions", weekStart)
              /\ figures.taskCompletionRate = DueRate("tasks", weekStart)
              /\ figures.habitCompletionRate = computeHabitRate
              /\ getWeeklyReport(week).productivityScore = productivityScore(figures)
  BY DEF getWeeklyReport

LEMMA NoneDue ==
    ASSUME IInv, NEW name, In(name) = {}, NEW weekStart
    PROVE  DueRate(name, weekStart) = 0
<1>1. PICK due : due = {id \in In(name) : inWindow(docs[id].at, weekStart)}
  OBVIOUS
<1>2. due = {} /\ {id \in due : docs[id].status = "completed"} = {}
  BY <1>1
<1>. QED BY <1>1, <1>2, NothingDue, FS_EmptySet DEF DueRate

LEMMA NoHabits == ASSUME IInv, In("habits") = {} PROVE computeHabitRate = 0
<1>1. {id \in In("habits") : ~docs[id].flag} = {}
  OBVIOUS
<1>2. Cardinality({}) = 0 /\ 0 * DaysPerWeek = 0
  BY FS_EmptySet, ConstantsAssumption
<1>. QED BY <1>1, <1>2, NothingDue DEF computeHabitRate

\* A report on a user with documents of one collection alone.
LEMMA ReportOfOneKind ==
    ASSUME IInv, NEW name, DOMAIN docs = In(name)
    PROVE  LET score == getWeeklyReport(now).productivityScore IN
           /\ name = "study_sessions" => score <= 35
           /\ name = "problems" => score <= 20
<1>1. \A other : other # name => In(other) = {}
  BY DEF In
<1>2. PICK figures : figures = getWeeklyReport(now).figures
  OBVIOUS
<1>3. PICK weekStart : weekStart = startOfIsoWeek(now)
  OBVIOUS
<1>4. /\ figures.studyHours = (MinutesOf(OfWeek("study_sessions", weekStart)) + 3) \div 6
      /\ figures.problemsSolved = Cardinality(OfWeek("problems", weekStart))
      /\ figures.focusSessions = Cardinality(OfWeek("study_sessions", weekStart))
      /\ figures.revisionCompletionRate = DueRate("revisions", weekStart)
      /\ figures.taskCompletionRate = DueRate("tasks", weekStart)
      /\ figures.habitCompletionRate = computeHabitRate
      /\ getWeeklyReport(now).productivityScore = productivityScore(figures)
  BY <1>2, <1>3, ReportFigures
<1>5. \A other : OfWeek(other, weekStart) \subseteq DOMAIN docs
  BY DEF OfWeek, In
<1>6. \A other : other # name => OfWeek(other, weekStart) = {}
  BY <1>1 DEF OfWeek
<1>7. figures.problemsSolved \in Nat /\ figures.focusSessions \in Nat
  BY <1>4, <1>5, IdsFinite
<1>8. /\ figures.studyHours \in Nat
      /\ MinutesOf(OfWeek("study_sessions", weekStart)) = 0 => figures.studyHours = 0
  <2>1. PICK minutes \in Nat : minutes = MinutesOf(OfWeek("study_sessions", weekStart))
    BY <1>5, MinutesAreUnits
  <2>2. (minutes + 3) \div 6 \in Nat /\ (minutes = 0 => (minutes + 3) \div 6 = 0)
    OBVIOUS
  <2>. QED BY <1>4, <2>1, <2>2
<1>9. ASSUME name \in {"study_sessions", "problems"}
      PROVE  /\ figures.revisionCompletionRate = 0 /\ figures.taskCompletionRate = 0
             /\ figures.habitCompletionRate = 0
  BY <1>1, <1>4, <1>9, NoneDue, NoHabits
<1>10. name = "study_sessions" => figures.problemsSolved = 0
  BY <1>4, <1>6, FS_EmptySet
<1>11. name = "problems" => figures.focusSessions = 0 /\ figures.studyHours = 0
  BY <1>4, <1>6, <1>8, FS_EmptySet, NoMinutes
<1>. QED BY <1>4, <1>7, <1>8, <1>9, <1>10, <1>11, ReportAtMost

\* The home screen's score of a user with documents of one collection alone.
LEMMA ScoreOfOneKind ==
    ASSUME IInv
    PROVE  LET score == computeWeeklyProductivityScore IN
           /\ score <= 100
           /\ DOMAIN docs = In("study_sessions") => score <= 40
           /\ DOMAIN docs = In("problems") => score <= 30
           /\ DOMAIN docs = In("tasks") => score <= 20
<1>1. PICK minutes, problems, tasks, days :
        /\ minutes = MinutesOf(Sessions) /\ problems = Cardinality(Problems)
        /\ tasks = Cardinality({id \in In("tasks") : docs[id].status = "completed"})
        /\ days = reflectionDays
  OBVIOUS
<1>2. /\ Sessions \subseteq In("study_sessions") /\ Problems \subseteq In("problems")
      /\ Reflections \subseteq In("reflections")
  BY DEF Sessions, Problems, Reflections, fetchStudySessionsSince, fetchProblemsSolvedSince,
         fetchReflectionsSince
<1>3. \A name : In(name) \subseteq DOMAIN docs
  BY DEF In
<1>4. minutes \in Nat
  BY <1>1, <1>2, <1>3, MinutesAreUnits
<1>5. problems \in Nat /\ tasks \in Nat /\ days \in Nat
  BY <1>1, <1>2, <1>3, IdsFinite DEF reflectionDays
<1>6. \A name, other : DOMAIN docs = In(name) /\ other # name => In(other) = {}
  BY DEF In
<1>7. /\ In("study_sessions") = {} => minutes = 0
      /\ In("problems") = {} => problems = 0
      /\ In("tasks") = {} => tasks = 0
      /\ In("reflections") = {} => days = 0
  <2>1. In("study_sessions") = {} => minutes = 0
    BY <1>1, <1>2, NoMinutes
  <2>2. In("problems") = {} => problems = 0
    BY <1>1, <1>2, FS_EmptySet
  <2>3. In("tasks") = {} => tasks = 0
    BY <1>1, FS_EmptySet
  <2>4. In("reflections") = {} => days = 0
    <3>1. In("reflections") = {} => {id \in Reflections : docs[id].flag} = {}
      BY <1>2
    <3>. QED BY <1>1, <3>1, FS_EmptySet DEF reflectionDays
  <2>. QED BY <2>1, <2>2, <2>3, <2>4
<1>8. computeWeeklyProductivityScore = Composite(minutes, problems, tasks, days)
  BY <1>1 DEF computeWeeklyProductivityScore
<1>. QED BY <1>4, <1>5, <1>6, <1>7, <1>8, CompositeAtMost

\* No one dimension makes more of the scores than its weight, however much of it
\* there was and whatever the targets are.
THEOREM ScoreIsCapped == Spec => []ScoresAreCapped
<1>1. ASSUME IInv PROVE ScoresAreCapped
  BY <1>1, ScoreOfOneKind, ReportOfOneKind DEF ScoresAreCapped
<1>. QED BY <1>1, Invariant, PTL

-----------------------------------------------------------------------------
(* Sorted lists.                                                            *)

LEMMA PrecedesIs ==
    ASSUME NEW direction
    PROVE  /\ \A a \in Int : ~Precedes(a, a, direction)
           /\ \A a, b \in Int : Precedes(a, b, direction) => ~Precedes(b, a, direction)
           /\ \A a, b, c \in Int :
                 Precedes(a, b, direction) /\ ~Precedes(c, b, direction) =>
                     Precedes(a, c, direction)
           /\ \A a, b, c \in Int :
                 ~Precedes(b, a, direction) /\ Precedes(b, c, direction) =>
                     Precedes(a, c, direction)
           /\ \A a, b, c \in Int :
                 ~Precedes(b, a, direction) /\ ~Precedes(c, b, direction) =>
                     ~Precedes(c, a, direction)
  BY DEF Precedes, Absent

\* A sorted list has every document once, by the field and then by its place.
LEMMA SortedIs ==
    ASSUME NEW rows, NEW ids, IsFiniteSet(ids), ids \subseteq Int, NEW field, NEW direction,
           \A id \in ids : rows[id][field] \in Int
    PROVE  LET list == sortInMemory(rows, ids, field, direction) IN
           /\ Lists(list, ids)
           /\ \A i, j \in 1 .. Cardinality(ids) :
                 i < j => \/ Precedes(rows[list[i]][field], rows[list[j]][field], direction)
                          \/ /\ ~Precedes(rows[list[j]][field], rows[list[i]][field], direction)
                             /\ list[i] < list[j]
<1>. DEFINE before == Sooner(rows, ids, field, direction)
            Before(x, y) == \/ Precedes(rows[x][field], rows[y][field], direction)
                            \/ /\ ~Precedes(rows[y][field], rows[x][field], direction)
                               /\ x < y
            list == InOrder(ids, before)
<1>1. \A x, y \in ids : <<x, y>> \in before <=> Before(x, y)
  BY DEF Sooner
<1>2. \A x \in ids : ~Before(x, x)
  BY PrecedesIs
<1>3. \A x, y \in ids : x = y \/ Before(x, y) \/ Before(y, x)
  BY PrecedesIs
<1>4. ASSUME NEW x \in ids, NEW y \in ids, NEW z \in ids, Before(x, y), Before(y, z)
      PROVE  Before(x, z)
  <2>1. PICK a \in Int, b \in Int, c \in Int :
          a = rows[x][field] /\ b = rows[y][field] /\ c = rows[z][field]
    OBVIOUS
  <2>2. Precedes(a, b, direction) \/ (~Precedes(b, a, direction) /\ x < y)
    <3>1. Before(x, y)
      BY <1>4
    <3>. QED BY <2>1, <3>1
  <2>3. Precedes(b, c, direction) \/ (~Precedes(c, b, direction) /\ y < z)
    <3>1. Before(y, z)
      BY <1>4
    <3>. QED BY <2>1, <3>1
  <2>4. Precedes(a, c, direction) \/ (~Precedes(c, a, direction) /\ x < y /\ y < z)
    BY <2>2, <2>3, PrecedesIs
  <2>5. x < y /\ y < z => x < z
    OBVIOUS
  <2>. QED BY <2>1, <2>4, <2>5
<1>. HIDE DEF Before
<1>5. Orders(before, ids)
  <2>. HIDE DEF before
  <2>. QED BY <1>1, <1>2, <1>3, <1>4 DEF Orders
<1>. HIDE DEF before
<1>6. /\ Lists(list, ids)
      /\ \A i, j \in 1 .. Cardinality(ids) : i < j => <<list[i], list[j]>> \in before
  BY <1>5, InOrderIs
<1>. HIDE DEF list
<1>7. \A i \in 1 .. Cardinality(ids) : list[i] \in ids
  BY <1>6 DEF Lists
<1>8. \A i, j \in 1 .. Cardinality(ids) : i < j => Before(list[i], list[j])
  BY <1>1, <1>6, <1>7
<1>9. sortInMemory(rows, ids, field, direction) = list
  BY DEF sortInMemory, list, before
<1>. QED BY <1>6, <1>8, <1>9 DEF Before

\* A list has the elements of its set.
LEMMA RangeOfList ==
    ASSUME NEW list, NEW set, Lists(list, set)
    PROVE  Range(list) = set
<1>1. DOMAIN list = 1 .. Cardinality(set)
  BY DEF Lists
<1>2. \A i \in DOMAIN list : list[i] \in set
  BY <1>1 DEF Lists
<1>3. \A x \in set : \E i \in DOMAIN list : list[i] = x
  BY <1>1 DEF Lists
<1>. QED BY <1>2, <1>3 DEF Range

\* The fields of a document are times, minutes and flags.
LEMMA FieldsAre ==
    ASSUME IInv, NEW id \in DOMAIN docs
    PROVE  /\ docs[id].at \in Nat \union {Absent} /\ docs[id].doneAt \in Nat \union {Absent}
           /\ docs[id].reminderAt \in Nat \union {Absent}
           /\ docs[id].createdAt \in Nat /\ docs[id].updatedAt \in Nat
           /\ docs[id].durationMinutes \in Nat /\ docs[id].flag \in BOOLEAN
           /\ docs[id].doneAt # Absent => docs[id].doneAt <= now
<1>1. docs[id] \in Document
  BY DocumentAt DEF IInv
<1>2. /\ docs[id].at \in Nat \union {Absent} /\ docs[id].doneAt \in Times \union {Absent}
      /\ docs[id].reminderAt \in Reminders \union {Absent}
      /\ docs[id].createdAt \in Times /\ docs[id].updatedAt \in Times /\ docs[id].flag \in BOOLEAN
  BY <1>1 DEF Document
<1>3. Times \subseteq Nat /\ Reminders \subseteq Nat
  BY ConstantsAssumption DEF Times
<1>4. docs[id].createdAt \in Nat /\ docs[id].updatedAt \in Nat
  BY <1>2, <1>3
<1>5. docs[id].doneAt \in Nat \union {Absent} /\ docs[id].reminderAt \in Nat \union {Absent}
  BY <1>2, <1>3
<1>. QED BY <1>2, <1>4, <1>5, MinutesAreNumbers DEF IInv, DoneBefore

-----------------------------------------------------------------------------
(* Days.                                                                    *)

\* Today is a day, and the times of a day are those between its ends.
LEMMA DayIs ==
    ASSUME IInv
    PROVE  /\ dayKey \in Nat /\ startOfDay \in Nat /\ endOfDay \in Nat
           /\ now \in startOfDay .. endOfDay
           /\ \A t \in Nat : dayKeyOf(t) \in Nat /\ (dayKeyOf(t) = dayKey <=> Today(t))
           /\ \A t \in Nat : t <= now => dayKeyOf(t) <= dayKey
<1>1. now \in Nat /\ DayTicks \in Nat \ {0}
  BY ConstantsAssumption DEF IInv, TypeOK, Times
<1>2. dayKey \in Nat /\ dayKey * DayTicks <= now /\ now < dayKey * DayTicks + DayTicks
      /\ dayKey * DayTicks \in Nat
  BY <1>1, Division DEF dayKey, dayKeyOf
<1>3. startOfDay \in Nat /\ endOfDay \in Nat /\ now \in startOfDay .. endOfDay
  BY <1>1, <1>2 DEF startOfDay, endOfDay
<1>4. ASSUME NEW t \in Nat
      PROVE  dayKeyOf(t) \in Nat /\ (dayKeyOf(t) = dayKey <=> Today(t))
  <2>1. PICK q : q = dayKeyOf(t)
    OBVIOUS
  <2>2. q \in Nat /\ q * DayTicks <= t /\ t < q * DayTicks + DayTicks
    BY <1>1, <2>1, Division DEF dayKeyOf
  <2>3. q = dayKey => Today(t)
    BY <1>1, <1>2, <2>2 DEF Today, startOfDay, endOfDay
  <2>4. ASSUME Today(t) PROVE q = dayKey
    <3>1. dayKey * DayTicks <= t /\ t < dayKey * DayTicks + DayTicks
      BY <1>1, <1>2, <2>4 DEF Today, startOfDay, endOfDay
    <3>. QED BY <1>1, <1>2, <2>1, <3>1, QuotientIs DEF dayKeyOf
  <2>. QED BY <2>1, <2>2, <2>3, <2>4
<1>5. ASSUME NEW t \in Nat, t <= now PROVE dayKeyOf(t) <= dayKey
  <2>1. t < dayKey * DayTicks + DayTicks
    BY <1>1, <1>2, <1>5
  <2>. QED BY <1>1, <1>2, <2>1, QuotientAtMost DEF dayKeyOf
<1>. QED BY <1>2, <1>3, <1>4, <1>5

-----------------------------------------------------------------------------
(* The heatmap.                                                             *)

Active == {id \in DOMAIN docs : ActivityAt(docs[id]) # Absent}
DayOf(id) == dayKeyOf(ActivityAt(docs[id]))

\* Activity lies in the past, on a day.
LEMMA ActivityIs ==
    ASSUME IInv, VInv, NEW id \in DOMAIN docs
    PROVE  /\ ActivityAt(docs[id]) \in Nat \union {Absent}
           /\ ActivityAt(docs[id]) # Absent =>
                 ActivityAt(docs[id]) <= now /\ DayOf(id) \in Nat /\ DayOf(id) <= dayKey
<1>1. /\ docs[id].doneAt \in Nat \union {Absent}
      /\ docs[id].createdAt \in Nat /\ docs[id].updatedAt \in Nat
      /\ docs[id].doneAt # Absent => docs[id].doneAt <= now
      /\ docs[id].createdAt <= now /\ docs[id].updatedAt <= now
  BY FieldsAre DEF VInv, Plain
<1>2. /\ Or(docs[id].doneAt, docs[id].updatedAt) \in Nat
      /\ Or(docs[id].doneAt, docs[id].updatedAt) <= now
  BY <1>1 DEF Or
<1>3. \/ ActivityAt(docs[id]) = docs[id].createdAt
      \/ ActivityAt(docs[id]) = Or(docs[id].doneAt, docs[id].updatedAt)
      \/ ActivityAt(docs[id]) = Absent
  BY DEF ActivityAt
<1>4. /\ ActivityAt(docs[id]) \in Nat \union {Absent}
      /\ ActivityAt(docs[id]) # Absent => ActivityAt(docs[id]) <= now
  BY <1>1, <1>2, <1>3
<1>. QED BY <1>4, DayIs DEF DayOf

\* A window of days holds the activity that is not older.
LEMMA ContributionsAre ==
    ASSUME IInv, VInv, NEW days \in Nat \ {0}
    PROVE  Contributions(days) = {id \in Active : dayKey - DayOf(id) < days}
<1>1. \A id \in Active : DayOf(id) \in startKey(days) .. dayKey <=> dayKey - DayOf(id) < days
  <2>. TAKE id \in Active
  <2>1. DayOf(id) \in Nat /\ DayOf(id) <= dayKey /\ dayKey \in Nat
    BY ActivityIs, DayIs DEF Active
  <2>. QED BY <2>1 DEF startKey
<1>. QED BY <1>1 DEF Contributions, Active, DayOf

\* One cell for each active day.
LEMMA HeatmapIs ==
    ASSUME IInv, VInv, NEW days \in Nat \ {0}
    PROVE  LET cells == getHeatmap(days)
               active == ActiveDays(Contributions(days))
           IN /\ IsFiniteSet(active) /\ active \subseteq Nat /\ Cardinality(active) \in Nat
              /\ active = {DayOf(id) : id \in Contributions(days)}
              /\ Lists(Ascending(active), active)
              /\ DOMAIN cells = 1 .. Cardinality(active)
              /\ cells = [i \in 1 .. Cardinality(active) |-> cells[i]]
              /\ \A i \in 1 .. Cardinality(active) :
                    /\ cells[i].date = Ascending(active)[i]
                    /\ cells[i].breakdown = Breakdown(Contributions(days), cells[i].date)
<1>1. PICK contributions : contributions = Contributions(days)
  OBVIOUS
<1>2. PICK active : active = ActiveDays(contributions)
  OBVIOUS
<1>3. active = {DayOf(id) : id \in contributions}
  BY <1>2 DEF ActiveDays, DayOf
<1>4. contributions \subseteq Active
  BY <1>1, ContributionsAre
<1>5. active \subseteq Nat
  BY <1>3, <1>4, ActivityIs DEF Active
<1>6. IsFiniteSet(active)
  <2>1. IsFiniteSet(contributions)
    BY <1>4, IdsFinite DEF Active
  <2>2. PICK f : f = [id \in contributions |-> DayOf(id)]
    OBVIOUS
  <2>3. f \in Surjection(contributions, active)
    BY <1>3, <2>2 DEF Surjection
  <2>. QED BY <2>1, <2>3, FS_Surjection
<1>7. active \subseteq Int /\ Cardinality(active) \in Nat
  BY <1>5, <1>6, FS_CardinalityType
<1>8. Lists(Ascending(active), active)
  BY <1>6, <1>7, AscendingIs
<1>9. DOMAIN Ascending(active) = 1 .. Cardinality(active)
  BY <1>8 DEF Lists
<1>10. PICK cells : cells = getHeatmap(days)
  OBVIOUS
<1>11. cells = [i \in 1 .. Cardinality(active) |->
           [date |-> Ascending(active)[i],
            breakdown |-> Breakdown(contributions, Ascending(active)[i])]]
  BY <1>1, <1>2, <1>9, <1>10 DEF getHeatmap
<1>12. /\ DOMAIN cells = 1 .. Cardinality(active)
       /\ cells = [i \in 1 .. Cardinality(active) |-> cells[i]]
       /\ \A i \in 1 .. Cardinality(active) :
             /\ cells[i].date = Ascending(active)[i]
             /\ cells[i].breakdown = Breakdown(contributions, cells[i].date)
  BY <1>11
<1>. QED BY <1>1, <1>2, <1>3, <1>5, <1>6, <1>7, <1>8, <1>10, <1>12

-----------------------------------------------------------------------------
(* The figures of the day.                                                  *)

TodayOf(name) == {id \in In(name) : id \in Active /\ DayOf(id) = dayKey}

\* Today's cell counts what is of today, and there is none if nothing is.
LEMMA TodaysCell ==
    ASSUME IInv, VInv, NEW days \in Nat \ {0},
           NEW name \in {"study_sessions", "problems", "revisions", "tasks", "habits"}
    PROVE  LET cells == getHeatmap(days)
               today == {i \in DOMAIN cells : cells[i].date = dayKey}
           IN IF today = {} THEN Cardinality(TodayOf(name)) = 0
              ELSE \A i \in today : cells[i].breakdown[name] = Cardinality(TodayOf(name))
<1>1. PICK cells, active : cells = getHeatmap(days) /\ active = ActiveDays(Contributions(days))
  OBVIOUS
<1>2. /\ active = {DayOf(id) : id \in Contributions(days)}
      /\ Lists(Ascending(active), active)
      /\ DOMAIN cells = 1 .. Cardinality(active)
      /\ \A i \in 1 .. Cardinality(active) :
            /\ cells[i].date = Ascending(active)[i]
            /\ cells[i].breakdown = Breakdown(Contributions(days), cells[i].date)
  BY <1>1, HeatmapIs
<1>3. TodayOf(name) = {id \in Contributions(days) \intersect In(name) : DayOf(id) = dayKey}
  <2>1. \A id \in Active : DayOf(id) = dayKey => dayKey - DayOf(id) < days
    BY DayIs
  <2>2. Contributions(days) = {id \in Active : dayKey - DayOf(id) < days}
    BY ContributionsAre
  <2>. QED BY <2>1, <2>2 DEF TodayOf
<1>4. ASSUME NEW i \in DOMAIN cells, cells[i].date = dayKey
      PROVE  cells[i].breakdown[name] = Cardinality(TodayOf(name))
  <2>1. cells[i].breakdown = Breakdown(Contributions(days), dayKey)
    BY <1>2, <1>4
  <2>2. Breakdown(Contributions(days), dayKey)[name] =
            Cardinality({id \in Contributions(days) \intersect In(name) : DayOf(id) = dayKey})
    BY DEF Breakdown, DayOf
  <2>. QED BY <1>3, <2>1, <2>2
<1>5. ASSUME ~\E i \in DOMAIN cells : cells[i].date = dayKey
      PROVE  Cardinality(TodayOf(name)) = 0
  <2>1. dayKey \notin active
    <3>1. \A x \in active : \E i \in 1 .. Cardinality(active) : Ascending(active)[i] = x
      BY <1>2 DEF Lists
    <3>2. \A i \in 1 .. Cardinality(active) : Ascending(active)[i] # dayKey
      BY <1>2, <1>5
    <3>. QED BY <3>1, <3>2
  <2>2. TodayOf(name) = {}
    BY <1>2, <1>3, <2>1
  <2>. QED BY <2>2, FS_EmptySet
<1>. QED BY <1>1, <1>4, <1>5

\* The tasks of today, as three views select them.
LEMMA TasksOfToday ==
    ASSUME IInv, VInv
    PROVE  /\ TodayOf("tasks") =
                  CompletedToday({id \in In("tasks") : docs[id].status = "completed"})
           /\ TodayOf("tasks") = findCompletedSince(startOfDay)
<1>1. ASSUME NEW id \in In("tasks")
      PROVE  /\ id \in DOMAIN docs /\ docs[id].collection = "tasks"
             /\ docs[id].status = "completed" =>
                   /\ docs[id].doneAt \in Nat /\ docs[id].doneAt # Absent /\ docs[id].doneAt <= now
                   /\ ActivityAt(docs[id]) = docs[id].doneAt
             /\ docs[id].status # "completed" => ActivityAt(docs[id]) = Absent
  <2>1. id \in DOMAIN docs /\ docs[id].collection = "tasks"
    BY DEF In
  <2>2. now \in Nat
    BY ConstantsAssumption DEF IInv, TypeOK, Times
  <2>3. ASSUME docs[id].status = "completed"
        PROVE  docs[id].doneAt \in Nat /\ docs[id].doneAt # Absent /\ docs[id].doneAt <= now
    <3>1. docs[id].doneAt \in 0 .. now
      BY <2>1, <2>3 DEF IInv, CompletedIsDated
    <3>. QED BY <2>2, <3>1 DEF Absent
  <2>4. docs[id].status = "completed" => ActivityAt(docs[id]) = docs[id].doneAt
    BY <2>1, <2>3 DEF ActivityAt, Or
  <2>5. docs[id].status # "completed" => ActivityAt(docs[id]) = Absent
    BY <2>1 DEF ActivityAt
  <2>. QED BY <2>1, <2>3, <2>4, <2>5
<1>2. \A t \in Nat : dayKeyOf(t) = dayKey <=> Today(t)
  BY DayIs
<1>3. \A t \in Nat : t <= now => (Today(t) <=> t >= startOfDay)
  BY DayIs DEF Today
<1>4. \A id \in In("tasks") :
        id \in TodayOf("tasks") <=> docs[id].status = "completed" /\ Today(docs[id].doneAt)
  BY <1>1, <1>2 DEF TodayOf, Active, DayOf
<1>5. \A id \in In("tasks") :
        id \in findCompletedSince(startOfDay) <=>
            /\ docs[id].status = "completed"
            /\ docs[id].doneAt # Absent /\ docs[id].doneAt >= startOfDay
  <2>1. PICK filters :
          filters = {Filter("status", "==", "completed"), Filter("doneAt", ">=", startOfDay)}
    OBVIOUS
  <2>2. findCompletedSince(startOfDay) =
            {id \in In("tasks") :
                \A f \in filters : matchesFilter(docs[id][f.field], f.op, f.value)}
    BY <2>1 DEF findCompletedSince, applyFilters
  <2>3. ASSUME NEW id \in In("tasks")
        PROVE  (\A f \in filters : matchesFilter(docs[id][f.field], f.op, f.value)) <=>
                   /\ matchesFilter(docs[id].status, "==", "completed")
                   /\ matchesFilter(docs[id].doneAt, ">=", startOfDay)
    BY <2>1 DEF Filter
  <2>4. startOfDay # Absent
    BY DayIs DEF Absent
  <2>. QED BY <2>2, <2>3, <2>4 DEF matchesFilter
<1>6. TodayOf("tasks") \subseteq In("tasks") /\ findCompletedSince(startOfDay) \subseteq In("tasks")
  BY DEF TodayOf, findCompletedSince, applyFilters
<1>. QED BY <1>1, <1>3, <1>4, <1>5, <1>6 DEF CompletedToday

\* The problems of today, as two views select them.
LEMMA ProblemsOfToday ==
    ASSUME IInv, VInv
    PROVE  TodayOf("problems") = CompletedToday(Problems)
<1>1. ASSUME NEW id \in In("problems")
      PROVE  /\ id \in DOMAIN docs
             /\ docs[id].status = "completed" =>
                   /\ docs[id].doneAt \in Nat /\ docs[id].doneAt # Absent
                   /\ ActivityAt(docs[id]) = docs[id].doneAt
             /\ docs[id].status # "completed" => ActivityAt(docs[id]) = Absent
  <2>1. id \in DOMAIN docs /\ docs[id].collection = "problems"
    BY DEF In
  <2>2. docs[id].status = "completed" => docs[id].doneAt # Absent
    BY <2>1 DEF IInv, CompletedIsDated, Absent
  <2>3. docs[id].doneAt # Absent => docs[id].doneAt \in Nat
    BY <2>1, FieldsAre
  <2>. QED BY <2>1, <2>2, <2>3 DEF ActivityAt, Or
<1>2. \A t \in Nat : (dayKeyOf(t) = dayKey <=> Today(t)) /\ (Today(t) => t >= startOfDay)
  BY DayIs DEF Today
<1>3. \A id \in In("problems") :
        id \in TodayOf("problems") <=> docs[id].status = "completed" /\ Today(docs[id].doneAt)
  BY <1>1, <1>2 DEF TodayOf, Active, DayOf
<1>4. \A id \in In("problems") :
        id \in CompletedToday(Problems) <=>
            docs[id].status = "completed" /\ Today(docs[id].doneAt)
  BY <1>1, <1>2 DEF CompletedToday, Problems, fetchProblemsSolvedSince
<1>5. /\ TodayOf("problems") \subseteq In("problems")
      /\ CompletedToday(Problems) \subseteq In("problems")
  BY DEF TodayOf, CompletedToday, Problems, fetchProblemsSolvedSince
<1>. QED BY <1>3, <1>4, <1>5

\* A week starts before any time in it.
LEMMA WeekStartIs ==
    ASSUME IInv
    PROVE  /\ WeekTicks \in Nat \ {0}
           /\ \A t \in Nat : startOfIsoWeek(t) \in Nat /\ startOfIsoWeek(t) <= t
<1>1. WeekTicks \in Nat \ {0}
  BY ConstantsAssumption DEF WeekTicks
<1>. QED BY <1>1, Division DEF startOfIsoWeek

\* The sessions of the week and of today, as the summary adds them up.
LEMMA SessionsOfTheWeek ==
    ASSUME IInv, VInv
    PROVE  /\ Range(findStartedSince(startOfIsoWeek(now))) = Sessions
           /\ summary.weekMinutes = MinutesOf(Sessions)
           /\ summary.todayMinutes =
                 MinutesOf({id \in Sessions : Today(docs[id].at)})
                     + MinutesOf({id \in Sessions : docs[id].at > endOfDay})
<1>1. PICK since : since = startOfIsoWeek(now)
  OBVIOUS
<1>2. since \in Nat /\ since # Absent
  <2>1. now \in Nat
    BY ConstantsAssumption DEF IInv, TypeOK, Times
  <2>. QED BY <1>1, <2>1, WeekStartIs DEF Absent
<1>3. \A id \in In("study_sessions") : id \in DOMAIN docs /\ docs[id].at \in Nat \union {Absent}
  BY FieldsAre DEF In
<1>4. applyFilters(docs, In("study_sessions"), {Filter("at", ">=", since)}) = Sessions
  <2>1. PICK f : f = Filter("at", ">=", since)
    OBVIOUS
  <2>2. f.field = "at" /\ f.op = ">=" /\ f.value = since
    BY <2>1 DEF Filter
  <2>3. \A id \in In("study_sessions") :
          matchesFilter(docs[id].at, ">=", since) <=> docs[id].at >= since
    BY <1>2, <1>3 DEF matchesFilter, Absent
  <2>. QED BY <1>1, <2>1, <2>2, <2>3 DEF applyFilters, Sessions, fetchStudySessionsSince
<1>5. Sessions \subseteq In("study_sessions") /\ Sessions \subseteq DOMAIN docs
  BY <1>3 DEF Sessions, fetchStudySessionsSince
<1>6. IsFiniteSet(Sessions) /\ Sessions \subseteq Int
  BY <1>5, IdsFinite
<1>7. \A id \in Sessions : docs[id].at \in Int
  BY <1>3, <1>5 DEF Absent
<1>8. Lists(findStartedSince(since), Sessions)
  <2>1. Lists(sortInMemory(docs, Sessions, "at", "desc"), Sessions)
    <3>1. PICK field : field = "at"
      OBVIOUS
    <3>2. \A id \in Sessions : docs[id][field] \in Int
      BY <1>7, <3>1
    <3>3. Lists(sortInMemory(docs, Sessions, field, "desc"), Sessions)
      BY <1>6, <3>2, SortedIs
    <3>. QED BY <3>1, <3>3
  <2>. QED BY <1>4, <2>1 DEF findStartedSince, listForUser
<1>9. Range(findStartedSince(since)) = Sessions
  BY <1>8, RangeOfList
<1>. DEFINE today == {id \in Sessions : ~(docs[id].at < startOfDay)}
<1>10. summary.weekMinutes = MinutesOf(Sessions) /\ summary.todayMinutes = MinutesOf(today)
  BY <1>1, <1>9 DEF summary
<1>11. PICK a, b : /\ a = {id \in Sessions : Today(docs[id].at)}
                   /\ b = {id \in Sessions : docs[id].at > endOfDay}
  OBVIOUS
<1>12. startOfDay \in Nat /\ endOfDay \in Nat /\ startOfDay <= endOfDay
  BY DayIs
<1>13. today = a \union b /\ a \intersect b = {}
  BY <1>7, <1>11, <1>12 DEF Today
<1>14. a \subseteq DOMAIN docs /\ b \subseteq DOMAIN docs
  BY <1>5, <1>11
<1>. HIDE DEF today
<1>15. MinutesOf(a \union b) = MinutesOf(a) + MinutesOf(b)
  BY <1>13, <1>14, MinutesAdd
<1>. QED BY <1>1, <1>9, <1>10, <1>11, <1>13, <1>15

\* The views agree on the day, though each selects by a condition of its own.
THEOREM ViewsAgreeOnToday == Spec => []TodayAgrees
<1>1. ASSUME IInv, VInv PROVE TodayAgrees
  <2>1. PICK cells : cells = getHeatmap(LIFETIME_MAX_DAYS)
    OBVIOUS
  <2>2. PICK today : today = {i \in DOMAIN cells : cells[i].date = dayKey}
    OBVIOUS
  <2>3. ASSUME NEW name \in {"tasks", "problems"}, NEW n, n = Cardinality(TodayOf(name))
        PROVE  IF today = {} THEN n = 0 ELSE \A i \in today : cells[i].breakdown[name] = n
    <3>1. PICK days \in Nat \ {0} : days = LIFETIME_MAX_DAYS
      BY RangesAssumption
    <3>. QED BY <1>1, <2>1, <2>2, <2>3, <3>1, TodaysCell
  <2>4. /\ buildQuickStats.tasksCompleted = Cardinality(TodayOf("tasks"))
        /\ buildDailyGoals.tasksDone = Cardinality(TodayOf("tasks"))
        /\ Cardinality(findCompletedSince(startOfDay)) = Cardinality(TodayOf("tasks"))
    BY <1>1, TasksOfToday DEF buildQuickStats, buildDailyGoals, tasksDone
  <2>5. /\ buildQuickStats.problemsSolved = Cardinality(TodayOf("problems"))
        /\ buildDailyGoals.problemsDone = Cardinality(TodayOf("problems"))
    BY <1>1, ProblemsOfToday DEF buildQuickStats, buildDailyGoals
  <2>6. buildQuickStats.studyMinutesToday = MinutesOf({id \in Sessions : Today(docs[id].at)})
    BY DEF buildQuickStats
  <2>7. /\ summary.weekMinutes = MinutesOf(Sessions)
        /\ summary.todayMinutes = buildQuickStats.studyMinutesToday
                                      + MinutesOf({id \in Sessions : docs[id].at > endOfDay})
    BY <1>1, <2>6, SessionsOfTheWeek
  <2>. QED BY <2>1, <2>2, <2>3, <2>4, <2>5, <2>7 DEF TodayAgrees
<1>. QED BY <1>1, ViewsInvariant, PTL

-----------------------------------------------------------------------------
(* Every activity counts once.                                              *)

WeeksCounted == MaxTime \div WeekTicks + 1

\* Every time falls into the window of one of the reports.
LEMMA WeeksAre ==
    ASSUME IInv
    PROVE  /\ WeeksCounted \in Nat
           /\ \A week \in 1 .. WeeksCounted :
                 startOfIsoWeek((week - 1) * WeekTicks) = (week - 1) * WeekTicks
           /\ \A t \in Nat : t <= MaxTime =>
                 /\ t \div WeekTicks + 1 \in 1 .. WeeksCounted
                 /\ \A week \in 1 .. WeeksCounted :
                       inWindow(t, (week - 1) * WeekTicks) <=> week = t \div WeekTicks + 1
<1>1. WeekTicks \in Nat \ {0} /\ MaxTime \in Nat
  BY WeekStartIs, ConstantsAssumption
<1>2. PICK last : last = MaxTime \div WeekTicks
  OBVIOUS
<1>3. last \in Nat /\ MaxTime < last * WeekTicks + WeekTicks /\ WeeksCounted = last + 1
  BY <1>1, <1>2, Division DEF WeeksCounted
<1>4. ASSUME NEW week \in 1 .. WeeksCounted
      PROVE  startOfIsoWeek((week - 1) * WeekTicks) = (week - 1) * WeekTicks
  <2>1. PICK k \in Nat : k = week - 1
    BY <1>3
  <2>2. PICK a : a = k * WeekTicks
    OBVIOUS
  <2>3. a \in Nat
    BY <1>1, <2>2, Products
  <2>4. k * WeekTicks <= a /\ a < k * WeekTicks + WeekTicks
    BY <1>1, <2>2, <2>3
  <2>5. a \div WeekTicks = k
    BY <1>1, <2>3, <2>4, QuotientIs
  <2>. QED BY <2>1, <2>2, <2>5 DEF startOfIsoWeek
<1>5. ASSUME NEW t \in Nat, t <= MaxTime, NEW week \in 1 .. WeeksCounted
      PROVE  inWindow(t, (week - 1) * WeekTicks) <=> week = t \div WeekTicks + 1
  <2>1. PICK k \in Nat : k = week - 1
    BY <1>3
  <2>2. PICK q : q = t \div WeekTicks
    OBVIOUS
  <2>3. q \in Nat /\ q * WeekTicks <= t /\ t < q * WeekTicks + WeekTicks
    BY <1>1, <2>2, Division
  <2>4. inWindow(t, k * WeekTicks) <=> k * WeekTicks <= t /\ t < k * WeekTicks + WeekTicks
    <3>1. k * WeekTicks \in Nat /\ t # Absent
      BY <1>1, Products DEF Absent
    <3>. QED BY <1>1, <3>1 DEF inWindow
  <2>5. k * WeekTicks <= t /\ t < k * WeekTicks + WeekTicks => q = k
    BY <1>1, <2>2, QuotientIs
  <2>6. q = k <=> week = q + 1
    BY <2>1, <2>3
  <2>. QED BY <2>1, <2>2, <2>3, <2>4, <2>5, <2>6
<1>6. ASSUME NEW t \in Nat, t <= MaxTime PROVE t \div WeekTicks + 1 \in 1 .. WeeksCounted
  <2>1. t < last * WeekTicks + WeekTicks
    <3>1. last * WeekTicks \in Nat
      BY <1>1, <1>3, Products
    <3>. QED BY <1>1, <1>3, <1>6, <3>1
  <2>2. t \div WeekTicks <= last
    BY <1>1, <1>3, <2>1, QuotientAtMost
  <2>3. t \div WeekTicks \in Nat
    BY <1>1, Division
  <2>. QED BY <1>3, <2>2, <2>3
<1>. QED BY <1>3, <1>4, <1>5, <1>6

\* The weeks share out what is active in a collection.
LEMMA WeeksShareOut ==
    ASSUME IInv, VInv, NEW name,
           NEW amounts, amounts = [week \in 1 .. WeeksCounted |->
                              Cardinality(OfWeek(name, startOfIsoWeek((week - 1) * WeekTicks)))]
    PROVE  Total(amounts) = Cardinality(In(name) \intersect Active)
<1>. DEFINE sets == [week \in 1 .. WeeksCounted |-> OfWeek(name, (week - 1) * WeekTicks)]
            WeekOf(id) == ActivityAt(docs[id]) \div WeekTicks + 1
<1>1. WeeksCounted \in Nat
  BY WeeksAre
<1>2. \A week \in 1 .. WeeksCounted :
        sets[week] = OfWeek(name, (week - 1) * WeekTicks) /\ amounts[week] = Cardinality(sets[week])
  BY WeeksAre
<1>3. ASSUME NEW id \in In(name) \intersect Active
      PROVE  /\ WeekOf(id) \in 1 .. WeeksCounted
             /\ \A week \in 1 .. WeeksCounted : id \in sets[week] <=> week = WeekOf(id)
  <2>1. id \in DOMAIN docs /\ id \in Active
    BY DEF In
  <2>2. PICK t : t = ActivityAt(docs[id])
    OBVIOUS
  <2>3. t \in Nat /\ t <= MaxTime
    <3>1. t \in Nat /\ t <= now
      BY <2>1, <2>2, ActivityIs DEF Active
    <3>2. now \in Nat /\ now <= MaxTime /\ MaxTime \in Nat
      BY ConstantsAssumption DEF IInv, TypeOK, Times
    <3>. QED BY <3>1, <3>2
  <2>4. \A week \in 1 .. WeeksCounted : id \in sets[week] <=> inWindow(t, (week - 1) * WeekTicks)
    BY <1>2, <2>2 DEF OfWeek
  <2>5. /\ t \div WeekTicks + 1 \in 1 .. WeeksCounted
        /\ \A week \in 1 .. WeeksCounted :
              inWindow(t, (week - 1) * WeekTicks) <=> week = t \div WeekTicks + 1
    BY <2>3, WeeksAre
  <2>. QED BY <2>2, <2>4, <2>5
<1>4. \A week \in 1 .. WeeksCounted :
        sets[week] \subseteq In(name) \intersect Active /\ sets[week] \subseteq DOMAIN docs
  BY <1>2 DEF OfWeek, In, inWindow, Active
<1>. HIDE DEF sets, WeekOf
<1>5. \A week \in 1 .. WeeksCounted :
        IsFiniteSet(sets[week]) /\ Cardinality(sets[week]) = amounts[week] /\ amounts[week] \in Nat
  BY <1>2, <1>4, IdsFinite
<1>6. \A v, w \in 1 .. WeeksCounted : v # w => sets[v] \intersect sets[w] = {}
  BY <1>3, <1>4
<1>7. Pieces(sets, WeeksCounted) = In(name) \intersect Active
  BY <1>3, <1>4 DEF Pieces
<1>8. amounts \in [1 .. WeeksCounted -> Nat]
  <2>1. amounts = [week \in 1 .. WeeksCounted |-> amounts[week]]
    OBVIOUS
  <2>. QED BY <1>5, <2>1
<1>9. PICK n \in Nat : n = WeeksCounted
  BY <1>1
<1>10. Total(amounts) = Cardinality(Pieces(sets, n))
  <2>1. amounts \in [1 .. n -> Nat]
    BY <1>8, <1>9
  <2>2. \A i \in 1 .. n : IsFiniteSet(sets[i]) /\ Cardinality(sets[i]) = amounts[i]
    BY <1>5, <1>9
  <2>3. \A i, j \in 1 .. n : i # j => sets[i] \intersect sets[j] = {}
    BY <1>6, <1>9
  <2>. QED BY <2>1, <2>2, <2>3, TotalCounts, ZenonT(30)
<1>. QED BY <1>7, <1>9, <1>10

\* A cell counts the contributions of its day, of whatever collection.
LEMMA CellCounts ==
    ASSUME IInv, VInv, NEW contributions, contributions \subseteq Active, NEW day, NEW cell,
           cell.breakdown = Breakdown(contributions, day)
    PROVE  CountOf(cell) = Cardinality({id \in contributions : DayOf(id) = day})
<1>. DEFINE Of(name) == {id \in contributions \intersect In(name) : DayOf(id) = day}
<1>1. PICK a, b, c, d, e :
        /\ a = Of("study_sessions") /\ b = Of("problems") /\ c = Of("revisions") /\ d = Of("tasks")
        /\ e = Of("habits")
  OBVIOUS
<1>2. /\ cell.breakdown["study_sessions"] = Cardinality(a)
      /\ cell.breakdown["problems"] = Cardinality(b)
      /\ cell.breakdown["revisions"] = Cardinality(c)
      /\ cell.breakdown["tasks"] = Cardinality(d)
      /\ cell.breakdown["habits"] = Cardinality(e)
  BY <1>1 DEF Breakdown, DayOf
<1>3. /\ a \intersect b = {} /\ (a \union b) \intersect c = {}
      /\ (a \union b \union c) \intersect d = {}
      /\ (a \union b \union c \union d) \intersect e = {}
  BY <1>1 DEF In
<1>4. /\ IsFiniteSet(a) /\ IsFiniteSet(b) /\ IsFiniteSet(c) /\ IsFiniteSet(d) /\ IsFiniteSet(e)
  <2>1. contributions \subseteq DOMAIN docs
    BY DEF Active
  <2>2. /\ a \subseteq contributions /\ b \subseteq contributions /\ c \subseteq contributions
        /\ d \subseteq contributions /\ e \subseteq contributions
    BY <1>1
  <2>. HIDE DEF Of
  <2>. QED BY <2>1, <2>2, IdsFinite
<1>5. {id \in contributions : DayOf(id) = day} = a \union b \union c \union d \union e
  <2>1. \A id \in contributions :
          id \in In("study_sessions") \union In("problems") \union In("revisions")
                    \union In("tasks")
    BY DEF Active, ActivityAt, In
  <2>2. e = {}
    BY <2>1, <1>1 DEF In
  <2>. QED BY <1>1, <2>1, <2>2
<1>. HIDE DEF Of
<1>6. PICK ab, abc, abcd : ab = a \union b /\ abc = ab \union c /\ abcd = abc \union d
  OBVIOUS
<1>7. IsFiniteSet(ab) /\ Cardinality(ab) = Cardinality(a) + Cardinality(b)
  BY <1>3, <1>4, <1>6, DisjointSizes
<1>8. IsFiniteSet(abc) /\ Cardinality(abc) = Cardinality(ab) + Cardinality(c)
  BY <1>3, <1>4, <1>6, <1>7, DisjointSizes
<1>9. IsFiniteSet(abcd) /\ Cardinality(abcd) = Cardinality(abc) + Cardinality(d)
  BY <1>3, <1>4, <1>6, <1>8, DisjointSizes
<1>10. Cardinality(abcd \union e) = Cardinality(abcd) + Cardinality(e)
  BY <1>3, <1>4, <1>6, <1>9, DisjointSizes
<1>11. CountOf(cell) = Cardinality(a) + Cardinality(b) + Cardinality(c) + Cardinality(d)
                            + Cardinality(e)
  BY <1>2 DEF CountOf
<1>12. {id \in contributions : DayOf(id) = day} = abcd \union e
  BY <1>5, <1>6
<1>. QED BY <1>7, <1>8, <1>9, <1>10, <1>11, <1>12

\* The cells of a heatmap share out the contributions.
LEMMA HeatmapCounts ==
    ASSUME IInv, VInv, NEW days \in Nat \ {0}
    PROVE  totalContributions(getHeatmap(days)) = Cardinality(Contributions(days))
<1>1. PICK cells, active, contributions, list :
        /\ cells = getHeatmap(days) /\ active = ActiveDays(contributions)
        /\ contributions = Contributions(days) /\ list = Ascending(active)
  OBVIOUS
<1>2. PICK n : n = Cardinality(active)
  OBVIOUS
<1>3. /\ n \in Nat /\ active = {DayOf(id) : id \in contributions}
      /\ Lists(list, active) /\ DOMAIN cells = 1 .. n
      /\ \A i \in 1 .. n :
            cells[i].date = list[i] /\ cells[i].breakdown = Breakdown(contributions, cells[i].date)
  BY <1>1, <1>2, HeatmapIs
<1>4. contributions \subseteq Active /\ contributions \subseteq DOMAIN docs
  BY <1>1, ContributionsAre DEF Active
<1>. DEFINE amounts == [i \in 1 .. n |-> CountOf(cells[i])]
            sets == [i \in 1 .. n |-> {id \in contributions : DayOf(id) = list[i]}]
<1>5. totalContributions(cells) = Total(amounts)
  BY <1>3 DEF totalContributions
<1>6. \A i \in 1 .. n : /\ sets[i] = {id \in contributions : DayOf(id) = list[i]}
                        /\ amounts[i] = CountOf(cells[i])
  OBVIOUS
<1>7. amounts = [i \in 1 .. n |-> amounts[i]]
  OBVIOUS
<1>. HIDE DEF amounts, sets
<1>8. ASSUME NEW i \in 1 .. n
      PROVE  IsFiniteSet(sets[i]) /\ Cardinality(sets[i]) = amounts[i] /\ amounts[i] \in Nat
  <2>1. PICK cell : cell = cells[i]
    OBVIOUS
  <2>2. CountOf(cell) = Cardinality(sets[i])
    BY <1>3, <1>4, <1>6, <2>1, CellCounts
  <2>3. IsFiniteSet(sets[i]) /\ Cardinality(sets[i]) \in Nat
    <3>1. sets[i] \subseteq DOMAIN docs
      BY <1>4, <1>6
    <3>. QED BY <3>1, IdsFinite
  <2>. QED BY <1>6, <2>1, <2>2, <2>3
<1>9. /\ \A x \in active : \E i \in 1 .. n : list[i] = x
      /\ \A i, j \in 1 .. n : list[i] = list[j] => i = j
  BY <1>2, <1>3 DEF Lists
<1>10. \A i, j \in 1 .. n : i # j => sets[i] \intersect sets[j] = {}
  BY <1>6, <1>9
<1>11. Pieces(sets, n) = contributions
  <2>1. \A id \in contributions : \E i \in 1 .. n : list[i] = DayOf(id)
    BY <1>3, <1>9
  <2>. QED BY <1>6, <2>1 DEF Pieces
<1>12. amounts \in [1 .. n -> Nat]
  BY <1>7, <1>8
<1>13. Total(amounts) = Cardinality(Pieces(sets, n))
  BY <1>3, <1>8, <1>10, <1>12, TotalCounts
<1>. QED BY <1>1, <1>5, <1>11, <1>13

\* Whatever the documents, the days of a heatmap and the weeks of the reports share
\* out every activity once.
THEOREM ActivityIsCountedOnce == Spec => []ActivityCountsOnce
<1>1. ASSUME IInv, VInv PROVE ActivityCountsOnce
  <2>1. PICK figures : figures = [week \in 1 .. MaxTime \div WeekTicks + 1 |->
                                     getWeeklyReport((week - 1) * WeekTicks).figures]
    OBVIOUS
  <2>2. figures = [week \in 1 .. WeeksCounted |-> getWeeklyReport((week - 1) * WeekTicks).figures]
    BY <2>1 DEF WeeksCounted
  <2>3. DOMAIN figures = 1 .. WeeksCounted
    BY <2>2
  <2>4. \A week \in 1 .. WeeksCounted :
          /\ figures[week].problemsSolved =
                 Cardinality(OfWeek("problems", startOfIsoWeek((week - 1) * WeekTicks)))
          /\ figures[week].focusSessions =
                 Cardinality(OfWeek("study_sessions", startOfIsoWeek((week - 1) * WeekTicks)))
    BY <2>2, ReportFigures
  <2>5. PICK problems, sessions :
          /\ problems = [week \in DOMAIN figures |-> figures[week].problemsSolved]
          /\ sessions = [week \in DOMAIN figures |-> figures[week].focusSessions]
    OBVIOUS
  <2>6. problems = [week \in 1 .. WeeksCounted |->
                       Cardinality(OfWeek("problems", startOfIsoWeek((week - 1) * WeekTicks)))]
    BY <2>3, <2>4, <2>5
  <2>7. sessions = [week \in 1 .. WeeksCounted |->
                  Cardinality(OfWeek("study_sessions", startOfIsoWeek((week - 1) * WeekTicks)))]
    BY <2>3, <2>4, <2>5
  <2>8. In("problems") \intersect Active = {id \in In("problems") : docs[id].status = "completed"}
    <3>1. ASSUME NEW id \in In("problems")
          PROVE  ActivityAt(docs[id]) # Absent <=> docs[id].status = "completed"
      <4>1. id \in DOMAIN docs /\ docs[id].collection = "problems"
        BY DEF In
      <4>2. docs[id].status = "completed" => docs[id].doneAt # Absent
        BY <1>1, <4>1 DEF IInv, CompletedIsDated, Absent
      <4>. QED BY <4>1, <4>2 DEF ActivityAt, Or
    <3>. QED BY <3>1 DEF Active, In
  <2>9. In("study_sessions") \intersect Active = In("study_sessions")
    <3>1. \A id \in In("study_sessions") :
            /\ id \in DOMAIN docs /\ docs[id].collection = "study_sessions"
            /\ docs[id].createdAt # Absent
      BY <1>1, FieldsAre DEF In, Absent
    <3>. QED BY <3>1 DEF Active, ActivityAt
  <2>10. Total(problems) = Cardinality({id \in In("problems") : docs[id].status = "completed"})
    BY <1>1, <2>6, <2>8, WeeksShareOut
  <2>11. Total(sessions) = Cardinality(In("study_sessions"))
    BY <1>1, <2>7, <2>9, WeeksShareOut
  <2>12. ASSUME NEW days \in {RangeDays, LIFETIME_MAX_DAYS}
         PROVE  totalContributions(getHeatmap(days)) =
                    Cardinality({id \in {id \in DOMAIN docs : ActivityAt(docs[id]) # Absent} :
                                    dayKey - dayKeyOf(ActivityAt(docs[id])) < days})
    <3>1. days \in Nat \ {0}
      BY RangesAssumption
    <3>2. Contributions(days) = {id \in Active : dayKey - DayOf(id) < days}
      BY <1>1, <3>1, ContributionsAre
    <3>. QED BY <1>1, <3>1, <3>2, HeatmapCounts DEF Active, DayOf
  <2>. QED BY <2>1, <2>5, <2>10, <2>11, <2>12 DEF ActivityCountsOnce
<1>. QED BY <1>1, ViewsInvariant, PTL

-----------------------------------------------------------------------------
(* Slices.                                                                  *)

LastOf(list, end) == IF end <= Len(list) THEN end ELSE Len(list)

IsPart(part, list, start, last, S) ==
    /\ part \in Seq(S) /\ Len(part) = IF start < last THEN last - start ELSE 0
    /\ \A i \in 1 .. Len(part) : part[i] = list[start + i]

\* A slice is the part of the list between its ends.
LEMMA SliceIs ==
    ASSUME NEW S, NEW list \in Seq(S), NEW start \in Nat, NEW end \in Nat
    PROVE  IsPart(slice(list, start, end), list, start, LastOf(list, end), S)
<1>. DEFINE part == slice(list, start, end)
            last == LastOf(list, end)
<1>2. Len(list) \in Nat
  OBVIOUS
<1>1. last = Min({end, Len(list)})
  BY <1>2, MinOfTwo DEF LastOf
<1>3. last \in Nat /\ last <= Len(list)
  BY <1>2 DEF LastOf
<1>4. part = SubSeq(list, start + 1, last)
  BY <1>1 DEF slice
<1>. SUFFICES IsPart(part, list, start, last, S)
  OBVIOUS
<1>. HIDE DEF part, last
<1>6. part = [i \in 1 .. (last - (start + 1) + 1) |-> list[start + i]]
  <2>1. \A i \in Int : i + (start + 1) - 1 = start + i
    OBVIOUS
  <2>. QED BY <1>2, <1>3, <1>4, <2>1
<1>7. \A i \in 1 .. last - start : list[start + i] \in S
  <2>. TAKE i \in 1 .. last - start
  <2>1. start + i \in 1 .. Len(list)
    BY <1>2, <1>3
  <2>. QED BY <2>1
<1>8. last - (start + 1) + 1 = last - start
  BY <1>3
<1>9. CASE start < last
  <2>1. last - start \in Nat
    BY <1>3, <1>9
  <2>2. part \in Seq(S) /\ Len(part) = last - start
    BY <1>6, <1>7, <1>8, <2>1
  <2>. QED BY <1>3, <1>6, <1>8, <1>9, <2>2 DEF IsPart
<1>10. CASE ~(start < last)
  <2>1. 1 .. last - start = {}
    BY <1>3, <1>10
  <2>2. part = << >>
    <3>1. part = [i \in 1 .. last - start |-> list[start + i]]
      BY <1>6, <1>8
    <3>. QED BY <2>1, <3>1
  <2>. QED BY <1>3, <1>10, <2>2 DEF IsPart
<1>. QED BY <1>9, <1>10

\* The first of a list: all of it, or as many as the limit.
LEMMA PrefixIs ==
    ASSUME NEW list, NEW set, Lists(list, set), NEW limit \in Nat
    PROVE  LET first == slice(list, 0, limit) IN
           /\ Range(first) \subseteq set
           /\ \A x \in set :
                 \/ x \in Range(first)
                 \/ /\ Len(first) = limit
                    /\ \E i \in 1 .. Cardinality(set) : list[i] = x /\ i > limit
           /\ \A x \in Range(first) : \E i \in 1 .. Cardinality(set) : list[i] = x /\ i <= limit
<1>1. PICK first : first = slice(list, 0, limit)
  OBVIOUS
<1>2. PICK n : n = Cardinality(set)
  OBVIOUS
<1>3. /\ list \in Seq(set) /\ Len(list) = n /\ n \in Nat /\ \A i \in 1 .. n : list[i] \in set
      /\ \A x \in set : \E i \in 1 .. n : list[i] = x
  BY <1>2 DEF Lists
<1>4. PICK none \in Nat : none = 0
  OBVIOUS
<1>5. /\ Len(first) = IF limit <= n THEN limit ELSE n
      /\ first \in Seq(set) /\ \A i \in 1 .. Len(first) : first[i] = list[i]
  <2>1. first = slice(list, none, limit)
    BY <1>1, <1>4
  <2>2. PICK last : last = IF limit <= n THEN limit ELSE n
    OBVIOUS
  <2>3. /\ first \in Seq(set) /\ Len(first) = (IF none < last THEN last - none ELSE 0)
        /\ \A i \in 1 .. Len(first) : first[i] = list[none + i]
    <3>1. last = LastOf(list, limit)
      BY <1>3, <2>2 DEF LastOf
    <3>2. IsPart(first, list, none, last, set)
      BY <1>3, <2>1, <3>1, SliceIs
    <3>. QED BY <3>2 DEF IsPart
  <2>4. last \in Nat
    BY <1>3, <2>2
  <2>5. Len(first) = last
    BY <1>4, <2>3, <2>4
  <2>6. \A i \in 1 .. last : none + i = i
    BY <1>4
  <2>. QED BY <2>2, <2>3, <2>5, <2>6
<1>6. PICK k : k = Len(first)
  OBVIOUS
<1>7. /\ k \in Nat /\ k = (IF limit <= n THEN limit ELSE n) /\ DOMAIN first = 1 .. k
      /\ \A i \in 1 .. k : first[i] = list[i] /\ i \in 1 .. n /\ i <= limit
  BY <1>3, <1>5, <1>6
<1>8. Range(first) \subseteq set
  BY <1>3, <1>7 DEF Range
<1>9. \A x \in Range(first) : \E i \in 1 .. n : list[i] = x /\ i <= limit
  BY <1>7 DEF Range
<1>10. ASSUME NEW x \in set
       PROVE  x \in Range(first) \/ (k = limit /\ \E i \in 1 .. n : list[i] = x /\ i > limit)
  <2>1. PICK i \in 1 .. n : list[i] = x
    BY <1>3
  <2>2. CASE i <= limit
    <3>1. i \in 1 .. k
      BY <1>3, <1>7, <2>2
    <3>. QED BY <1>7, <2>1, <3>1 DEF Range
  <2>3. CASE i > limit
    <3>1. k = limit
      BY <1>3, <1>7, <2>3
    <3>. QED BY <2>1, <2>3, <3>1
  <2>. QED BY <1>3, <2>2, <2>3
<1>. QED BY <1>1, <1>2, <1>6, <1>8, <1>9, <1>10

-----------------------------------------------------------------------------
(* The home screen.                                                         *)

AreItems(items) ==
    \A x \in items : /\ x = Item(x.place, x.id, x.time)
                     /\ x.place \in Int /\ x.id \in Int /\ x.time \in Int

\* What is left out of the first items is no earlier than any of them.
LEMMA EarliestIs ==
    ASSUME NEW items, IsFiniteSet(items), AreItems(items), NEW limit \in Nat
    PROVE  /\ Range(Earliest(items, limit)) \subseteq items
           /\ \A x \in items :
                 \/ x \in Range(Earliest(items, limit))
                 \/ /\ Len(Earliest(items, limit)) = limit
                    /\ \A y \in Range(Earliest(items, limit)) : y.time <= x.time
<1>. DEFINE before == ByTime(items)
            Before(x, y) == \/ x.time < y.time
                            \/ x.time = y.time /\ x.place < y.place
                            \/ x.time = y.time /\ x.place = y.place /\ x.id < y.id
            list == InOrder(items, before)
<1>1. \A x, y \in items : <<x, y>> \in before <=> Before(x, y)
  BY DEF ByTime
<1>2. Orders(before, items)
  <2>1. \A x \in items : ~Before(x, x)
    BY DEF AreItems
  <2>2. ASSUME NEW x \in items, NEW y \in items, ~Before(x, y), ~Before(y, x) PROVE x = y
    <3>1. x.time = y.time /\ x.place = y.place /\ x.id = y.id
      BY <2>2 DEF AreItems
    <3>2. x = Item(x.place, x.id, x.time) /\ y = Item(y.place, y.id, y.time)
      BY DEF AreItems
    <3>. QED BY <3>1, <3>2
  <2>3. ASSUME NEW x \in items, NEW y \in items, NEW z \in items, Before(x, y), Before(y, z)
        PROVE  Before(x, z)
    BY <2>3 DEF AreItems
  <2>. HIDE DEF Before, before
  <2>. QED BY <1>1, <2>1, <2>2, <2>3 DEF Orders
<1>. HIDE DEF before
<1>3. /\ Lists(list, items)
      /\ \A i, j \in 1 .. Cardinality(items) : i < j => <<list[i], list[j]>> \in before
  BY <1>2, InOrderIs
<1>4. Earliest(items, limit) = slice(list, 0, limit)
  BY DEF Earliest, before
<1>. HIDE DEF list
<1>5. PICK first : first = slice(list, 0, limit)
  OBVIOUS
<1>6. /\ Range(first) \subseteq items
      /\ \A x \in items :
            \/ x \in Range(first)
            \/ /\ Len(first) = limit
               /\ \E i \in 1 .. Cardinality(items) : list[i] = x /\ i > limit
      /\ \A x \in Range(first) : \E i \in 1 .. Cardinality(items) : list[i] = x /\ i <= limit
  BY <1>3, <1>5, PrefixIs
<1>7. ASSUME NEW x \in items, x \notin Range(first)
      PROVE  Len(first) = limit /\ \A y \in Range(first) : y.time <= x.time
  <2>1. PICK i \in 1 .. Cardinality(items) : list[i] = x /\ i > limit
    BY <1>6, <1>7
  <2>2. ASSUME NEW y \in Range(first) PROVE y.time <= x.time
    <3>1. PICK j \in 1 .. Cardinality(items) : list[j] = y /\ j <= limit
      BY <1>6
    <3>2. Cardinality(items) \in Nat
      BY <1>3 DEF Lists
    <3>3. j < i
      BY <2>1, <3>1, <3>2
    <3>4. y \in items
      BY <1>6
    <3>5. Before(y, x)
      <4>. HIDE DEF Before
      <4>. QED BY <1>1, <1>3, <2>1, <3>1, <3>3, <3>4
    <3>. QED BY <3>4, <3>5 DEF AreItems
  <2>. QED BY <1>6, <1>7, <2>2
<1>. QED BY <1>4, <1>5, <1>6, <1>7

ItemsOf(place, ids, times) == {Item(place, id, times[id]) : id \in ids}

\* The items of documents, by a time of theirs.
LEMMA ItemsFrom ==
    ASSUME IInv, NEW ids, ids \subseteq DOMAIN docs, NEW place \in Int, NEW times,
           \A id \in ids : times[id] \in Int
    PROVE  IsFiniteSet(ItemsOf(place, ids, times)) /\ AreItems(ItemsOf(place, ids, times))
<1>1. PICK items : items = {Item(place, id, times[id]) : id \in ids}
  OBVIOUS
<1>2. IsFiniteSet(ids) /\ ids \subseteq Int
  BY IdsFinite
<1>3. PICK f : f = [id \in ids |-> Item(place, id, times[id])]
  OBVIOUS
<1>4. f \in Surjection(ids, items)
  BY <1>1, <1>3 DEF Surjection
<1>5. IsFiniteSet(items)
  BY <1>2, <1>4, FS_Surjection
<1>6. AreItems(items)
  BY <1>1, <1>2 DEF AreItems, Item
<1>. QED BY <1>1, <1>5, <1>6 DEF ItemsOf

\* What is still to come is on the list of it.
LEMMA UpcomingIs ==
    ASSUME IInv
    PROVE  /\ IsFiniteSet(Upcoming) /\ AreItems(Upcoming)
           /\ \A id \in OpenRevisions :
                 docs[id].at # Absent /\ docs[id].at >= now => Item(1, id, docs[id].at) \in Upcoming
           /\ \A id \in OpenTasks :
                 PlannedAt(docs[id]) # Absent /\ PlannedAt(docs[id]) >= now =>
                     Item(2, id, PlannedAt(docs[id])) \in Upcoming
<1>. DEFINE ToCome(t) == t # Absent /\ t >= now
<1>1. PICK revisions, tasks, sessions :
        /\ revisions = {id \in OpenRevisions : ToCome(docs[id].at)}
        /\ tasks = {id \in OpenTasks : ToCome(PlannedAt(docs[id]))}
        /\ sessions = {id \in Sessions : ToCome(docs[id].at)}
  OBVIOUS
<1>2. PICK due, planned :
        /\ due = [id \in DOMAIN docs |-> docs[id].at]
        /\ planned = [id \in DOMAIN docs |-> PlannedAt(docs[id])]
  OBVIOUS
<1>3. /\ revisions \subseteq DOMAIN docs /\ tasks \subseteq DOMAIN docs
      /\ sessions \subseteq DOMAIN docs
  BY <1>1 DEF OpenRevisions, OpenTasks, Sessions, fetchStudySessionsSince, In
<1>4. \A id \in DOMAIN docs : due[id] \in Int /\ planned[id] \in Int
  BY <1>2, FieldsAre DEF PlannedAt, Absent
<1>5. PICK a, b, c : /\ a = ItemsOf(1, revisions, due)
                     /\ b = ItemsOf(2, tasks, planned)
                     /\ c = ItemsOf(3, sessions, due)
  OBVIOUS
<1>6. Upcoming = a \union b \union c
  <2>1. /\ a = {Item(1, id, docs[id].at) : id \in revisions}
        /\ b = {Item(2, id, PlannedAt(docs[id])) : id \in tasks}
        /\ c = {Item(3, id, docs[id].at) : id \in sessions}
    BY <1>2, <1>3, <1>5 DEF ItemsOf
  <2>. QED BY <1>1, <2>1 DEF Upcoming
<1>7. IsFiniteSet(a) /\ AreItems(a)
  <2>1. PICK place \in Int : place = 1
    OBVIOUS
  <2>. QED BY <1>3, <1>4, <1>5, <2>1, ItemsFrom
<1>8. IsFiniteSet(b) /\ AreItems(b)
  <2>1. PICK place \in Int : place = 2
    OBVIOUS
  <2>. QED BY <1>3, <1>4, <1>5, <2>1, ItemsFrom
<1>9. IsFiniteSet(c) /\ AreItems(c)
  <2>1. PICK place \in Int : place = 3
    OBVIOUS
  <2>. QED BY <1>3, <1>4, <1>5, <2>1, ItemsFrom
<1>10. IsFiniteSet(a \union b \union c)
  <2>1. PICK ab : ab = a \union b
    OBVIOUS
  <2>2. IsFiniteSet(ab)
    BY <1>7, <1>8, <2>1, FS_Union
  <2>3. IsFiniteSet(ab \union c)
    BY <1>9, <2>2, FS_Union
  <2>. QED BY <2>1, <2>3
<1>11. AreItems(Upcoming)
  BY <1>6, <1>7, <1>8, <1>9 DEF AreItems
<1>12. \A id \in OpenRevisions : ToCome(docs[id].at) => Item(1, id, docs[id].at) \in Upcoming
  BY DEF Upcoming
<1>13. \A id \in OpenTasks :
         ToCome(PlannedAt(docs[id])) => Item(2, id, PlannedAt(docs[id])) \in Upcoming
  BY DEF Upcoming
<1>. QED BY <1>6, <1>10, <1>11, <1>12, <1>13

\* Reminders are on the list of what is to come.
LEMMA RemindingIs ==
    ASSUME IInv
    PROVE  /\ IsFiniteSet(Reminding) /\ AreItems(Reminding)
           /\ \A item \in Reminding :
                 \E other \in Upcoming : other.id = item.id /\ other.time = item.time
<1>. DEFINE Soon(t) == t # Absent /\ t >= now /\ t <= endOfDay
<1>1. PICK revisions, tasks :
        /\ revisions = {id \in OpenRevisions : Soon(docs[id].at)}
        /\ tasks = {id \in OpenTasks : Soon(docs[id].reminderAt)}
  OBVIOUS
<1>2. PICK due, planned :
        /\ due = [id \in DOMAIN docs |-> docs[id].at]
        /\ planned = [id \in DOMAIN docs |-> docs[id].reminderAt]
  OBVIOUS
<1>3. revisions \subseteq DOMAIN docs /\ tasks \subseteq DOMAIN docs
  BY <1>1 DEF OpenRevisions, OpenTasks, In
<1>4. \A id \in DOMAIN docs : due[id] \in Int /\ planned[id] \in Int
  BY <1>2, FieldsAre DEF Absent
<1>5. PICK a, b : /\ a = ItemsOf(1, revisions, due)
                  /\ b = ItemsOf(2, tasks, planned)
  OBVIOUS
<1>6. Reminding = a \union b
  <2>1. /\ a = {Item(1, id, docs[id].at) : id \in revisions}
        /\ b = {Item(2, id, docs[id].reminderAt) : id \in tasks}
    BY <1>2, <1>3, <1>5 DEF ItemsOf
  <2>. QED BY <1>1, <2>1 DEF Reminding
<1>7. IsFiniteSet(a) /\ AreItems(a)
  <2>1. PICK place \in Int : place = 1
    OBVIOUS
  <2>. QED BY <1>3, <1>4, <1>5, <2>1, ItemsFrom
<1>8. IsFiniteSet(b) /\ AreItems(b)
  <2>1. PICK place \in Int : place = 2
    OBVIOUS
  <2>. QED BY <1>3, <1>4, <1>5, <2>1, ItemsFrom
<1>9. IsFiniteSet(a \union b)
  BY <1>7, <1>8, FS_Union
<1>10. AreItems(Reminding)
  BY <1>6, <1>7, <1>8 DEF AreItems
<1>11. ASSUME NEW item \in Reminding
       PROVE  \E other \in Upcoming : other.id = item.id /\ other.time = item.time
  <2>1. CASE \E id \in revisions : item = Item(1, id, docs[id].at)
    <3>1. PICK id \in revisions : item = Item(1, id, docs[id].at)
      BY <2>1
    <3>2. item \in Upcoming
      BY <1>1, <3>1, UpcomingIs
    <3>. QED BY <3>2
  <2>2. CASE \E id \in tasks : item = Item(2, id, docs[id].reminderAt)
    <3>1. PICK id \in tasks : item = Item(2, id, docs[id].reminderAt)
      BY <2>2
    <3>2. id \in OpenTasks /\ PlannedAt(docs[id]) = docs[id].reminderAt /\ Soon(docs[id].reminderAt)
      BY <1>1, <3>1 DEF PlannedAt
    <3>3. item \in Upcoming
      BY <3>1, <3>2, UpcomingIs
    <3>. QED BY <3>3
  <2>. QED BY <1>1, <2>1, <2>2 DEF Reminding
<1>. QED BY <1>6, <1>9, <1>10, <1>11

\* What is due is on the list of it.
LEMMA DueListIs ==
    ASSUME IInv, NEW ids, ids \subseteq DOMAIN docs, NEW limit \in Nat,
           \A id \in ids : docs[id].at # Absent
    PROVE  LET list == slice(sortInMemory(docs, ids, "at", "asc"), 0, limit) IN
           /\ Range(list) \subseteq ids
           /\ \A id \in ids : \/ id \in Range(list)
                              \/ /\ Len(list) = limit
                                 /\ \A other \in Range(list) : docs[other].at <= docs[id].at
<1>1. PICK all : all = sortInMemory(docs, ids, "at", "asc")
  OBVIOUS
<1>2. \A id \in ids : docs[id].at \in Int
  BY FieldsAre DEF Absent
<1>3. IsFiniteSet(ids) /\ ids \subseteq Int
  BY IdsFinite
<1>4. /\ Lists(all, ids)
      /\ \A i, j \in 1 .. Cardinality(ids) :
            i < j => \/ Precedes(docs[all[i]].at, docs[all[j]].at, "asc")
                     \/ ~Precedes(docs[all[j]].at, docs[all[i]].at, "asc")
  <2>1. PICK field : field = "at"
    OBVIOUS
  <2>2. \A id \in ids : docs[id][field] \in Int
    BY <1>2, <2>1
  <2>3. PICK list : list = sortInMemory(docs, ids, field, "asc")
    OBVIOUS
  <2>4. /\ Lists(list, ids)
        /\ \A i, j \in 1 .. Cardinality(ids) :
              i < j => \/ Precedes(docs[list[i]][field], docs[list[j]][field], "asc")
                       \/ /\ ~Precedes(docs[list[j]][field], docs[list[i]][field], "asc")
                          /\ list[i] < list[j]
    BY <1>3, <2>2, <2>3, SortedIs
  <2>. QED BY <1>1, <2>1, <2>3, <2>4
<1>5. \A i, j \in 1 .. Cardinality(ids) : i < j => docs[all[i]].at <= docs[all[j]].at
  <2>. TAKE i, j \in 1 .. Cardinality(ids)
  <2>1. all[i] \in ids /\ all[j] \in ids
    BY <1>4 DEF Lists
  <2>2. docs[all[i]].at # Absent /\ docs[all[j]].at # Absent
        /\ docs[all[i]].at \in Int /\ docs[all[j]].at \in Int
    BY <1>2, <2>1
  <2>. QED BY <1>4, <2>2 DEF Precedes
<1>6. PICK list : list = slice(all, 0, limit)
  OBVIOUS
<1>7. /\ Range(list) \subseteq ids
      /\ \A x \in ids :
            \/ x \in Range(list)
            \/ /\ Len(list) = limit
               /\ \E i \in 1 .. Cardinality(ids) : all[i] = x /\ i > limit
      /\ \A x \in Range(list) : \E i \in 1 .. Cardinality(ids) : all[i] = x /\ i <= limit
  BY <1>4, <1>6, PrefixIs
<1>8. ASSUME NEW id \in ids, id \notin Range(list)
      PROVE  Len(list) = limit /\ \A other \in Range(list) : docs[other].at <= docs[id].at
  <2>1. PICK i \in 1 .. Cardinality(ids) : all[i] = id /\ i > limit
    BY <1>7, <1>8
  <2>2. ASSUME NEW other \in Range(list) PROVE docs[other].at <= docs[id].at
    <3>1. PICK j \in 1 .. Cardinality(ids) : all[j] = other /\ j <= limit
      BY <1>7
    <3>2. Cardinality(ids) \in Nat
      BY <1>4 DEF Lists
    <3>3. j < i
      BY <2>1, <3>1, <3>2
    <3>. QED BY <1>5, <2>1, <3>1, <3>3
  <2>. QED BY <1>7, <1>8, <2>2
<1>. QED BY <1>1, <1>6, <1>7, <1>8

\* No open revision falls between the lists of the home screen, whatever their
\* limits; and the lists agree with each other.
THEOREM NothingOpenIsHidden == Spec => []OpenWorkIsShown
<1>1. ASSUME IInv, VInv PROVE OpenWorkIsShown
  <2>. DEFINE scheduled == {<<item.id, item.time>> : item \in Upcoming}
  <2>0. /\ PENDING_REVISIONS_LIMIT \in Nat /\ TODAYS_TASKS_LIMIT \in Nat
        /\ UPCOMING_REMINDERS_LIMIT \in Nat /\ UPCOMING_SCHEDULE_LIMIT \in Nat
    BY TargetsAssumption
  <2>1. ASSUME NEW id \in In("revisions"), docs[id].status \notin {"completed", "skipped"}
        PROVE  \/ id \in Range(pendingRevisions)
               \/ \E item \in Range(buildUpcomingSchedule) : item.id = id
               \/ /\ Len(pendingRevisions) = PENDING_REVISIONS_LIMIT
                  /\ \A other \in Range(pendingRevisions) : docs[other].at <= docs[id].at
               \/ /\ Len(buildUpcomingSchedule) = UPCOMING_SCHEDULE_LIMIT
                  /\ \A item \in Range(buildUpcomingSchedule) : item.time <= docs[id].at
    <3>1. id \in DOMAIN docs /\ docs[id].collection = "revisions"
      BY DEF In
    <3>2. docs[id].at \in Nat /\ docs[id].at # Absent /\ id \in OpenRevisions
      <4>1. docs[id].status \in RevisionStatuses /\ docs[id].at # Absent
        BY <1>1, <3>1 DEF VInv, Plain
      <4>2. docs[id].status \in OPEN_REVISION_STATUSES
        BY <2>1, <4>1 DEF RevisionStatuses, OPEN_REVISION_STATUSES
      <4>. QED BY <1>1, <3>1, <4>1, <4>2, FieldsAre DEF OpenRevisions
    <3>3. CASE docs[id].at <= endOfDay
      <4>1. id \in pending /\ pending \subseteq In("revisions")
        BY <3>2, <3>3 DEF pending, OpenRevisions
      <4>2. \A other \in In("revisions") : other \in DOMAIN docs /\ docs[other].at # Absent
        BY <1>1 DEF In, VInv, Plain
      <4>3. pending \subseteq DOMAIN docs /\ \A other \in pending : docs[other].at # Absent
        BY <4>1, <4>2
      <4>4. PICK ids, limit : ids = pending /\ limit = PENDING_REVISIONS_LIMIT /\ limit \in Nat
        BY <2>0
      <4>5. PICK list : list = slice(sortInMemory(docs, ids, "at", "asc"), 0, limit)
        OBVIOUS
      <4>6. \/ id \in Range(list)
            \/ Len(list) = limit /\ \A other \in Range(list) : docs[other].at <= docs[id].at
        BY <1>1, <4>1, <4>3, <4>4, <4>5, DueListIs
      <4>. QED BY <4>4, <4>5, <4>6 DEF pendingRevisions
    <3>4. CASE ~(docs[id].at <= endOfDay)
      <4>1. docs[id].at >= now
        <5>1. endOfDay \in Nat /\ now \in startOfDay .. endOfDay /\ startOfDay \in Nat
          BY <1>1, DayIs
        <5>. QED BY <3>2, <3>4, <5>1
      <4>2. PICK item : item = Item(1, id, docs[id].at)
        OBVIOUS
      <4>3. item \in Upcoming /\ item.id = id /\ item.time = docs[id].at
        BY <1>1, <3>2, <4>1, <4>2, UpcomingIs DEF Item
      <4>4. PICK list : list = buildUpcomingSchedule
        OBVIOUS
      <4>5. \/ item \in Range(list)
            \/ Len(list) = UPCOMING_SCHEDULE_LIMIT /\ \A y \in Range(list) : y.time <= item.time
        BY <1>1, <2>0, <4>3, <4>4, UpcomingIs, EarliestIs DEF buildUpcomingSchedule
      <4>. QED BY <4>3, <4>4, <4>5
    <3>. QED BY <3>3, <3>4
  <2>2. ASSUME NEW item \in Range(upcomingReminders)
        PROVE  <<item.id, item.time>> \in scheduled
    <3>1. Range(upcomingReminders) \subseteq Reminding
      BY <1>1, <2>0, RemindingIs, EarliestIs DEF upcomingReminders
    <3>. QED BY <1>1, <3>1, RemindingIs
  <2>3. ASSUME NEW id \in Range(todaysTasks), docs[id].reminderAt = Absent, docs[id].at >= now
        PROVE  <<id, docs[id].at>> \in scheduled
    <3>1. PICK due : due = {i \in OpenTasks : docs[i].at # Absent /\ Today(docs[i].at)}
      OBVIOUS
    <3>2. due \subseteq DOMAIN docs /\ \A i \in due : docs[i].at # Absent
      BY <3>1 DEF OpenTasks, In
    <3>3. Range(todaysTasks) \subseteq due
      BY <1>1, <2>0, <3>1, <3>2, DueListIs DEF todaysTasks
    <3>4. id \in OpenTasks /\ docs[id].at # Absent /\ PlannedAt(docs[id]) = docs[id].at
      BY <2>3, <3>1, <3>3 DEF PlannedAt
    <3>5. PICK item : item = Item(2, id, docs[id].at)
      OBVIOUS
    <3>6. item \in Upcoming /\ item.id = id /\ item.time = docs[id].at
      BY <1>1, <2>3, <3>4, <3>5, UpcomingIs DEF Item
    <3>. QED BY <3>6
  <2>. QED BY <2>1, <2>2, <2>3 DEF OpenWorkIsShown
<1>. QED BY <1>1, ViewsInvariant, PTL

-----------------------------------------------------------------------------
(* Streaks.                                                                 *)

\* A bounded set of numbers has a greatest one.
LEMMA Greatest ==
    ASSUME NEW S, S \subseteq Nat, S # {}, NEW bound \in Nat, \A n \in S : n <= bound
    PROVE  \E m \in S : \A n \in S : n <= m
<1>1. PICK below : below = {bound - n : n \in S}
  OBVIOUS
<1>2. below \subseteq Nat /\ below # {}
  <2>1. \A n \in S : bound - n \in Nat
    OBVIOUS
  <2>. QED BY <1>1, <2>1
<1>3. PICK k \in below : \A l \in below : k <= l
  BY <1>2, LeastNumber
<1>4. PICK m \in S : k = bound - m
  BY <1>1
<1>5. \A n \in S : bound - m <= bound - n
  BY <1>1, <1>3, <1>4
<1>. QED BY <1>5

\* Multiples are ordered as what they are multiples of.
LEMMA Multiples ==
    ASSUME NEW step \in Nat \ {0}, NEW a \in Int, NEW b \in Int
    PROVE  /\ a * step \in Int
           /\ a < b <=> a * step < b * step
           /\ a * step = b * step <=> a = b
           /\ a * step + step = b * step <=> a + 1 = b
           /\ (a - 1) * step = a * step - step
<1>1. a * step \in Int /\ b * step \in Int /\ (a - 1) * step = a * step - step
      /\ (a + 1) * step = a * step + step
  OBVIOUS
<1>2. ASSUME NEW c \in Int, NEW d \in Int, c < d PROVE c * step < d * step
  <2>1. c + 1 <= d /\ c + 1 \in Int
    BY <1>2
  <2>2. (c + 1) * step <= d * step
    BY <2>1, Monotone
  <2>3. (c + 1) * step = c * step + step /\ c * step \in Int /\ d * step \in Int
    OBVIOUS
  <2>. QED BY <2>2, <2>3
<1>3. a < b => a * step < b * step
  BY <1>2
<1>4. b < a => b * step < a * step
  BY <1>2
<1>5. a < b <=> a * step < b * step
  BY <1>1, <1>3, <1>4
<1>6. a * step = b * step <=> a = b
  BY <1>1, <1>3, <1>4
<1>7. a * step + step = b * step <=> a + 1 = b
  <2>1. a + 1 < b => (a + 1) * step < b * step
    BY <1>2
  <2>2. b < a + 1 => b * step < (a + 1) * step
    BY <1>2
  <2>. QED BY <1>1, <2>1, <2>2
<1>. QED BY <1>1, <1>5, <1>6, <1>7

\* The stretch that ends at e is of this length, and goes back no further.
EndsAt(set, e, length) ==
    /\ length \in Nat /\ e - length + 1 .. e \subseteq set /\ e - length \notin set

\* The longest stretch that ends somewhere.
LEMMA StretchesEnd ==
    ASSUME NEW set, set \subseteq Nat, NEW e \in Int, NEW length, EndsAt(set, e, length)
    PROVE  /\ length > 0 => /\ <<e - length + 1, e>> \in Stretches(set)
                            /\ e - (e - length + 1) + 1 = length
           /\ \A s \in Stretches(set) : s[2] = e => s[2] - s[1] + 1 <= length
           /\ length = 0 => e \notin set
<1>1. length \in Nat /\ e - length + 1 .. e \subseteq set /\ e - length \notin set
  BY DEF EndsAt
<1>2. ASSUME length > 0 PROVE <<e - length + 1, e>> \in Stretches(set)
  <2>1. e - length + 1 \in e - length + 1 .. e /\ e \in e - length + 1 .. e
    BY <1>1, <1>2
  <2>2. e - length + 1 <= e
    BY <1>1, <1>2
  <2>3. PICK first : first = e - length + 1
    OBVIOUS
  <2>4. first \in set /\ e \in set /\ first <= e /\ first .. e \subseteq set
    BY <1>1, <2>1, <2>2, <2>3
  <2>5. <<first, e>> \in Stretches(set)
    BY <2>4 DEF Stretches
  <2>. QED BY <2>3, <2>5
<1>3. ASSUME NEW s \in Stretches(set), s[2] = e PROVE s[2] - s[1] + 1 <= length
  <2>1. PICK a \in Int : a = s[1]
    <3>1. s \in set \X set
      BY DEF Stretches
    <3>2. s[1] \in Nat
      BY <3>1
    <3>. QED BY <3>2
  <2>2. a <= e /\ a .. e \subseteq set
    BY <1>3, <2>1 DEF Stretches
  <2>3. e - length \notin a .. e
    BY <1>1, <2>2
  <2>4. ~(a <= e - length)
    BY <1>1, <2>3
  <2>. QED BY <1>1, <1>3, <2>1, <2>4
<1>4. length = 0 => e \notin set
  BY <1>1
<1>. QED BY <1>1, <1>2, <1>3, <1>4

\* A run grows with a stretch, and starts anew after a gap.
LEMMA RunContinues ==
    ASSUME NEW set, NEW e \in Int, NEW length
    PROVE  /\ e \in set /\ EndsAt(set, e - 1, length) => EndsAt(set, e, length + 1)
           /\ e \in set /\ e - 1 \notin set => EndsAt(set, e, 1)
           /\ e \notin set => EndsAt(set, e, 0)
<1>1. ASSUME e \in set, EndsAt(set, e - 1, length) PROVE EndsAt(set, e, length + 1)
  <2>1. length \in Nat /\ (e - 1) - length + 1 .. e - 1 \subseteq set /\ (e - 1) - length \notin set
    BY <1>1 DEF EndsAt
  <2>2. \A k \in e - (length + 1) + 1 .. e : k = e \/ k \in (e - 1) - length + 1 .. e - 1
    BY <2>1
  <2>3. e - (length + 1) = (e - 1) - length
    BY <2>1
  <2>4. length + 1 \in Nat
    BY <2>1
  <2>5. e - (length + 1) + 1 .. e \subseteq set
    BY <1>1, <2>1, <2>2
  <2>. QED BY <2>1, <2>3, <2>4, <2>5 DEF EndsAt
<1>2. ASSUME e \in set, e - 1 \notin set PROVE EndsAt(set, e, 1)
  <2>1. e - 1 + 1 .. e = {e}
    OBVIOUS
  <2>. QED BY <1>2, <2>1 DEF EndsAt
<1>3. ASSUME e \notin set PROVE EndsAt(set, e, 0)
  <2>1. e - 0 + 1 .. e = {} /\ e - 0 = e
    OBVIOUS
  <2>. QED BY <1>3, <2>1 DEF EndsAt
<1>. QED BY <1>1, <1>2, <1>3

AreRuns(runs, keys, step) ==
    /\ DOMAIN runs = 0 .. Len(keys) /\ runs[0] = 0
    /\ \A i \in 1 .. Len(keys) :
          runs[i] = IF i > 1 /\ keys[i - 1] + step = keys[i] THEN runs[i - 1] + 1 ELSE 1

\* One pass over the keys comes to the runs it is meant to.
LEMMA RunsRecur ==
    ASSUME NEW keys \in Seq(Int), NEW step
    PROVE  AreRuns(RunsOf(keys, step), keys, step)
<1>0. PICK n \in Nat : n = Len(keys)
  OBVIOUS
<1>. DEFINE IsRuns(f) ==
                f = [i \in 0 .. n |->
                        IF i = 0 THEN 0
                        ELSE IF i > 1 /\ keys[i - 1] + step = keys[i] THEN f[i - 1] + 1 ELSE 1]
            next == [i \in 1 .. n |->
                        [m \in Nat |-> IF i > 1 /\ keys[i - 1] + step = keys[i] THEN m + 1 ELSE 1]]
<1>1. \A i \in 1 .. n : \A m \in Nat :
        /\ next[i][m] = IF i > 1 /\ keys[i - 1] + step = keys[i] THEN m + 1 ELSE 1
        /\ next[i][m] \in Nat
  OBVIOUS
<1>. HIDE DEF next
<1>2. PICK numbers, none : numbers = Nat /\ none = 0
  OBVIOUS
<1>3. none \in numbers /\ \A i \in 1 .. n : \A m \in numbers : next[i][m] \in numbers
  BY <1>1, <1>2
<1>4. PICK f : Solves(f, n, numbers, none, next)
  BY <1>3, RecursionExists
<1>5. f \in [0 .. n -> Nat] /\ f[0] = 0 /\ \A i \in 1 .. n : f[i] = next[i][f[i - 1]]
  BY <1>2, <1>4 DEF Solves
<1>6. \A i \in 1 .. n : i \in 0 .. n /\ i - 1 \in 0 .. n /\ i # 0
  OBVIOUS
<1>7. \A i \in 1 .. n :
        f[i] = IF i > 1 /\ keys[i - 1] + step = keys[i] THEN f[i - 1] + 1 ELSE 1
  <2>. TAKE i \in 1 .. n
  <2>1. i - 1 \in 0 .. n /\ f[i] = next[i][f[i - 1]]
    BY <1>5, <1>6
  <2>2. f[i - 1] \in Nat
    BY <1>5, <2>1
  <2>. QED BY <1>1, <2>1, <2>2
<1>8. \A i \in 0 .. n : i = 0 \/ i \in 1 .. n
  OBVIOUS
<1>9. IsRuns(f)
  BY <1>5, <1>6, <1>7, <1>8
<1>10. RunsOf(keys, step) = CHOOSE g : IsRuns(g)
  BY <1>0 DEF RunsOf
<1>. HIDE DEF IsRuns
<1>11. IsRuns(RunsOf(keys, step))
  BY <1>9, <1>10
<1>12. PICK runs : runs = RunsOf(keys, step)
  OBVIOUS
<1>13. runs = [i \in 0 .. n |->
                  IF i = 0 THEN 0
                  ELSE IF i > 1 /\ keys[i - 1] + step = keys[i] THEN runs[i - 1] + 1 ELSE 1]
  BY <1>11, <1>12 DEF IsRuns
<1>14. 0 \in 0 .. n
  OBVIOUS
<1>15. DOMAIN runs = 0 .. n /\ runs[0] = 0
  BY <1>13, <1>14
<1>16. \A i \in 1 .. n :
         runs[i] = IF i > 1 /\ keys[i - 1] + step = keys[i] THEN runs[i - 1] + 1 ELSE 1
  BY <1>6, <1>13
<1>. QED BY <1>0, <1>12, <1>15, <1>16 DEF AreRuns

\* The greatest length, of all and of nothing.
LEMMA LongestIs ==
    ASSUME NEW set, set \subseteq Nat, NEW stretches, stretches \subseteq Stretches(set),
           NEW m \in Nat, m = 0 \/ \E s \in stretches : s[2] - s[1] + 1 = m,
           \A s \in stretches : s[2] - s[1] + 1 <= m
    PROVE  LongestOf(stretches) = m
<1>1. PICK lengths : lengths = {0} \union {s[2] - s[1] + 1 : s \in stretches}
  OBVIOUS
<1>2. \A s \in stretches : s[2] - s[1] + 1 \in Int
  <2>. TAKE s \in stretches
  <2>1. s \in set \X set
    BY DEF Stretches
  <2>2. s[1] \in Nat /\ s[2] \in Nat
    BY <2>1
  <2>. QED BY <2>2
<1>3. lengths \subseteq Int /\ m \in lengths /\ \A k \in lengths : m >= k
  BY <1>1, <1>2
<1>4. Max(lengths) = m
  BY <1>3, MaxIs
<1>. QED BY <1>1, <1>4 DEF LongestOf

\* The longest of the runs is the longest stretch.
LEMMA LongestRunIs ==
    ASSUME NEW set, set \subseteq Nat, NEW step \in Nat \ {0},
           NEW multiples, multiples = {e * step : e \in set},
           NEW keys, Lists(keys, multiples), multiples \subseteq Int,
           \A i, j \in 1 .. Cardinality(multiples) : i < j => keys[i] < keys[j]
    PROVE  longestRun(keys, step) = LongestOf(Stretches(set))
<1>1. PICK n : n = Cardinality(multiples)
  OBVIOUS
<1>2. /\ n \in Nat /\ keys \in Seq(Int) /\ Len(keys) = n
      /\ \A i \in 1 .. n : keys[i] \in multiples
      /\ \A x \in multiples : \E i \in 1 .. n : keys[i] = x
      /\ \A i, j \in 1 .. n : i < j => keys[i] < keys[j]
  <2>1. /\ n \in Nat /\ keys \in Seq(multiples) /\ keys \in [1 .. n -> multiples]
        /\ \A x \in multiples : \E i \in 1 .. n : keys[i] = x
        /\ Len(keys) = n
    BY <1>1 DEF Lists
  <2>2. \A i \in 1 .. n : keys[i] \in multiples
    BY <2>1
  <2>3. keys \in Seq(Int)
    BY <2>1
  <2>. QED BY <1>1, <2>1, <2>2, <2>3
<1>3. PICK f : f = [i \in 1 .. n |-> CHOOSE e \in set : e * step = keys[i]]
  OBVIOUS
<1>4. \A i \in 1 .. n : f[i] \in set /\ f[i] * step = keys[i] /\ f[i] \in Int
  <2>. TAKE i \in 1 .. n
  <2>1. PICK e \in set : e * step = keys[i]
    BY <1>2
  <2>2. f[i] \in set /\ f[i] * step = keys[i]
    BY <1>3, <2>1
  <2>3. \A x \in set : x \in Int
    OBVIOUS
  <2>. QED BY <2>2, <2>3
<1>5. \A i, j \in 1 .. n : i < j => f[i] < f[j]
  <2>. SUFFICES ASSUME NEW i \in 1 .. n, NEW j \in 1 .. n, i < j PROVE f[i] < f[j]
    OBVIOUS
  <2>1. keys[i] < keys[j]
    BY <1>2
  <2>2. PICK a \in Int, b \in Int : a = f[i] /\ b = f[j]
    BY <1>4
  <2>3. a * step < b * step
    BY <1>4, <2>1, <2>2
  <2>. QED BY <2>2, <2>3, Multiples
<1>6. \A e \in set : \E i \in 1 .. n : f[i] = e
  <2>. TAKE e \in set
  <2>1. e * step \in multiples /\ e \in Int
    <3>1. e * step \in multiples
      OBVIOUS
    <3>2. \A x \in set : x \in Int
      OBVIOUS
    <3>. QED BY <3>1, <3>2
  <2>2. PICK i \in 1 .. n : keys[i] = e * step
    BY <1>2, <2>1
  <2>3. PICK a \in Int : a = f[i]
    BY <1>4
  <2>4. a * step = e * step
    BY <1>4, <2>2, <2>3
  <2>5. a = e
    BY <2>1, <2>4, Multiples
  <2>. QED BY <2>3, <2>5
<1>7. PICK runs : runs = RunsOf(keys, step)
  OBVIOUS
<1>8. /\ DOMAIN runs = 0 .. n /\ runs[0] = 0
      /\ \A i \in 1 .. n :
            runs[i] = IF i > 1 /\ keys[i - 1] + step = keys[i] THEN runs[i - 1] + 1 ELSE 1
  <2>1. keys \in Seq(Int) /\ Len(keys) = n
    BY <1>2
  <2>2. AreRuns(runs, keys, step)
    BY <1>7, <2>1, RunsRecur
  <2>. QED BY <2>1, <2>2 DEF AreRuns
<1>. DEFINE known == {i \in 0 .. n : i = 0 \/ (EndsAt(set, f[i], runs[i]) /\ runs[i] \in 1 .. i)}
<1>9. 0 \in known
  BY <1>2
<1>10. ASSUME NEW i \in 1 .. n, i - 1 \in known PROVE i \in known
  <2>1. i \in 0 .. n /\ f[i] \in set /\ f[i] \in Int
    BY <1>4
  <2>2. CASE i > 1 /\ keys[i - 1] + step = keys[i]
    <3>1. i - 1 \in 1 .. n /\ i - 1 # 0
      <4>1. i > 1 /\ n \in Nat
        BY <1>2, <2>2
      <4>. QED BY <4>1
    <3>2. EndsAt(set, f[i - 1], runs[i - 1]) /\ runs[i - 1] \in 1 .. i - 1
      BY <1>10, <3>1
    <3>3. PICK a \in Int, b \in Int : a = f[i - 1] /\ b = f[i]
      BY <1>4, <3>1
    <3>4. a * step + step = b * step
      BY <1>4, <2>2, <3>1, <3>3
    <3>5. a + 1 = b
      BY <3>4, Multiples
    <3>6. a = b - 1
      BY <3>5
    <3>7. EndsAt(set, b, runs[i - 1] + 1)
      BY <2>1, <3>2, <3>3, <3>6, RunContinues
    <3>8. runs[i] = runs[i - 1] + 1
      BY <1>8, <2>2
    <3>9. runs[i] \in 1 .. i
      BY <3>2, <3>8
    <3>. QED BY <2>1, <3>3, <3>7, <3>8, <3>9
  <2>3. CASE ~(i > 1 /\ keys[i - 1] + step = keys[i])
    <3>1. f[i] - 1 \notin set
      <4>. SUFFICES ASSUME f[i] - 1 \in set PROVE FALSE
        OBVIOUS
      <4>1. PICK j \in 1 .. n : f[j] = f[i] - 1
        BY <1>6
      <4>2. ~(i < j) /\ i # j
        BY <1>4, <1>5, <4>1
      <4>3. j <= i - 1 /\ i > 1 /\ i - 1 \in 1 .. n
        <5>1. n \in Nat
          BY <1>2
        <5>. QED BY <4>2, <5>1
      <4>4. ~(j < i - 1)
        <5>1. j < i - 1 => f[j] < f[i - 1] /\ f[i - 1] < f[i]
          BY <1>5, <4>3
        <5>2. f[j] \in Int /\ f[i - 1] \in Int /\ f[i] \in Int
          BY <1>4, <4>3
        <5>. QED BY <4>1, <5>1, <5>2
      <4>5. j = i - 1
        BY <4>3, <4>4
      <4>6. PICK a \in Int, b \in Int : a = f[i - 1] /\ b = f[i]
        BY <1>4, <4>3
      <4>7. a + 1 = b
        BY <4>1, <4>5, <4>6
      <4>8. a * step + step = b * step
        BY <4>7, Multiples
      <4>9. keys[i - 1] + step = keys[i]
        BY <1>4, <4>3, <4>6, <4>8
      <4>. QED BY <2>3, <4>3, <4>9
    <3>2. runs[i] = 1
      BY <1>8, <2>3
    <3>3. EndsAt(set, f[i], 1)
      BY <2>1, <3>1, RunContinues
    <3>. QED BY <2>1, <3>2, <3>3
  <2>. QED BY <2>2, <2>3
<1>11. 0 .. n \subseteq known
  <2>. HIDE DEF known
  <2>. QED BY <1>2, <1>9, <1>10, OneByOne
<1>12. \A i \in 1 .. n : EndsAt(set, f[i], runs[i]) /\ runs[i] \in 1 .. i
  <2>. TAKE i \in 1 .. n
  <2>1. i \in known /\ i # 0
    <3>. HIDE DEF known
    <3>. QED BY <1>11
  <2>. QED BY <2>1
<1>. HIDE DEF known
<1>13. PICK range : range = Range(runs)
  OBVIOUS
<1>14. range = {runs[i] : i \in 0 .. n}
  BY <1>8, <1>13 DEF Range
<1>15. \A i \in 0 .. n : runs[i] \in Nat /\ runs[i] <= n
  <2>1. \A i \in 0 .. n : i = 0 \/ i \in 1 .. n
    OBVIOUS
  <2>. QED BY <1>2, <1>8, <1>12, <2>1
<1>16. range \subseteq Nat /\ range # {} /\ \A k \in range : k <= n
  <2>1. 0 \in 0 .. n
    BY <1>2
  <2>. QED BY <1>14, <1>15, <2>1
<1>17. PICK m \in range : \A k \in range : k <= m
  BY <1>2, <1>16, Greatest
<1>18. m \in Nat /\ range \subseteq Int /\ \A k \in range : m >= k
  BY <1>16, <1>17
<1>19. Max(range) = m
  BY <1>17, <1>18, MaxIs
<1>20. m = 0 \/ \E s \in Stretches(set) : s[2] - s[1] + 1 = m
  <2>1. PICK i \in 0 .. n : m = runs[i]
    BY <1>14, <1>17
  <2>2. CASE i = 0
    BY <1>8, <2>1, <2>2
  <2>3. CASE i \in 1 .. n
    <3>1. EndsAt(set, f[i], m) /\ m > 0 /\ f[i] \in Int
      BY <1>4, <1>12, <2>1, <2>3
    <3>2. PICK e \in Int : e = f[i]
      BY <3>1
    <3>3. <<e - m + 1, e>> \in Stretches(set) /\ e - (e - m + 1) + 1 = m
      <4>1. EndsAt(set, e, m)
        BY <3>1, <3>2
      <4>2. <<e - m + 1, e>> \in Stretches(set)
        BY <3>1, <4>1, StretchesEnd
      <4>. QED BY <1>18, <4>2
    <3>4. PICK s : s = <<e - m + 1, e>>
      OBVIOUS
    <3>5. s[2] - s[1] + 1 = m
      BY <3>3, <3>4
    <3>. QED BY <3>3, <3>4, <3>5
  <2>. QED BY <2>2, <2>3
<1>21. \A s \in Stretches(set) : s[2] - s[1] + 1 <= m
  <2>. TAKE s \in Stretches(set)
  <2>1. s[2] \in set
    <3>1. s \in set \X set
      BY DEF Stretches
    <3>. QED BY <3>1
  <2>2. PICK i \in 1 .. n : f[i] = s[2]
    BY <1>6, <2>1
  <2>3. EndsAt(set, s[2], runs[i]) /\ s[2] \in Int
    BY <1>4, <1>12, <2>2
  <2>4. s[2] - s[1] + 1 <= runs[i]
    <3>1. PICK e \in Int : e = s[2]
      BY <2>3
    <3>2. PICK length : length = runs[i]
      OBVIOUS
    <3>3. EndsAt(set, e, length)
      BY <2>3, <3>1, <3>2
    <3>4. \A q \in Stretches(set) : q[2] = e => q[2] - q[1] + 1 <= length
      BY <3>3, StretchesEnd
    <3>. QED BY <3>1, <3>2, <3>4
  <2>5. i \in 0 .. n
    BY <2>2
  <2>6. runs[i] <= m /\ runs[i] \in Nat
    BY <1>14, <1>15, <1>17, <2>5
  <2>7. s[2] - s[1] + 1 \in Int
    <3>1. s \in set \X set
      BY DEF Stretches
    <3>2. s[1] \in Nat /\ s[2] \in Nat
      BY <3>1
    <3>. QED BY <3>2
  <2>. QED BY <1>18, <2>4, <2>6, <2>7
<1>22. LongestOf(Stretches(set)) = m
  <2>1. PICK stretches : stretches = Stretches(set)
    OBVIOUS
  <2>2. stretches \subseteq Stretches(set)
    BY <2>1
  <2>. QED BY <1>18, <1>20, <1>21, <2>1, <2>2, LongestIs
<1>. QED BY <1>7, <1>13, <1>19, <1>22 DEF longestRun

\* The run at each step, back to before there was any.
IsRunBefore(back, active, today, step) ==
    back = [key \in -2 * step .. today |-> IF key \in active THEN 1 + back[key - step] ELSE 0]

\* Going back step by step comes to an end.
LEMMA RunBeforeExists ==
    ASSUME NEW set, set \subseteq Nat, NEW step \in Nat \ {0}, NEW t \in Nat,
           NEW multiples, multiples = {e * step : e \in set}
    PROVE  \E back : IsRunBefore(back, multiples, t * step, step)
<1>. DEFINE next == [j \in 1 .. t + 1 |-> [m \in Nat |-> IF j - 1 \in set THEN m + 1 ELSE 0]]
            place == [key \in multiples |-> CHOOSE e \in set : e * step = key]
            dom == -2 * step .. t * step
<1>1. \A j \in 1 .. t + 1 : \A m \in Nat :
        next[j][m] = (IF j - 1 \in set THEN m + 1 ELSE 0) /\ next[j][m] \in Nat
  OBVIOUS
<1>. HIDE DEF next
<1>2. PICK numbers, none : numbers = Nat /\ none = 0
  OBVIOUS
<1>3. none \in numbers /\ \A j \in 1 .. t + 1 : \A m \in numbers : next[j][m] \in numbers
  BY <1>1, <1>2
<1>4. PICK top \in Nat : top = t + 1
  OBVIOUS
<1>5. PICK r : Solves(r, top, numbers, none, next)
  BY <1>3, <1>4, RecursionExists
<1>6. r \in [0 .. t + 1 -> Nat] /\ r[0] = 0 /\ \A j \in 1 .. t + 1 : r[j] = next[j][r[j - 1]]
  BY <1>2, <1>4, <1>5 DEF Solves
<1>7. \A j \in 1 .. t + 1 : r[j] = IF j - 1 \in set THEN r[j - 1] + 1 ELSE 0
  <2>. TAKE j \in 1 .. t + 1
  <2>1. j - 1 \in 0 .. t + 1 /\ r[j] = next[j][r[j - 1]]
    BY <1>6
  <2>2. r[j - 1] \in Nat
    BY <1>6, <2>1
  <2>. QED BY <1>1, <2>1, <2>2
<1>8. \A e \in set : place[e * step] = e
  <2>. TAKE e \in set
  <2>1. e * step \in multiples /\ e \in Int
    <3>1. e * step \in multiples
      OBVIOUS
    <3>2. \A x \in set : x \in Int
      OBVIOUS
    <3>. QED BY <3>1, <3>2
  <2>2. PICK x : x = place[e * step]
    OBVIOUS
  <2>3. x \in set /\ x * step = e * step
    BY <2>1, <2>2
  <2>4. x \in Int
    BY <2>3
  <2>5. x = e
    BY <2>1, <2>3, <2>4, Multiples
  <2>. QED BY <2>2, <2>5
<1>. HIDE DEF place
<1>9. PICK f : f = [key \in dom |-> IF key \in multiples THEN r[place[key] + 1] ELSE 0]
  OBVIOUS
<1>10. \A e \in Int : e * step \in multiples <=> e \in set
  <2>. SUFFICES ASSUME NEW e \in Int, e * step \in multiples PROVE e \in set
    OBVIOUS
  <2>1. PICK x \in set : x * step = e * step
    OBVIOUS
  <2>2. x \in Int
    BY <2>1
  <2>3. x = e
    BY <2>1, <2>2, Multiples
  <2>. QED BY <2>1, <2>3
<1>11. ASSUME NEW key \in dom, key \in multiples PROVE f[key] = 1 + f[key - step]
  <2>1. PICK e \in set : key = e * step
    BY <1>11
  <2>2. e \in Nat /\ t * step \in Int /\ e * step <= t * step
    <3>1. e \in Nat
      BY <2>1
    <3>2. key <= t * step /\ t * step \in Int
      OBVIOUS
    <3>. QED BY <2>1, <3>1, <3>2
  <2>3. e <= t
    <3>1. t < e => t * step < e * step
      BY <2>2, Multiples
    <3>2. e * step \in Int
      BY <2>2, Multiples
    <3>. QED BY <2>2, <3>1, <3>2
  <2>4. e + 1 \in 1 .. t + 1 /\ e \in 0 .. t + 1 /\ (e + 1) - 1 = e /\ r[e] \in Nat
    BY <1>6, <2>2, <2>3
  <2>5. r[e + 1] = r[e] + 1
    BY <1>7, <2>1, <2>4
  <2>6. f[key] = r[e + 1]
    BY <1>8, <1>9, <1>11, <2>1
  <2>7. key - step = (e - 1) * step /\ e - 1 \in Int
    BY <2>1, <2>2, Multiples
  <2>8. key - step \in dom
    <3>1. 0 <= key /\ key <= t * step /\ key \in Int /\ t * step \in Int
      BY <2>1, <2>2
    <3>. QED BY <3>1
  <2>9. CASE e - 1 \in set
    <3>1. key - step \in multiples /\ place[key - step] = e - 1
      BY <1>8, <2>7, <2>9
    <3>2. f[key - step] = r[(e - 1) + 1]
      BY <1>9, <2>8, <3>1
    <3>3. (e - 1) + 1 = e
      BY <2>2
    <3>. QED BY <2>4, <2>5, <2>6, <3>2, <3>3
  <2>10. CASE e - 1 \notin set
    <3>1. f[key - step] = 0
      BY <1>9, <1>10, <2>7, <2>8, <2>10
    <3>2. r[e] = 0
      <4>1. CASE e = 0
        BY <1>6, <4>1
      <4>2. CASE e # 0
        <5>1. e \in 1 .. t + 1
          BY <2>2, <2>3, <4>2
        <5>. QED BY <1>7, <2>10, <5>1
      <4>. QED BY <4>1, <4>2
    <3>. QED BY <2>5, <2>6, <3>1, <3>2
  <2>. QED BY <2>9, <2>10
<1>12. \A key \in dom : key \notin multiples => f[key] = 0
  BY <1>9
<1>13. DOMAIN f = dom /\ f = [key \in dom |-> f[key]]
  BY <1>9
<1>14. f = [key \in dom |-> IF key \in multiples THEN 1 + f[key - step] ELSE 0]
  <2>. HIDE DEF dom
  <2>. QED BY <1>11, <1>12, <1>13
<1>15. IsRunBefore(f, multiples, t * step, step)
  BY <1>14 DEF IsRunBefore
<1>. QED BY <1>15

\* Each step back adds one to the stretch.
LEMMA RunBeforeIs ==
    ASSUME NEW set, set \subseteq Nat, NEW step \in Nat \ {0}, NEW t \in Nat,
           NEW multiples, multiples = {e * step : e \in set}
    PROVE  \A e \in -1 .. t : EndsAt(set, e, RunBefore(multiples, t * step, step)[e * step])
<1>1. PICK today : today = t * step
  OBVIOUS
<1>2. RunBefore(multiples, today, step) = CHOOSE back : IsRunBefore(back, multiples, today, step)
  BY DEF RunBefore, IsRunBefore
<1>3. PICK back : back = RunBefore(multiples, today, step)
  OBVIOUS
<1>4. IsRunBefore(back, multiples, today, step)
  BY <1>1, <1>2, <1>3, RunBeforeExists
<1>5. \A key \in -2 * step .. today :
        back[key] = IF key \in multiples THEN 1 + back[key - step] ELSE 0
  BY <1>4 DEF IsRunBefore
<1>6. \A e \in -1 .. t : e \in Int /\ e * step \in -2 * step .. today
  <2>. TAKE e \in -1 .. t
  <2>1. e * step \in Int /\ e * step <= t * step /\ -1 * step <= e * step /\ t * step \in Int
    <3>1. -1 \in Int /\ e \in Int /\ -1 <= e /\ e <= t /\ step \in Nat
      OBVIOUS
    <3>2. -1 * step <= e * step
      BY <3>1, Monotone
    <3>3. e * step <= t * step
      BY <3>1, Monotone
    <3>. QED BY <3>1, <3>2, <3>3, Multiples
  <2>2. -1 * step = -step /\ -2 * step <= -step /\ -step \in Int
    OBVIOUS
  <2>. QED BY <1>1, <2>1, <2>2
<1>7. \A e \in Int : e * step \in multiples <=> e \in set
  <2>. SUFFICES ASSUME NEW e \in Int, e * step \in multiples PROVE e \in set
    OBVIOUS
  <2>1. PICK x \in set : x * step = e * step
    OBVIOUS
  <2>2. x \in Int
    BY <2>1
  <2>3. x = e
    BY <2>1, <2>2, Multiples
  <2>. QED BY <2>1, <2>3
<1>8. ASSUME NEW e \in -1 .. t, e \notin set PROVE EndsAt(set, e, back[e * step])
  <2>1. e \in Int /\ e * step \in -2 * step .. today /\ e * step \notin multiples
    BY <1>6, <1>7, <1>8
  <2>2. back[e * step] = 0
    BY <1>5, <2>1
  <2>. QED BY <1>8, <2>1, <2>2, RunContinues
<1>9. ASSUME NEW e \in 0 .. t, e \in set, EndsAt(set, e - 1, back[(e - 1) * step])
      PROVE  EndsAt(set, e, back[e * step])
  <2>1. e \in Int /\ e * step \in -2 * step .. today /\ e * step \in multiples
    BY <1>6, <1>7, <1>9
  <2>2. back[e * step] = 1 + back[e * step - step]
    BY <1>5, <2>1
  <2>3. e * step - step = (e - 1) * step
    BY <2>1, Multiples
  <2>4. PICK length : length = back[(e - 1) * step]
    OBVIOUS
  <2>5. length \in Nat
    BY <1>9, <2>4 DEF EndsAt
  <2>6. back[e * step] = length + 1
    BY <2>2, <2>3, <2>4, <2>5
  <2>7. EndsAt(set, e, length + 1)
    BY <1>9, <2>1, <2>4, RunContinues
  <2>. QED BY <2>6, <2>7
<1>. DEFINE known == {j \in 0 .. t + 1 : EndsAt(set, j - 1, back[(j - 1) * step])}
<1>10. 0 \in known
  <2>1. 0 - 1 \in -1 .. t /\ 0 - 1 \notin set /\ 0 \in 0 .. t + 1
    OBVIOUS
  <2>. QED BY <1>8, <2>1
<1>11. ASSUME NEW j \in 1 .. t + 1, j - 1 \in known PROVE j \in known
  <2>1. PICK e : e = j - 1
    OBVIOUS
  <2>2. e \in 0 .. t /\ e \in -1 .. t /\ j \in 0 .. t + 1
    BY <2>1
  <2>3. EndsAt(set, e - 1, back[(e - 1) * step])
    BY <1>11, <2>1
  <2>4. EndsAt(set, e, back[e * step])
    BY <1>8, <1>9, <2>2, <2>3
  <2>. QED BY <2>1, <2>2, <2>4
<1>12. 0 .. t + 1 \subseteq known
  <2>1. PICK top \in Nat : top = t + 1
    OBVIOUS
  <2>. HIDE DEF known
  <2>2. \A j \in 1 .. top : j - 1 \in known => j \in known
    BY <1>11, <2>1
  <2>3. 0 .. top \subseteq known
    BY <1>10, <2>2, OneByOne
  <2>. QED BY <2>1, <2>3
<1>13. ASSUME NEW e \in -1 .. t PROVE EndsAt(set, e, back[e * step])
  <2>1. PICK j : j = e + 1
    OBVIOUS
  <2>2. j \in 0 .. t + 1 /\ j - 1 = e
    BY <2>1
  <2>3. j \in known
    <3>. HIDE DEF known
    <3>. QED BY <1>12, <2>2
  <2>. QED BY <2>2, <2>3
<1>. QED BY <1>1, <1>3, <1>13

\* The stretches that reach t, or the one before.
EndingBy(set, t) == {s \in Stretches(set) : s[2] \in {t - 1, t}}

\* The current run is the longest stretch that reaches now or the step before.
LEMMA CurrentRunIs ==
    ASSUME NEW set, set \subseteq Nat, NEW step \in Nat \ {0}, NEW t \in Nat,
           NEW multiples, multiples = {e * step : e \in set}
    PROVE  currentRun(multiples, t * step, step) = LongestOf(EndingBy(set, t))
<1>1. PICK reaching : reaching = {s \in Stretches(set) : s[2] \in {t - 1, t}}
  OBVIOUS
<1>2. PICK e : e = IF t \in set THEN t ELSE t - 1
  OBVIOUS
<1>3. e \in -1 .. t /\ e \in Int
  BY <1>2
<1>4. PICK length : length = RunBefore(multiples, t * step, step)[e * step]
  OBVIOUS
<1>5. EndsAt(set, e, length) /\ length \in Nat
  BY <1>3, <1>4, RunBeforeIs DEF EndsAt
<1>6. t * step \in multiples <=> t \in set
  <2>. SUFFICES ASSUME t * step \in multiples PROVE t \in set
    OBVIOUS
  <2>1. PICK x \in set : x * step = t * step
    OBVIOUS
  <2>2. x \in Int /\ t \in Int
    BY <2>1
  <2>3. x = t
    BY <2>1, <2>2, Multiples
  <2>. QED BY <2>1, <2>3
<1>7. (t - 1) * step = t * step - step
  BY Multiples
<1>8. currentRun(multiples, t * step, step) = length
  BY <1>2, <1>4, <1>6, <1>7 DEF currentRun
<1>9. /\ length > 0 => <<e - length + 1, e>> \in Stretches(set) /\ e - (e - length + 1) + 1 = length
      /\ \A s \in Stretches(set) : s[2] = e => s[2] - s[1] + 1 <= length
      /\ length = 0 => e \notin set
  BY <1>3, <1>5, StretchesEnd
<1>10. \A s \in Stretches(set) :
         /\ s[1] \in Nat /\ s[2] \in Nat /\ s[1] \in set /\ s[2] \in set
         /\ s[1] <= s[2] /\ s[1] .. s[2] \subseteq set
  <2>. TAKE s \in Stretches(set)
  <2>1. s \in set \X set /\ s[1] <= s[2] /\ s[1] .. s[2] \subseteq set
    BY DEF Stretches
  <2>2. s[1] \in set /\ s[2] \in set
    BY <2>1
  <2>. QED BY <2>1, <2>2
<1>11. length = 0 \/ \E s \in reaching : s[2] - s[1] + 1 = length
  <2>. SUFFICES ASSUME length # 0 PROVE \E s \in reaching : s[2] - s[1] + 1 = length
    OBVIOUS
  <2>1. PICK s : s = <<e - length + 1, e>>
    OBVIOUS
  <2>2. s \in Stretches(set) /\ s[2] - s[1] + 1 = length /\ s[2] = e
    BY <1>5, <1>9, <2>1
  <2>3. e \in {t - 1, t}
    BY <1>2
  <2>. QED BY <1>1, <2>2, <2>3
<1>12. \A s \in reaching : s[2] - s[1] + 1 <= length
  <2>. TAKE s \in reaching
  <2>1. s \in Stretches(set) /\ s[2] \in {t - 1, t}
    BY <1>1
  <2>2. /\ s[1] \in Nat /\ s[2] \in Nat /\ s[1] \in set /\ s[2] \in set
        /\ s[1] <= s[2] /\ s[1] .. s[2] \subseteq set
    BY <1>10, <2>1
  <2>3. CASE s[2] = e
    BY <1>9, <2>1, <2>3
  <2>4. CASE s[2] # e
    <3>1. t \in set /\ e = t /\ s[2] = t - 1
      BY <1>2, <2>1, <2>2, <2>4
    <3>2. PICK a \in Nat : a = s[1]
      BY <2>2
    <3>3. a \in set /\ t \in set /\ a <= t /\ a .. t \subseteq set
      <4>1. \A k \in a .. t : k = t \/ k \in a .. t - 1
        BY <3>2
      <4>2. a .. t - 1 \subseteq set /\ a <= t - 1
        BY <2>2, <3>1, <3>2
      <4>. QED BY <2>2, <3>1, <3>2, <4>1, <4>2
    <3>4. PICK whole : whole = <<a, t>>
      OBVIOUS
    <3>5. whole \in Stretches(set) /\ whole[1] = a /\ whole[2] = t
      BY <3>3, <3>4 DEF Stretches
    <3>6. t - a + 1 <= length
      BY <1>9, <3>1, <3>5
    <3>. QED BY <1>5, <3>1, <3>2, <3>6
  <2>. QED BY <2>3, <2>4
<1>13. LongestOf(reaching) = length
  <2>1. reaching \subseteq Stretches(set)
    BY <1>1
  <2>. QED BY <1>5, <1>11, <1>12, <2>1, LongestIs
<1>. QED BY <1>1, <1>8, <1>13 DEF EndingBy

\* The weeks the days are in.
WeeksOf(days) == {startOfIsoWeek(day * DayTicks) \div WeekTicks : day \in days}

Starts(days) == {startOfIsoWeek(day * DayTicks) : day \in days}

\* The starts of the weeks are multiples of a week.
LEMMA WeekStartsAre ==
    ASSUME IInv, NEW days, days \subseteq Nat, IsFiniteSet(days)
    PROVE  /\ WeeksOf(days) \subseteq Nat
           /\ Starts(days) = {week * WeekTicks : week \in WeeksOf(days)}
           /\ IsFiniteSet(Starts(days)) /\ Starts(days) \subseteq Nat
<1>1. WeekTicks \in Nat \ {0} /\ DayTicks \in Nat
  BY ConstantsAssumption, WeekStartIs
<1>2. ASSUME NEW day \in days
      PROVE  /\ startOfIsoWeek(day * DayTicks) \in Nat
             /\ startOfIsoWeek(day * DayTicks) \div WeekTicks \in Nat
             /\ (startOfIsoWeek(day * DayTicks) \div WeekTicks) * WeekTicks =
                    startOfIsoWeek(day * DayTicks)
  <2>1. day \in Nat
    OBVIOUS
  <2>2. PICK time : time = day * DayTicks
    OBVIOUS
  <2>3. time \in Nat
    BY <1>1, <2>1, <2>2
  <2>4. PICK w : w = time \div WeekTicks
    OBVIOUS
  <2>5. w \in Nat
    BY <1>1, <2>3, <2>4, Division
  <2>6. startOfIsoWeek(time) = w * WeekTicks
    BY <2>4 DEF startOfIsoWeek
  <2>7. w * WeekTicks \in Nat
    BY <1>1, <2>5
  <2>8. PICK start : start = w * WeekTicks
    OBVIOUS
  <2>9. start \in Nat /\ w * WeekTicks <= start /\ start < w * WeekTicks + WeekTicks
    BY <1>1, <2>7, <2>8
  <2>10. start \div WeekTicks = w
    BY <1>1, <2>5, <2>9, QuotientIs
  <2>. QED BY <2>2, <2>5, <2>6, <2>8, <2>9, <2>10
<1>3. PICK start : start = [day \in days |-> startOfIsoWeek(day * DayTicks)]
  OBVIOUS
<1>4. PICK starts : starts = {startOfIsoWeek(day * DayTicks) : day \in days}
  OBVIOUS
<1>5. starts = {start[day] : day \in days}
  BY <1>3, <1>4
<1>6. start \in Surjection(days, starts)
  BY <1>3, <1>5 DEF Surjection
<1>7. IsFiniteSet(starts)
  BY <1>6, FS_Surjection
<1>8. starts = {week * WeekTicks : week \in WeeksOf(days)}
  BY <1>2, <1>4 DEF WeeksOf
<1>9. starts \subseteq Nat /\ WeeksOf(days) \subseteq Nat
  BY <1>2, <1>4 DEF WeeksOf
<1>10. starts = {startOfIsoWeek(day * DayTicks) : day \in days}
  BY <1>4
<1>. QED BY <1>7, <1>8, <1>9, <1>10 DEF Starts

\* The streaks are the stretches of active days and weeks that a reader of the
\* heatmap sees.
THEOREM StreaksAreStretches == Spec => []StreaksAreRuns
<1>1. ASSUME IInv, VInv PROVE StreaksAreRuns
  <2>1. PICK span \in Nat \ {0} : span = LIFETIME_MAX_DAYS
    BY RangesAssumption
  <2>2. PICK cells, days, n : /\ cells = getHeatmap(span)
                              /\ days = ActiveDays(Contributions(span))
                              /\ n = Cardinality(days)
    OBVIOUS
  <2>3. /\ IsFiniteSet(days) /\ days \subseteq Nat /\ n \in Nat
        /\ Lists(Ascending(days), days)
        /\ DOMAIN cells = 1 .. n
        /\ \A i \in 1 .. n : cells[i].date = Ascending(days)[i]
    BY <1>1, <2>2, HeatmapIs
  <2>4. days \subseteq Int
    BY <2>3
  <2>5. PICK keys : keys = Ascending(days)
    OBVIOUS
  <2>6. Lists(keys, days) /\ \A i, j \in 1 .. Cardinality(days) : i < j => keys[i] < keys[j]
    BY <2>3, <2>4, <2>5, AscendingIs
  <2>7. [i \in DOMAIN cells |-> cells[i].date] = keys
    <3>1. keys \in [1 .. n -> days]
      BY <2>2, <2>6 DEF Lists
    <3>. QED BY <2>3, <2>5, <3>1
  <2>8. Range(keys) = days
    BY <2>6, RangeOfList
  <2>9. {cells[i].date : i \in DOMAIN cells} = days
    <3>1. \A i \in 1 .. n : keys[i] \in days
      BY <2>2, <2>6 DEF Lists
    <3>2. \A x \in days : \E i \in 1 .. n : keys[i] = x
      BY <2>2, <2>6 DEF Lists
    <3>3. \A i \in 1 .. n : cells[i].date = keys[i]
      BY <2>3, <2>5
    <3>4. {cells[i].date : i \in DOMAIN cells} = {keys[i] : i \in 1 .. n}
      BY <2>3, <3>3
    <3>5. {keys[i] : i \in 1 .. n} = days
      BY <3>1, <3>2
    <3>. QED BY <3>4, <3>5
  <2>10. PICK one \in Nat \ {0} : one = 1
    OBVIOUS
  <2>11. days = {e * one : e \in days}
    <3>1. \A e \in days : e * one = e
      BY <2>3, <2>10
    <3>. QED BY <3>1
  <2>12. longestRun(keys, one) = LongestOf(Stretches(days))
    BY <2>3, <2>4, <2>6, <2>11, LongestRunIs
  <2>13. PICK today \in Nat : today = dayKey
    BY <1>1, DayIs
  <2>14. currentRun(days, today, one) =
            LongestOf(EndingBy(days, today))
    <3>1. currentRun(days, today * one, one) =
            LongestOf(EndingBy(days, today))
      BY <2>3, <2>11, CurrentRunIs
    <3>2. today * one = today
      BY <2>10
    <3>. QED BY <3>1, <3>2
  <2>15. PICK weeks, starts, ticks : /\ weeks = WeeksOf(days) /\ ticks = WeekTicks
                                     /\ starts = Starts(days)
    OBVIOUS
  <2>16. /\ weeks \subseteq Nat /\ starts = {week * ticks : week \in weeks}
         /\ IsFiniteSet(starts) /\ starts \subseteq Nat
    <3>1. /\ WeeksOf(days) \subseteq Nat /\ IsFiniteSet(Starts(days)) /\ Starts(days) \subseteq Nat
          /\ Starts(days) = {week * WeekTicks : week \in WeeksOf(days)}
      BY <1>1, <2>3, WeekStartsAre
    <3>2. {week * WeekTicks : week \in WeeksOf(days)} = {week * ticks : week \in weeks}
      BY <2>15
    <3>. QED BY <2>15, <3>1, <3>2
  <2>17. starts \subseteq Int /\ ticks \in Nat \ {0}
    BY <1>1, <2>15, <2>16, WeekStartIs
  <2>18. PICK order : order = Ascending(starts)
    OBVIOUS
  <2>19. Lists(order, starts) /\ \A i, j \in 1 .. Cardinality(starts) : i < j => order[i] < order[j]
    BY <2>16, <2>17, <2>18, AscendingIs
  <2>20. longestRun(order, ticks) = LongestOf(Stretches(weeks))
    BY <2>16, <2>17, <2>19, LongestRunIs
  <2>21. PICK week : week = now \div ticks
    OBVIOUS
  <2>22. week \in Nat /\ startOfIsoWeek(now) = week * ticks
    <3>1. now \in Nat
      BY <1>1, ConstantsAssumption DEF IInv, TypeOK, Times
    <3>2. week \in Nat
      BY <2>17, <2>21, <3>1, Division
    <3>. QED BY <2>15, <2>21, <3>2 DEF startOfIsoWeek
  <2>23. currentRun(starts, week * ticks, ticks) =
            LongestOf(EndingBy(weeks, week))
    BY <2>16, <2>17, <2>22, CurrentRunIs
  <2>24. PICK streaks : streaks = getStreaks
    OBVIOUS
  <2>25. /\ streaks.longestDailyStreak = longestRun(keys, one)
         /\ streaks.longestWeeklyStreak = longestRun(order, ticks)
         /\ streaks.currentDailyStreak = currentRun(days, today, one)
         /\ streaks.currentWeeklyStreak = currentRun(starts, startOfIsoWeek(now), ticks)
    BY <2>1, <2>2, <2>7, <2>8, <2>10, <2>13, <2>15, <2>18, <2>24 DEF getStreaks, Starts
  <2>26. weeks = {startOfIsoWeek(day * DayTicks) \div ticks : day \in days}
    BY <2>15 DEF WeeksOf
  <2>27. /\ streaks.longestDailyStreak = LongestOf(Stretches(days))
         /\ streaks.longestWeeklyStreak = LongestOf(Stretches(weeks))
         /\ streaks.currentDailyStreak =
                LongestOf({s \in Stretches(days) : s[2] \in {dayKey - 1, dayKey}})
         /\ streaks.currentWeeklyStreak =
                LongestOf({s \in Stretches(weeks) :
                              s[2] \in {now \div WeekTicks - 1, now \div WeekTicks}})
    <3>1. streaks.currentDailyStreak =
              LongestOf({s \in Stretches(days) : s[2] \in {dayKey - 1, dayKey}})
      BY <2>13, <2>14, <2>25 DEF EndingBy
    <3>2. streaks.currentWeeklyStreak =
              LongestOf({s \in Stretches(weeks) :
                            s[2] \in {now \div WeekTicks - 1, now \div WeekTicks}})
      BY <2>15, <2>21, <2>22, <2>23, <2>25 DEF EndingBy
    <3>. QED BY <2>12, <2>20, <2>25, <3>1, <3>2
  <2>. DEFINE onMap ==
                 {getHeatmap(LIFETIME_MAX_DAYS)[i].date :
                    i \in DOMAIN getHeatmap(LIFETIME_MAX_DAYS)}
              inWeeks == {startOfIsoWeek(day * DayTicks) \div WeekTicks : day \in onMap}
  <2>28. onMap = days
    BY <2>1, <2>2, <2>9
  <2>. HIDE DEF onMap
  <2>29. inWeeks = weeks
    BY <2>15, <2>26, <2>28
  <2>. HIDE DEF inWeeks
  <2>30. /\ getStreaks.longestDailyStreak = LongestOf(Stretches(onMap))
         /\ getStreaks.longestWeeklyStreak = LongestOf(Stretches(inWeeks))
         /\ getStreaks.currentDailyStreak =
                LongestOf({s \in Stretches(onMap) : s[2] \in {dayKey - 1, dayKey}})
         /\ getStreaks.currentWeeklyStreak =
                LongestOf({s \in Stretches(inWeeks) :
                              s[2] \in {now \div WeekTicks - 1, now \div WeekTicks}})
    BY <2>24, <2>27, <2>28, <2>29
  <2>. QED BY <2>30 DEF StreaksAreRuns, onMap, inWeeks
<1>. QED BY <1>1, ViewsInvariant, PTL

-----------------------------------------------------------------------------
(* Pages.                                                                   *)

Row == [id : Int, doc : Document]

\* The rows are those of the list after the first `start', up to `end'.
AreRows(rows, list, start, end, field) ==
    /\ rows \in Seq(Row) /\ Len(rows) = IF start < end THEN end - start ELSE 0
    /\ \A i \in 1 .. Len(rows) :
          rows[i].id = list[start + i] /\ rows[i].doc[field] = docs[list[start + i]][field]

LEMMA NoRows ==
    ASSUME NEW list, NEW field
    PROVE  AreRows(<<>>, list, 0, 0, field)
  BY DEF AreRows

\* Pages that follow each other make one longer part of the list.
LEMMA JoinRows ==
    ASSUME NEW list, NEW field, NEW start \in Nat, NEW end \in Nat, start <= end,
           NEW a, AreRows(a, list, 0, start, field), NEW b, AreRows(b, list, start, end, field)
    PROVE  AreRows(a \o b, list, 0, end, field)
<1>1. /\ a \in Seq(Row) /\ Len(a) = start
      /\ \A i \in 1 .. start : a[i].id = list[i] /\ a[i].doc[field] = docs[list[i]][field]
  <2>1. \A i \in Int : 0 + i = i
    OBVIOUS
  <2>2. Len(a) = start
    BY DEF AreRows
  <2>. QED BY <2>1, <2>2 DEF AreRows
<1>2. /\ b \in Seq(Row) /\ Len(b) = end - start
      /\ \A i \in 1 .. end - start :
            b[i].id = list[start + i] /\ b[i].doc[field] = docs[list[start + i]][field]
  <2>1. Len(b) = end - start
    BY DEF AreRows
  <2>. QED BY <2>1 DEF AreRows
<1>3. PICK rows : rows = a \o b
  OBVIOUS
<1>4. /\ rows \in Seq(Row) /\ Len(rows) = end
      /\ \A i \in 1 .. end : rows[i] = IF i <= start THEN a[i] ELSE b[i - start]
  <2>1. a \in Seq(Row) /\ b \in Seq(Row) /\ Len(a) = start /\ Len(b) = end - start
    BY <1>1, <1>2
  <2>2. PICK S : S = Row
    OBVIOUS
  <2>3. rows \in Seq(S) /\ Len(rows) = end
    <3>1. a \in Seq(S) /\ b \in Seq(S)
      BY <2>1, <2>2
    <3>2. a \o b \in Seq(S)
      BY <3>1
    <3>3. Len(a \o b) = Len(a) + Len(b)
      BY <3>1
    <3>4. start + (end - start) = end
      OBVIOUS
    <3>. QED BY <1>3, <2>1, <3>2, <3>3, <3>4
  <2>4. \A i \in 1 .. end : rows[i] = IF i <= start THEN a[i] ELSE b[i - start]
    BY <1>3, <2>1
  <2>. QED BY <2>2, <2>3, <2>4
<1>5. ASSUME NEW i \in 1 .. end
      PROVE  rows[i].id = list[i] /\ rows[i].doc[field] = docs[list[i]][field]
  <2>1. CASE i <= start
    BY <1>1, <1>4, <2>1
  <2>2. CASE ~(i <= start)
    <3>1. PICK j \in 1 .. end - start : j = i - start
      BY <2>2
    <3>2. start + j = i /\ rows[i] = b[j]
      BY <1>4, <2>2, <3>1
    <3>. QED BY <1>2, <3>2
  <2>. QED BY <2>1, <2>2
<1>6. AreRows(rows, list, 0, end, field)
  <2>1. \A i \in 1 .. end : 0 + i = i
    OBVIOUS
  <2>2. Len(rows) = IF 0 < end THEN end - 0 ELSE 0
    BY <1>4
  <2>. QED BY <1>4, <1>5, <2>1, <2>2 DEF AreRows
<1>. QED BY <1>3, <1>6

\* The page is cut out of the list at its place, and knows how many there are.
IsPage(result, list, page, limit, field) ==
    /\ AreRows(result.items, list, (page - 1) * limit,
               LastOf(list, (page - 1) * limit + limit), field)
    /\ result.totalPages = (Len(list) + limit - 1) \div limit
    /\ result.hasNext <=> page < result.totalPages

\* Page cuts out the page it is asked for.
LEMMA PageIs ==
    ASSUME IInv, NEW ids, ids \subseteq DOMAIN docs, NEW list, Lists(list, ids),
           NEW page \in Nat \ {0}, NEW limit \in Nat \ {0}, NEW field
    PROVE  IsPage(Page(docs, list, page, limit), list, page, limit, field)
<1>1. PICK start : start = (page - 1) * limit
  OBVIOUS
<1>2. start \in Nat /\ start + limit \in Nat
  <2>1. page - 1 \in Nat /\ limit \in Nat
    OBVIOUS
  <2>. QED BY <1>1, <2>1, Products
<1>3. ids \subseteq Int
  BY IdsFinite
<1>4. list \in Seq(ids)
  BY DEF Lists
<1>5. PICK end : end = start + limit
  OBVIOUS
<1>6. PICK part : part = slice(list, start, end)
  OBVIOUS
<1>7. IsPart(part, list, start, LastOf(list, end), ids)
  BY <1>2, <1>4, <1>5, <1>6, SliceIs
<1>8. PICK rows : rows = Items(docs, part)
  OBVIOUS
<1>9. /\ part \in Seq(ids)
      /\ Len(part) = IF start < LastOf(list, end) THEN LastOf(list, end) - start ELSE 0
      /\ \A i \in 1 .. Len(part) : part[i] = list[start + i]
  BY <1>7 DEF IsPart
<1>10. PICK n \in Nat : n = Len(part)
  BY <1>9
<1>11. rows = [i \in 1 .. n |-> [id |-> part[i], doc |-> docs[part[i]]]]
  BY <1>8, <1>9, <1>10 DEF Items
<1>12. \A i \in 1 .. n : part[i] \in ids /\ part[i] \in Int /\ docs[part[i]] \in Document
  <2>1. \A i \in 1 .. n : part[i] \in ids
    BY <1>9, <1>10
  <2>2. \A id \in ids : id \in Int /\ docs[id] \in Document
    BY <1>3, DocumentAt DEF IInv
  <2>. QED BY <2>1, <2>2
<1>13. \A i \in 1 .. n : [id |-> part[i], doc |-> docs[part[i]]] \in Row
  BY <1>12 DEF Row
<1>14. rows \in Seq(Row) /\ Len(rows) = n
  BY <1>11, <1>13
<1>15. \A i \in 1 .. n :
         rows[i].id = list[start + i] /\ rows[i].doc[field] = docs[list[start + i]][field]
  BY <1>9, <1>10, <1>11
<1>16. AreRows(rows, list, start, LastOf(list, end), field)
  BY <1>9, <1>10, <1>14, <1>15 DEF AreRows
<1>17. /\ Page(docs, list, page, limit).items = rows
       /\ Page(docs, list, page, limit).totalPages = (Len(list) + limit - 1) \div limit
       /\ Page(docs, list, page, limit).hasNext = (page < (Len(list) + limit - 1) \div limit)
  BY <1>1, <1>5, <1>6, <1>8 DEF Page, buildPaginatedResult
<1>. QED BY <1>1, <1>5, <1>16, <1>17 DEF IsPage

\* There are as many pages as it takes, and none without need.
LEMMA PagesNeeded ==
    ASSUME NEW n \in Nat, NEW limit \in Nat \ {0}
    PROVE  LET last == (n + limit - 1) \div limit IN
           /\ last \in 0 .. n /\ last * limit \in Nat /\ n <= last * limit
           /\ \A j \in 1 .. last : (j - 1) * limit \in Nat /\ (j - 1) * limit < n
<1>1. PICK a \in Nat : a = n + limit - 1
  OBVIOUS
<1>2. PICK last : last = a \div limit
  OBVIOUS
<1>3. last \in Nat /\ last * limit <= a /\ a < last * limit + limit /\ last * limit \in Nat
  BY <1>2, Division
<1>4. n <= last * limit /\ last * limit - limit < n
  BY <1>1, <1>3
<1>5. ASSUME NEW j \in 1 .. last PROVE (j - 1) * limit \in Nat /\ (j - 1) * limit < n
  <2>1. j - 1 \in Int /\ last - 1 \in Int /\ j - 1 <= last - 1 /\ limit \in Nat /\ j - 1 \in Nat
    BY <1>3
  <2>2. (j - 1) * limit <= (last - 1) * limit
    BY <2>1, Monotone
  <2>3. (last - 1) * limit = last * limit - limit
    BY <1>3, Multiples
  <2>4. (j - 1) * limit \in Nat
    BY <2>1, Products
  <2>. QED BY <1>3, <1>4, <2>2, <2>3, <2>4
<1>6. last <= n
  <2>. SUFFICES ASSUME last # 0 PROVE last <= n
    OBVIOUS
  <2>1. last \in 1 .. last
    BY <1>3
  <2>2. PICK k \in Nat : k = last - 1
    BY <1>3, <2>1
  <2>3. k * limit < n /\ k * limit \in Nat
    BY <1>5, <2>1, <2>2
  <2>4. k <= k * limit
    <3>1. PICK m \in Nat : limit = m + 1
      <4>1. limit - 1 \in Nat /\ limit = (limit - 1) + 1
        OBVIOUS
      <4>. QED BY <4>1
    <3>2. k * limit = k * m + k /\ k * m \in Nat
      BY <3>1
    <3>. QED BY <3>2
  <2>. QED BY <1>3, <2>2, <2>3, <2>4
<1>. QED BY <1>1, <1>2, <1>3, <1>4, <1>5, <1>6

\* The recursion over the pages has a solution.
LEMMA ShownIs ==
    ASSUME NEW last \in Nat, NEW pages, \A j \in 1 .. last : pages[j].items \in Seq(Row)
    PROVE  /\ Shown(pages, last)[0] = <<>>
           /\ \A j \in 1 .. last :
                 Shown(pages, last)[j] = Shown(pages, last)[j - 1] \o pages[j].items
<1>. DEFINE IsShown(f) ==
        f = [j \in 0 .. last |-> IF j = 0 THEN <<>> ELSE f[j - 1] \o pages[j].items]
     next == [j \in 1 .. last |-> [v \in Seq(Row) |-> v \o pages[j].items]]
<1>1. \A j \in 1 .. last : \A v \in Seq(Row) :
        next[j][v] = v \o pages[j].items /\ next[j][v] \in Seq(Row)
  OBVIOUS
<1>. HIDE DEF next
<1>2. PICK lists, none : lists = Seq(Row) /\ none = <<>>
  OBVIOUS
<1>3. none \in lists /\ \A j \in 1 .. last : \A v \in lists : next[j][v] \in lists
  BY <1>1, <1>2
<1>4. PICK f : Solves(f, last, lists, none, next)
  BY <1>3, RecursionExists
<1>5. f \in [0 .. last -> Seq(Row)] /\ f[0] = <<>> /\ \A j \in 1 .. last : f[j] = next[j][f[j - 1]]
  BY <1>2, <1>4 DEF Solves
<1>6. \A j \in 1 .. last : f[j] = f[j - 1] \o pages[j].items
  <2>. TAKE j \in 1 .. last
  <2>1. j - 1 \in 0 .. last
    OBVIOUS
  <2>2. f[j - 1] \in Seq(Row)
    BY <1>5, <2>1
  <2>. QED BY <1>1, <1>5, <2>2
<1>7. \A j \in 0 .. last : j = 0 \/ j \in 1 .. last
  OBVIOUS
<1>8. IsShown(f)
  BY <1>5, <1>6, <1>7
<1>9. Shown(pages, last) = CHOOSE g : IsShown(g)
  BY DEF Shown
<1>. HIDE DEF IsShown
<1>10. IsShown(Shown(pages, last))
  BY <1>8, <1>9
<1>11. PICK shown : shown = Shown(pages, last)
  OBVIOUS
<1>12. shown = [j \in 0 .. last |-> IF j = 0 THEN <<>> ELSE shown[j - 1] \o pages[j].items]
  BY <1>10, <1>11 DEF IsShown
<1>13. 0 \in 0 .. last /\ \A j \in 1 .. last : j \in 0 .. last /\ j # 0
  OBVIOUS
<1>14. shown[0] = <<>> /\ \A j \in 1 .. last : shown[j] = shown[j - 1] \o pages[j].items
  BY <1>12, <1>13
<1>. QED BY <1>11, <1>14

Descends(list, ids, field) ==
    \A i, j \in 1 .. Cardinality(ids) :
        i < j => /\ docs[list[i]][field] \in Int /\ docs[list[j]][field] \in Int
                 /\ docs[list[i]][field] >= docs[list[j]][field]

\* Turning the pages of a list shows all of it.
LEMMA PagesTurn ==
    ASSUME IInv, NEW ids, ids \subseteq DOMAIN docs, NEW list, Lists(list, ids), NEW field,
           Descends(list, ids, field), NEW limit \in Nat \ {0}, NEW pages,
           DOMAIN pages = 1 .. MaxDocs + 1,
           \A page \in 1 .. MaxDocs + 1 : IsPage(pages[page], list, page, limit, field)
    PROVE  Covers(pages, ids, field)
<1>1. PICK n : n = Cardinality(ids)
  OBVIOUS
<1>2. /\ n \in Nat /\ Len(list) = n /\ \A i \in 1 .. n : list[i] \in ids
      /\ \A x \in ids : \E i \in 1 .. n : list[i] = x
  BY <1>1 DEF Lists
<1>3. n <= MaxDocs /\ MaxDocs \in Nat
  <2>1. MaxDocs \in Nat /\ Len(docs) \in Nat /\ Len(docs) <= MaxDocs /\ DOMAIN docs = 1 .. Len(docs)
    BY ConstantsAssumption DEF IInv, TypeOK
  <2>2. PICK s : s = DOMAIN docs
    OBVIOUS
  <2>3. PICK m \in Nat : m = Len(docs)
    BY <2>1
  <2>4. IsFiniteSet(1 .. m) /\ Cardinality(1 .. m) = m
    <3>1. PICK k \in Int : k = 1
      OBVIOUS
    <3>2. IsFiniteSet(k .. m) /\ Cardinality(k .. m) = (IF k > m THEN 0 ELSE m - k + 1)
      BY FS_Interval
    <3>. QED BY <3>1, <3>2
  <2>5. IsFiniteSet(s) /\ Cardinality(s) = m /\ ids \in SUBSET s
    BY <2>1, <2>2, <2>3, <2>4
  <2>6. Cardinality(ids) <= Cardinality(s)
    BY <2>5, FS_Subset
  <2>. QED BY <1>1, <1>2, <2>1, <2>3, <2>5, <2>6
<1>4. PICK last : last = (n + limit - 1) \div limit
  OBVIOUS
<1>5. /\ last \in 0 .. n /\ last * limit \in Nat /\ n <= last * limit
      /\ \A j \in 1 .. last : (j - 1) * limit \in Nat /\ (j - 1) * limit < n
  BY <1>2, <1>4, PagesNeeded
<1>6. last \in Nat /\ last + 1 \in 1 .. MaxDocs + 1 /\ 1 \in 1 .. MaxDocs + 1
      /\ \A j \in 1 .. last : j \in 1 .. MaxDocs + 1
  BY <1>2, <1>3, <1>5
<1>7. \A page \in 1 .. MaxDocs + 1 :
        /\ AreRows(pages[page].items, list, (page - 1) * limit,
                   LastOf(list, (page - 1) * limit + limit), field)
        /\ pages[page].totalPages = last
        /\ pages[page].hasNext <=> page < last
  BY <1>2, <1>4 DEF IsPage
<1>8. PICK shown : shown = Shown(pages, last)
  OBVIOUS
<1>9. shown[0] = <<>> /\ \A j \in 1 .. last : shown[j] = shown[j - 1] \o pages[j].items
  <2>1. \A j \in 1 .. last : pages[j].items \in Seq(Row)
    BY <1>6, <1>7 DEF AreRows
  <2>. QED BY <1>6, <1>8, <2>1, ShownIs
<1>. DEFINE known == {j \in 0 .. last : AreRows(shown[j], list, 0, LastOf(list, j * limit), field)}
<1>10. 0 \in known
  <2>1. 0 * limit = 0 /\ LastOf(list, 0 * limit) = 0 /\ 0 \in 0 .. last
    BY <1>2, <1>6 DEF LastOf
  <2>. QED BY <1>9, <2>1, NoRows
<1>11. ASSUME NEW j \in 1 .. last, j - 1 \in known PROVE j \in known
  <2>1. PICK start \in Nat : start = (j - 1) * limit
    BY <1>5
  <2>2. start < n /\ j * limit = start + limit
    <3>1. j \in Int /\ limit \in Nat \ {0}
      BY <1>6
    <3>2. (j - 1) * limit = j * limit - limit /\ j * limit \in Int
      BY <3>1, Multiples
    <3>. QED BY <1>5, <2>1, <3>2
  <2>3. LastOf(list, start) = start
    BY <1>2, <2>1, <2>2 DEF LastOf
  <2>4. PICK end : end = LastOf(list, start + limit)
    OBVIOUS
  <2>5. end \in Nat /\ start <= end
    BY <1>2, <2>1, <2>2, <2>4 DEF LastOf
  <2>6. PICK a, b : a = shown[j - 1] /\ b = pages[j].items
    OBVIOUS
  <2>7. AreRows(a, list, 0, start, field)
    BY <1>11, <2>1, <2>3, <2>6
  <2>8. AreRows(b, list, start, end, field)
    BY <1>6, <1>7, <2>1, <2>4, <2>6
  <2>9. AreRows(a \o b, list, 0, end, field)
    BY <2>1, <2>5, <2>7, <2>8, JoinRows
  <2>10. shown[j] = a \o b
    BY <1>9, <2>6
  <2>11. j \in 0 .. last /\ LastOf(list, j * limit) = end
    BY <1>6, <2>2, <2>4
  <2>. QED BY <2>9, <2>10, <2>11
<1>12. last \in known
  <2>. HIDE DEF known
  <2>1. 0 .. last \subseteq known
    BY <1>6, <1>10, <1>11, OneByOne
  <2>. QED BY <1>6, <2>1
<1>13. PICK all : all = shown[last]
  OBVIOUS
<1>14. /\ Len(all) = n /\ DOMAIN all = 1 .. n
       /\ \A i \in 1 .. n : all[i].id = list[i] /\ all[i].doc[field] = docs[list[i]][field]
  <2>1. AreRows(all, list, 0, LastOf(list, last * limit), field)
    BY <1>12, <1>13
  <2>2. LastOf(list, last * limit) = n
    BY <1>2, <1>5 DEF LastOf
  <2>3. all \in Seq(Row) /\ Len(all) = n
    BY <1>2, <2>1, <2>2 DEF AreRows
  <2>4. \A i \in 1 .. n : 0 + i = i
    OBVIOUS
  <2>. QED BY <2>1, <2>3, <2>4 DEF AreRows
<1>15. {all[i].id : i \in DOMAIN all} = ids
  <2>1. {all[i].id : i \in DOMAIN all} = {list[i] : i \in 1 .. n}
    BY <1>14
  <2>2. {list[i] : i \in 1 .. n} = ids
    BY <1>2
  <2>. QED BY <2>1, <2>2
<1>16. \A i \in 1 .. Len(all) - 1 : all[i].doc[field] >= all[i + 1].doc[field]
  <2>. TAKE i \in 1 .. Len(all) - 1
  <2>1. i \in 1 .. n /\ i + 1 \in 1 .. n /\ i < i + 1
    BY <1>2, <1>14
  <2>2. PICK k : k = i + 1
    OBVIOUS
  <2>3. docs[list[i]][field] >= docs[list[k]][field]
    BY <1>1, <2>1, <2>2 DEF Descends
  <2>. QED BY <1>14, <2>1, <2>2, <2>3
<1>17. pages[last + 1].items = <<>>
  <2>1. PICK start \in Nat : start = last * limit
    BY <1>5
  <2>2. ((last + 1) - 1) * limit = start
    BY <1>6, <2>1
  <2>3. AreRows(pages[last + 1].items, list, start, LastOf(list, start + limit), field)
    BY <1>6, <1>7, <2>2
  <2>4. ~(start < LastOf(list, start + limit))
    BY <1>2, <1>5, <2>1 DEF LastOf
  <2>5. pages[last + 1].items \in Seq(Row) /\ Len(pages[last + 1].items) = 0
    BY <2>3, <2>4 DEF AreRows
  <2>. QED BY <2>5
<1>18. pages[1].totalPages = last /\ \A page \in DOMAIN pages : pages[page].hasNext <=> page < last
  BY <1>6, <1>7
<1>. QED BY <1>1, <1>8, <1>13, <1>14, <1>15, <1>16, <1>17, <1>18 DEF Covers

\* A list by a time, newest first.
LEMMA NewestFirst ==
    ASSUME IInv, NEW ids, ids \subseteq DOMAIN docs, NEW field,
           \A id \in ids : docs[id][field] \in Nat
    PROVE  /\ Lists(sortInMemory(docs, ids, field, "desc"), ids)
           /\ Descends(sortInMemory(docs, ids, field, "desc"), ids, field)
<1>1. IsFiniteSet(ids) /\ ids \subseteq Int /\ \A id \in ids : docs[id][field] \in Int
  BY IdsFinite
<1>2. PICK list : list = sortInMemory(docs, ids, field, "desc")
  OBVIOUS
<1>3. PICK direction : direction = "desc"
  OBVIOUS
<1>4. /\ Lists(list, ids)
      /\ \A i, j \in 1 .. Cardinality(ids) :
            i < j => \/ Precedes(docs[list[i]][field], docs[list[j]][field], direction)
                     \/ /\ ~Precedes(docs[list[j]][field], docs[list[i]][field], direction)
                        /\ list[i] < list[j]
  <2>1. list = sortInMemory(docs, ids, field, direction)
    BY <1>2, <1>3
  <2>. QED BY <1>1, <2>1, SortedIs
<1>5. ASSUME NEW i \in 1 .. Cardinality(ids), NEW j \in 1 .. Cardinality(ids), i < j
      PROVE  /\ docs[list[i]][field] \in Int /\ docs[list[j]][field] \in Int
             /\ docs[list[i]][field] >= docs[list[j]][field]
  <2>1. list[i] \in ids /\ list[j] \in ids
    BY <1>4 DEF Lists
  <2>2. PICK a \in Nat, b \in Nat : a = docs[list[i]][field] /\ b = docs[list[j]][field]
    BY <2>1
  <2>3. Precedes(a, b, direction) \/ ~Precedes(b, a, direction)
    BY <1>4, <1>5, <2>2
  <2>4. a >= b
    BY <1>3, <2>3 DEF Precedes, Absent
  <2>. QED BY <2>2, <2>4
<1>. QED BY <1>2, <1>4, <1>5 DEF Descends

\* Pages cut out of a list that is sorted by the field cover what was sorted.
LEMMA ListIsCovered ==
    ASSUME IInv, NEW ids, ids \subseteq DOMAIN docs, NEW field,
           \A id \in ids : docs[id][field] \in Nat, NEW limit \in Nat \ {0},
           NEW pages, DOMAIN pages = 1 .. MaxDocs + 1,
           \A page \in 1 .. MaxDocs + 1 :
               pages[page] = Page(docs, sortInMemory(docs, ids, field, "desc"), page, limit)
    PROVE  Covers(pages, ids, field)
<1>1. PICK list : list = sortInMemory(docs, ids, field, "desc")
  OBVIOUS
<1>2. Lists(list, ids) /\ Descends(list, ids, field)
  BY <1>1, NewestFirst
<1>3. \A page \in 1 .. MaxDocs + 1 : IsPage(pages[page], list, page, limit, field)
  <2>. TAKE page \in 1 .. MaxDocs + 1
  <2>1. page \in Nat \ {0}
    BY ConstantsAssumption
  <2>2. IsPage(Page(docs, list, page, limit), list, page, limit, field)
    BY <1>2, <2>1, PageIs
  <2>. QED BY <1>1, <2>2
<1>. QED BY <1>2, <1>3, PagesTurn

Span(from, to) == {Filter("at", ">=", from), Filter("at", "<=", to)}
Between(ids, from, to) == {id \in ids : docs[id].at \in from .. to}

\* The two filters of a range of times.
LEMMA FiltersAre ==
    ASSUME IInv, NEW ids, ids \subseteq DOMAIN docs, NEW from \in Nat, NEW to \in Nat
    PROVE  applyFilters(docs, ids, Span(from, to)) = Between(ids, from, to)
<1>1. PICK a, b : a = Filter("at", ">=", from) /\ b = Filter("at", "<=", to)
  OBVIOUS
<1>2. /\ a.field = "at" /\ a.op = ">=" /\ a.value = from
      /\ b.field = "at" /\ b.op = "<=" /\ b.value = to
  BY <1>1 DEF Filter
<1>3. ASSUME NEW id \in ids
      PROVE  (\A f \in {a, b} : matchesFilter(docs[id][f.field], f.op, f.value)) <=>
                 docs[id].at \in from .. to
  <2>1. PICK at : at = docs[id].at
    OBVIOUS
  <2>2. at \in Nat \union {Absent}
    BY <2>1, FieldsAre
  <2>3. matchesFilter(at, ">=", from) /\ matchesFilter(at, "<=", to) <=> at \in from .. to
    BY <2>2 DEF matchesFilter, Absent
  <2>4. (\A f \in {a, b} : matchesFilter(docs[id][f.field], f.op, f.value)) <=>
            matchesFilter(at, ">=", from) /\ matchesFilter(at, "<=", to)
    BY <1>2, <2>1
  <2>. QED BY <2>1, <2>3, <2>4
<1>4. applyFilters(docs, ids, {a, b}) = {id \in ids : docs[id].at \in from .. to}
  BY <1>3 DEF applyFilters
<1>. QED BY <1>1, <1>4 DEF Span, Between

Having(ids, field, value) == {id \in ids : docs[id][field] = value}

\* The filter on a value.
LEMMA EqualIs ==
    ASSUME NEW ids, NEW field, NEW value
    PROVE  applyFilters(docs, ids, {Filter(field, "==", value)}) = Having(ids, field, value)
<1>1. PICK f : f = Filter(field, "==", value)
  OBVIOUS
<1>2. f.field = field /\ f.op = "==" /\ f.value = value
  BY <1>1 DEF Filter
<1>3. \A v : matchesFilter(v, "==", value) <=> v = value
  BY DEF matchesFilter
<1>4. applyFilters(docs, ids, {f}) = {id \in ids : docs[id][field] = value}
  BY <1>2, <1>3 DEF applyFilters
<1>. QED BY <1>1, <1>4 DEF Having

\* The list of study sessions.
LEMMA SessionsAreCovered ==
    ASSUME IInv, NEW from \in Nat, NEW to \in Nat, NEW limit \in Nat \ {0}
    PROVE  Covers([page \in 1 .. MaxDocs + 1 |-> SessionList(from, to, page, limit)],
                  {id \in In("study_sessions") : docs[id].at \in from .. to}, "at")
<1>1. PICK pages, ids, all :
        /\ pages = [page \in 1 .. MaxDocs + 1 |-> SessionList(from, to, page, limit)]
        /\ ids = {id \in In("study_sessions") : docs[id].at \in from .. to}
        /\ all = In("study_sessions")
  OBVIOUS
<1>2. all \subseteq DOMAIN docs
  BY <1>1 DEF In
<1>3. ids = applyFilters(docs, all, {Filter("at", ">=", from), Filter("at", "<=", to)})
  <2>1. applyFilters(docs, all, Span(from, to)) = Between(all, from, to)
    BY <1>2, FiltersAre
  <2>. QED BY <1>1, <2>1 DEF Span, Between
<1>4. PICK field : field = "at"
  OBVIOUS
<1>5. ids \subseteq DOMAIN docs /\ \A id \in ids : docs[id][field] \in Nat
  BY <1>1, <1>2, <1>4
<1>6. DOMAIN pages = 1 .. MaxDocs + 1
  BY <1>1
<1>7. \A page \in 1 .. MaxDocs + 1 :
        pages[page] = Page(docs, sortInMemory(docs, ids, field, "desc"), page, limit)
  BY <1>1, <1>3, <1>4 DEF SessionList, paginateForUser, listForUser
<1>8. Covers(pages, ids, field)
  BY <1>5, <1>6, <1>7, ListIsCovered
<1>. QED BY <1>1, <1>4, <1>8

\* The list of reflections, searched or not.
LEMMA ReflectionsAreCovered ==
    ASSUME IInv, NEW from \in Nat, NEW to \in Nat, NEW limit \in Nat \ {0},
           NEW search, search \subseteq In("reflections")
    PROVE  Covers([page \in 1 .. MaxDocs + 1 |-> ReflectionList(from, to, search, page, limit)],
                  {id \in search : docs[id].at \in from .. to}, "at")
<1>1. PICK pages, ids, all :
        /\ pages = [page \in 1 .. MaxDocs + 1 |-> ReflectionList(from, to, search, page, limit)]
        /\ ids = {id \in search : docs[id].at \in from .. to}
        /\ all = In("reflections")
  OBVIOUS
<1>2. all \subseteq DOMAIN docs
  BY <1>1 DEF In
<1>3. PICK matched :
        matched = applyFilters(docs, all, {Filter("at", ">=", from), Filter("at", "<=", to)})
  OBVIOUS
<1>4. matched = {id \in all : docs[id].at \in from .. to}
  <2>1. applyFilters(docs, all, Span(from, to)) = Between(all, from, to)
    BY <1>2, FiltersAre
  <2>. QED BY <1>3, <2>1 DEF Span, Between
<1>5. ids = matched \intersect search /\ (search = all => ids = matched)
  BY <1>1, <1>4
<1>6. PICK field : field = "at"
  OBVIOUS
<1>7. ids \subseteq DOMAIN docs /\ \A id \in ids : docs[id][field] \in Nat
  BY <1>1, <1>2, <1>6
<1>8. DOMAIN pages = 1 .. MaxDocs + 1
  BY <1>1
<1>9. \A page \in 1 .. MaxDocs + 1 :
        pages[page] = Page(docs, sortInMemory(docs, ids, field, "desc"), page, limit)
  BY <1>1, <1>3, <1>5, <1>6 DEF ReflectionList, paginateForUser, listForUser
<1>10. Covers(pages, ids, field)
  BY <1>7, <1>8, <1>9, ListIsCovered
<1>. QED BY <1>1, <1>6, <1>10

\* The list of notes, searched or not.
LEMMA NotesAreCovered ==
    ASSUME IInv, NEW limit \in Nat \ {0}, NEW search, search \subseteq In("notes")
    PROVE  Covers([page \in 1 .. MaxDocs + 1 |-> NoteList(FALSE, search, page, limit)],
                  {id \in search : ~docs[id].flag}, "updatedAt")
<1>1. PICK pages, ids, all :
        /\ pages = [page \in 1 .. MaxDocs + 1 |-> NoteList(FALSE, search, page, limit)]
        /\ ids = {id \in search : ~docs[id].flag}
        /\ all = In("notes")
  OBVIOUS
<1>2. all \subseteq DOMAIN docs
  BY <1>1 DEF In
<1>3. PICK matched : matched = applyFilters(docs, all, {Filter("flag", "==", FALSE)})
  OBVIOUS
<1>4. matched = {id \in all : ~docs[id].flag}
  <2>1. PICK flag, no : flag = "flag" /\ no = FALSE
    OBVIOUS
  <2>2. matched = {id \in all : docs[id][flag] = no}
    <3>1. applyFilters(docs, all, {Filter(flag, "==", no)}) = Having(all, flag, no)
      BY EqualIs
    <3>. QED BY <1>3, <2>1, <3>1 DEF Having
  <2>3. \A id \in all : docs[id].flag \in BOOLEAN
    BY <1>2, FieldsAre
  <2>4. \A id \in all : docs[id][flag] = no <=> ~docs[id].flag
    BY <2>1, <2>3
  <2>. QED BY <2>2, <2>4
<1>5. ids = matched \intersect search /\ (search = all => ids = matched)
  BY <1>1, <1>4
<1>6. PICK field : field = "updatedAt"
  OBVIOUS
<1>7. ids \subseteq DOMAIN docs /\ \A id \in ids : docs[id][field] \in Nat
  <2>1. ids \subseteq DOMAIN docs
    BY <1>1, <1>2
  <2>2. \A id \in ids : docs[id].updatedAt \in Nat
    BY <2>1, FieldsAre
  <2>. QED BY <1>6, <2>1, <2>2
<1>8. DOMAIN pages = 1 .. MaxDocs + 1
  BY <1>1
<1>9. \A page \in 1 .. MaxDocs + 1 :
        pages[page] = Page(docs, sortInMemory(docs, ids, field, "desc"), page, limit)
  BY <1>1, <1>3, <1>5, <1>6 DEF NoteList, paginateForUser, listForUser
<1>10. Covers(pages, ids, field)
  BY <1>7, <1>8, <1>9, ListIsCovered
<1>. QED BY <1>1, <1>6, <1>10

\* A task that is shown as overdue keeps its place in the list.
LEMMA RowsAsShown ==
    ASSUME NEW rows, NEW list, NEW start, NEW end, AreRows(rows, list, start, end, "createdAt"),
           NEW shown,
           shown = [i \in DOMAIN rows |->
                       [id |-> rows[i].id, doc |-> withComputedStatus(rows[i].doc)]]
    PROVE  AreRows(shown, list, start, end, "createdAt")
<1>1. PICK n \in Nat : n = Len(rows) /\ DOMAIN rows = 1 .. n
  BY DEF AreRows
<1>2. \A i \in 1 .. n : rows[i].id \in Int /\ rows[i].doc \in Document
  <2>1. \A i \in 1 .. n : rows[i] \in Row
    BY <1>1 DEF AreRows
  <2>. QED BY <2>1 DEF Row
<1>3. ASSUME NEW doc \in Document
      PROVE  /\ withComputedStatus(doc) \in Document
             /\ withComputedStatus(doc).createdAt = doc.createdAt
  <2>1. PICK overdue : overdue = [doc EXCEPT !.status = "overdue"]
    OBVIOUS
  <2>2. overdue \in Document /\ overdue.createdAt = doc.createdAt
    BY <2>1 DEF Document, TaskStatuses
  <2>. QED BY <2>1, <2>2 DEF withComputedStatus
<1>4. \A i \in 1 .. n : /\ shown[i] \in Row /\ shown[i].id = rows[i].id
                        /\ shown[i].doc.createdAt = rows[i].doc.createdAt
  BY <1>1, <1>2, <1>3 DEF Row
<1>5. shown \in Seq(Row) /\ Len(shown) = n
  <2>1. shown = [i \in 1 .. n |-> shown[i]]
    BY <1>1
  <2>. QED BY <1>1, <1>4, <2>1
<1>. QED BY <1>1, <1>4, <1>5 DEF AreRows

\* The list of tasks.
LEMMA TasksAreCovered ==
    ASSUME IInv, NEW status \in Statuses, NEW limit \in Nat \ {0}
    PROVE  Covers([page \in 1 .. MaxDocs + 1 |-> TaskList(status, page, limit)],
                  {id \in In("tasks") : docs[id].status = status}, "createdAt")
<1>1. PICK pages, ids, all :
        /\ pages = [page \in 1 .. MaxDocs + 1 |-> TaskList(status, page, limit)]
        /\ ids = {id \in In("tasks") : docs[id].status = status}
        /\ all = In("tasks")
  OBVIOUS
<1>2. status # "any"
  BY ConstantsAssumption DEF TaskStatuses
<1>3. ids = applyFilters(docs, all, {Filter("status", "==", status)})
  <2>1. PICK name : name = "status"
    OBVIOUS
  <2>2. applyFilters(docs, all, {Filter(name, "==", status)}) =
            {id \in all : docs[id][name] = status}
    <3>1. applyFilters(docs, all, {Filter(name, "==", status)}) = Having(all, name, status)
      BY EqualIs
    <3>. QED BY <3>1 DEF Having
  <2>. QED BY <1>1, <2>1, <2>2
<1>4. PICK field : field = "createdAt"
  OBVIOUS
<1>5. ids \subseteq DOMAIN docs
  BY <1>1 DEF In
<1>6. \A id \in ids : docs[id][field] \in Nat
  <2>1. \A id \in ids : docs[id].createdAt \in Nat
    BY <1>5, FieldsAre
  <2>. QED BY <1>4, <2>1
<1>7. PICK list : list = sortInMemory(docs, ids, field, "desc")
  OBVIOUS
<1>8. Lists(list, ids) /\ Descends(list, ids, field)
  BY <1>5, <1>6, <1>7, NewestFirst
<1>9. ASSUME NEW page \in 1 .. MaxDocs + 1
      PROVE  IsPage(pages[page], list, page, limit, field)
  <2>1. page \in Nat \ {0}
    BY ConstantsAssumption
  <2>2. PICK result : result = Page(docs, list, page, limit)
    OBVIOUS
  <2>3. IsPage(result, list, page, limit, field)
    BY <1>5, <1>8, <2>1, <2>2, PageIs
  <2>4. DOMAIN result = {"items", "total", "totalPages", "hasNext", "hasPrev"}
    BY <2>2 DEF Page, buildPaginatedResult
  <2>5. PICK rows : rows = result.items
    OBVIOUS
  <2>6. PICK shown : shown =
          [i \in DOMAIN rows |-> [id |-> rows[i].id, doc |-> withComputedStatus(rows[i].doc)]]
    OBVIOUS
  <2>7. pages[page] = [result EXCEPT !.items = shown]
    BY <1>1, <1>2, <1>3, <1>4, <1>7, <2>2, <2>5, <2>6 DEF TaskList, paginateForUser, listForUser
  <2>8. /\ pages[page].items = shown /\ pages[page].totalPages = result.totalPages
        /\ pages[page].hasNext = result.hasNext
    BY <2>4, <2>7
  <2>9. PICK start, end : /\ start = (page - 1) * limit
                          /\ end = LastOf(list, (page - 1) * limit + limit)
    OBVIOUS
  <2>10. AreRows(rows, list, start, end, "createdAt")
    BY <1>4, <2>3, <2>5, <2>9 DEF IsPage
  <2>11. AreRows(shown, list, start, end, "createdAt")
    BY <2>6, <2>10, RowsAsShown
  <2>. QED BY <1>4, <2>3, <2>8, <2>9, <2>11 DEF IsPage
<1>10. DOMAIN pages = 1 .. MaxDocs + 1
  BY <1>1
<1>11. Covers(pages, ids, field)
  BY <1>5, <1>8, <1>9, <1>10, PagesTurn
<1>. QED BY <1>1, <1>4, <1>11

\* Turning the pages of a list, a size of page at a time, shows all that matches,
\* once each and in order, and hasNext ends it where it ends.
THEOREM ListsAreCovered == Spec => []PagesCoverList
<1>1. ASSUME IInv PROVE PagesCoverList
  <2>1. MaxTime \in Nat /\ DayTicks \in Nat /\ MaxDocs \in Nat
    BY ConstantsAssumption
  <2>2. \A limit \in 1 .. MaxDocs + 1 : limit \in Nat \ {0}
    BY <2>1
  <2>3. ASSUME NEW limit \in 1 .. MaxDocs + 1
        PROVE  /\ \A status \in Statuses :
                     Covers([page \in 1 .. MaxDocs + 1 |-> TaskList(status, page, limit)],
                            {id \in In("tasks") : docs[id].status = status}, "createdAt")
               /\ \A from \in {0, DayTicks} :
                     Covers([page \in 1 .. MaxDocs + 1 |-> SessionList(from, MaxTime, page, limit)],
                            {id \in In("study_sessions") : docs[id].at \in from .. MaxTime}, "at")
               /\ \A search \in SUBSET In("reflections") :
                     Covers([page \in 1 .. MaxDocs + 1 |->
                                ReflectionList(0, MaxTime, search, page, limit)],
                            {id \in search : docs[id].at \in 0 .. MaxTime}, "at")
               /\ \A search \in SUBSET In("notes") :
                     Covers([page \in 1 .. MaxDocs + 1 |-> NoteList(FALSE, search, page, limit)],
                            {id \in search : ~docs[id].flag}, "updatedAt")
    <3>1. PICK zero \in Nat : zero = 0
      OBVIOUS
    <3>2. \A status \in Statuses :
             Covers([page \in 1 .. MaxDocs + 1 |-> TaskList(status, page, limit)],
                    {id \in In("tasks") : docs[id].status = status}, "createdAt")
      BY <1>1, <2>2, TasksAreCovered
    <3>3. \A from \in {zero, DayTicks} :
             Covers([page \in 1 .. MaxDocs + 1 |-> SessionList(from, MaxTime, page, limit)],
                    {id \in In("study_sessions") : docs[id].at \in from .. MaxTime}, "at")
      <4>. TAKE from \in {zero, DayTicks}
      <4>1. from \in Nat
        BY <2>1
      <4>. QED BY <1>1, <2>1, <2>2, <4>1, SessionsAreCovered
    <3>4. \A search \in SUBSET In("reflections") :
             Covers([page \in 1 .. MaxDocs + 1 |->
                        ReflectionList(zero, MaxTime, search, page, limit)],
                    {id \in search : docs[id].at \in zero .. MaxTime}, "at")
      BY <1>1, <2>1, <2>2, ReflectionsAreCovered
    <3>5. \A search \in SUBSET In("notes") :
             Covers([page \in 1 .. MaxDocs + 1 |-> NoteList(FALSE, search, page, limit)],
                    {id \in search : ~docs[id].flag}, "updatedAt")
      BY <1>1, <2>2, NotesAreCovered
    <3>. QED BY <3>1, <3>2, <3>3, <3>4, <3>5
  <2>. QED BY <2>3 DEF PagesCoverList
<1>. QED BY <1>1, ViewsInvariant, PTL

=============================================================================
