--------------------------- MODULE PlannerProofs ---------------------------
(***************************************************************************)
(* Proofs about Planner: the search of ComposeDeterministic rejects only   *)
(* what no set of one selection per demanded class is feasible for, and    *)
(* returns one of the highest rank among these sets, unless a cap of the   *)
(* search was reached. The argument follows the code: what is selected for *)
(* one class, what the product of the classes lists, and what the loop     *)
(* over the combinations has established after each of them. A loop is a   *)
(* recursive function; Recursion shows that it is defined, and Counting    *)
(* what holds after every pass.                                            *)
(***************************************************************************)
EXTENDS Planner, FiniteSetTheorems, WellFoundedInduction, NaturalsInduction, TLAPS

-----------------------------------------------------------------------------
(* Numbers, sequences and loops.                                           *)

\* A nonempty set of naturals has a smallest element.
LEMMA LeastNatural ==
  ASSUME NEW T, T \subseteq Nat, T # {}
  PROVE  \E t \in T : \A y \in T : t <= y
<1>1. PICK t \in T : \A y \in T : ~ (<<y, t>> \in OpToRel(<, Nat))
  BY NatLessThanWellFounded, WFMin
<1>2. ASSUME NEW y \in T PROVE ~ (y < t)
  <2>1. y < t => <<y, t>> \in OpToRel(<, Nat)
    BY Zenon DEF OpToRel
  <2>. QED BY <1>1, <2>1
<1>3. \A y \in T : y \in Nat
  OBVIOUS
<1>. QED BY <1>2, <1>3

\* What a sequence is.
LEMMA SeqFunctions == \A S : Seq(S) = UNION {[1..n -> S] : n \in Nat}
OBVIOUS

\* What holds for no pass of a loop, and for a pass if it held before it, holds
\* for every number of passes.
LEMMA Counting ==
  ASSUME NEW n \in Nat, NEW T, 0 \in T, \A i \in 1..n : i - 1 \in T => i \in T
  PROVE  \A i \in 0..n : i \in T
<1> DEFINE Bad == {i \in 0..n : i \notin T}
<1>1. SUFFICES ASSUME Bad # {} PROVE FALSE
  OBVIOUS
<1>2. Bad \subseteq Nat
  OBVIOUS
<1>3. PICK k \in Bad : \A y \in Bad : k <= y
  <2>. HIDE DEF Bad
  <2>. QED BY <1>1, <1>2, LeastNatural
<1>4. k \in 1..n /\ k - 1 \in 0..n /\ ~ (k <= k - 1)
  BY <1>3
<1>5. k - 1 \notin Bad
  BY <1>3, <1>4
<1>. QED BY <1>3, <1>4, <1>5

\* A pass of a loop takes a value of A to a value of A; "f" has the value after
\* each of n passes.
Keeps(step, n, A) == \A i \in 1..n, x \in A : step[<<i, x>>] \in A
RunOf(f, step, n, A, a) ==
  /\ f \in [0..n -> A] /\ f[0] = a
  /\ \A i \in 1..n : f[i] = step[<<i, f[i-1]>>]

\* A loop that carries a value of A has a value after every pass.
LEMMA Recursion ==
  ASSUME NEW n \in Nat, NEW A, NEW a \in A, NEW step, Keeps(step, n, A)
  PROVE  \E f : RunOf(f, step, n, A, a)
<1> DEFINE Upto(f, k) == f[0] = a /\ \A i \in 1..k : f[i] = step[<<i, f[i-1]>>]
           T == {k \in 0..n : \E f \in [0..k -> A] : Upto(f, k)}
<1>1. 0 \in T
  <2> DEFINE g == [i \in 0..0 |-> a]
  <2>1. g \in [0..0 -> A] /\ Upto(g, 0)
    OBVIOUS
  <2>2. 0 \in 0..n
    OBVIOUS
  <2>. HIDE DEF g, Upto
  <2>. QED BY <2>1, <2>2
<1>2. ASSUME NEW k \in 1..n, k - 1 \in T PROVE k \in T
  <2>1. PICK f \in [0..(k-1) -> A] : Upto(f, k-1)
    BY <1>2
  <2>2. k - 1 \in 0..(k-1) /\ k \in Nat
    OBVIOUS
  <2>3. f[k-1] \in A /\ step[<<k, f[k-1]>>] \in A
    BY <2>2 DEF Keeps
  <2> DEFINE g == [i \in 0..k |-> IF i = k THEN step[<<k, f[k-1]>>] ELSE f[i]]
  <2>4. g \in [0..k -> A]
    <3>1. ASSUME NEW i \in 0..k PROVE g[i] \in A
      <4>1. i # k => i \in 0..(k-1)
        OBVIOUS
      <4>. QED BY <2>3, <4>1
    <3>. QED BY <3>1
  <2>5. g[0] = a /\ g[k-1] = f[k-1] /\ g[k] = step[<<k, f[k-1]>>]
    BY <2>1, <2>2
  <2>6. ASSUME NEW i \in 1..k, i # k PROVE g[i] = step[<<i, g[i-1]>>]
    <3>1. i \in 1..(k-1) /\ i - 1 \in 0..k /\ i - 1 # k /\ i \in 0..k
      BY <2>6
    <3>2. f[i] = step[<<i, f[i-1]>>]
      BY <2>1, <3>1
    <3>. QED BY <2>6, <3>1, <3>2
  <2> HIDE DEF g
  <2>7. Upto(g, k)
    BY <2>5, <2>6
  <2>. QED BY <2>4, <2>7
<1> HIDE DEF T
<1>3. n \in T
  <2>1. \A i \in 1..n : i - 1 \in T => i \in T
    BY <1>2
  <2>2. \A i \in 0..n : i \in T
    BY <1>1, <2>1, Counting
  <2>. QED BY <2>2
<1>. QED BY <1>3 DEF T, RunOf

-----------------------------------------------------------------------------
(* Lists.                                                                  *)

\* A strict total order of S.
Orders(R, S) ==
  /\ \A x \in S : <<x, x>> \notin R
  /\ \A x, y, z \in S : <<x, y>> \in R /\ <<y, z>> \in R => <<x, z>> \in R
  /\ \A x, y \in S : x # y => <<x, y>> \in R \/ <<y, x>> \in R

\* A list of the elements of a finite set has every one of them once.
LEMMA OrderedLists ==
  ASSUME NEW S, IsFiniteSet(S), NEW R, Orders(R, S)
  PROVE  Ordered(S, R) \in Bijection(1..Cardinality(S), S)
<1> DEFINE n == Cardinality(S)
           lower(x) == {y \in S : <<y, x>> \in R}
           place(x) == Cardinality(lower(x)) + 1
           p == [x \in S |-> place(x)]
<1>1. n \in Nat
  BY FS_CardinalityType
<1>2. ASSUME NEW x \in S PROVE place(x) \in 1..n /\ IsFiniteSet(lower(x))
  <2>1. lower(x) \in SUBSET S /\ lower(x) # S
    BY DEF Orders
  <2>. HIDE DEF lower
  <2>2. /\ IsFiniteSet(lower(x)) /\ Cardinality(lower(x)) <= n
        /\ n # Cardinality(lower(x))
    BY <2>1, FS_Subset
  <2>3. Cardinality(lower(x)) \in Nat
    BY <2>2, FS_CardinalityType
  <2>. QED BY <1>1, <2>2, <2>3
<1>3. ASSUME NEW x \in S, NEW y \in S, <<x, y>> \in R PROVE place(x) # place(y)
  <2>1. lower(x) \in SUBSET lower(y) /\ x \in lower(y) /\ x \notin lower(x)
    BY <1>3 DEF Orders
  <2>2. IsFiniteSet(lower(x)) /\ IsFiniteSet(lower(y))
    BY <1>2
  <2>. HIDE DEF lower
  <2>3. Cardinality(lower(x)) # Cardinality(lower(y))
    BY <2>1, <2>2, FS_Subset
  <2>4. Cardinality(lower(x)) \in Nat /\ Cardinality(lower(y)) \in Nat
    BY <2>2, FS_CardinalityType
  <2>. QED BY <2>3, <2>4
<1>4. \A x, y \in S : place(x) = place(y) => x = y
  <2>. HIDE DEF place
  <2>. QED BY <1>3 DEF Orders
<1>. HIDE DEF place
<1>5. p \in Injection(S, 1..n)
  BY <1>2, <1>4 DEF Injection, IsInjective
<1>6. p \in Surjection(S, 1..n)
  <2>1. IsFiniteSet(1..n) /\ Cardinality(1..n) = n
    BY <1>1, FS_Interval
  <2>. HIDE DEF p
  <2>. QED BY <1>5, <2>1, FS_Injection
<1>7. ASSUME NEW i \in 1..n
      PROVE  (CHOOSE x \in S : place(x) = i) \in S /\ place(CHOOSE x \in S : place(x) = i) = i
  <2>1. PICK x \in S : p[x] = i
    BY <1>6 DEF Surjection
  <2>. QED BY <2>1
<1>8. Ordered(S, R) = [i \in 1..n |-> CHOOSE x \in S : place(x) = i]
  BY DEF Ordered, place
<1> DEFINE f == Ordered(S, R)
<1>9. f \in [1..n -> S] /\ \A i \in 1..n : place(f[i]) = i
  BY <1>7, <1>8
<1>10. ASSUME NEW x \in S PROVE \E i \in 1..n : f[i] = x
  <2>1. place(x) \in 1..n /\ f[place(x)] \in S /\ place(f[place(x)]) = place(x)
    BY <1>2, <1>9
  <2>2. f[place(x)] = x
    BY <1>4, <2>1
  <2>. QED BY <2>1, <2>2
<1>. HIDE DEF f
<1>11. f \in Bijection(1..n, S)
  BY <1>9, <1>10 DEF Bijection, Injection, Surjection, IsInjective
<1>. QED BY <1>11 DEF f

\* The smallest element of a nonempty set of naturals.
LEMMA MinInSet ==
  ASSUME NEW T, T \subseteq Nat, T # {}
  PROVE  Min(T) \in T /\ \A y \in T : Min(T) <= y
BY LeastNatural DEF Min

\* The sort by score and identity puts the resources of a class in one order.
LEMMA ItemsList ==
  ASSUME NEW req, NEW k, NEW res, IsMap(res, ResourceId, Resource)
  PROVE  /\ Eligible(req, k, res) \subseteq DOMAIN res
         /\ IsFiniteSet(Eligible(req, k, res))
         /\ Items(req, k, res) \in
              Bijection(1..Cardinality(Eligible(req, k, res)), Eligible(req, k, res))
<1> DEFINE S == Eligible(req, k, res)
           score(r) == ClassScore(res[r], k)
           R == {p \in S \X S : \/ score(p[1]) > score(p[2])
                                \/ score(p[1]) = score(p[2]) /\ IdValue[p[1]] < IdValue[p[2]]}
<1>1. S \subseteq DOMAIN res /\ DOMAIN res \subseteq ResourceId
  BY DEF Eligible, IsMap
<1>2. IsFiniteSet(S)
  BY <1>1, PlannerAssumption, FS_Subset
<1>3. ASSUME NEW r \in S PROVE score(r) \in Nat /\ IdValue[r] \in Nat
  <2>1. res[r].capacity \in Nat
    BY <1>1 DEF IsMap, Resource
  <2>2. score(r) \in Nat
    BY <2>1 DEF ClassScore
  <2>3. IdValue[r] \in Nat
    BY <1>1, PlannerAssumption
  <2>. QED BY <2>2, <2>3
<1>4. \A r, s \in S : r # s => IdValue[r] # IdValue[s]
  BY <1>1, PlannerAssumption
<1>. HIDE DEF S, score
<1>5. Orders(R, S)
  <2>1. \A r, s \in S : <<r, s>> \in R <=>
          score(r) > score(s) \/ (score(r) = score(s) /\ IdValue[r] < IdValue[s])
    OBVIOUS
  <2>. HIDE DEF R
  <2>2. \A x \in S : <<x, x>> \notin R
    BY <1>3, <2>1
  <2>3. \A x, y \in S : x # y => <<x, y>> \in R \/ <<y, x>> \in R
    BY <1>3, <1>4, <2>1
  <2>4. ASSUME NEW x \in S, NEW y \in S, NEW z \in S, <<x, y>> \in R, <<y, z>> \in R
        PROVE  <<x, z>> \in R
    BY <1>3, <2>1, <2>4
  <2>. QED BY <2>2, <2>3, <2>4 DEF Orders
<1>6. Items(req, k, res) = Ordered(S, R)
  BY DEF Items, S, score
<1>7. Items(req, k, res) \in Bijection(1..Cardinality(S), S)
  <2>. HIDE DEF R
  <2>. QED BY <1>2, <1>5, <1>6, OrderedLists
<1>. QED BY <1>1, <1>2, <1>7 DEF S

\* The nested loops of EnumerateSelections visit every set of indices once.
LEMMA VisitedList ==
  ASSUME NEW n \in Nat, NEW sets, sets \subseteq SUBSET (1..n)
  PROVE  IsFiniteSet(sets) /\ Visited(sets) \in Bijection(1..Cardinality(sets), sets)
<1> DEFINE diff(I, J) == (I \ J) \cup (J \ I)
           R == {p \in sets \X sets : p[1] # p[2] /\ Min(diff(p[1], p[2])) \in p[1]}
<1>1. IsFiniteSet(sets)
  <2>1. IsFiniteSet(1..n)
    BY FS_Interval
  <2>2. IsFiniteSet(SUBSET (1..n))
    BY <2>1, FS_SUBSET
  <2>. QED BY <2>2, FS_Subset
<1>2. ASSUME NEW I \in sets, NEW J \in sets, I # J
      PROVE  /\ Min(diff(I, J)) \in Nat
             /\ Min(diff(I, J)) \in I <=> Min(diff(I, J)) \notin J
             /\ \A y \in Nat : y < Min(diff(I, J)) => (y \in I <=> y \in J)
  <2>1. diff(I, J) \subseteq Nat /\ diff(I, J) # {}
    BY <1>2
  <2>2. Min(diff(I, J)) \in diff(I, J) /\ \A y \in diff(I, J) : Min(diff(I, J)) <= y
    <3>. HIDE DEF diff
    <3>. QED BY <2>1, MinInSet
  <2>3. PICK m \in diff(I, J) : m = Min(diff(I, J)) /\ \A y \in diff(I, J) : m <= y
    BY <2>2
  <2>4. m \in Nat /\ (m \in I <=> m \notin J)
    BY <2>1, <2>3
  <2>5. \A y \in Nat : y < m => y \notin diff(I, J)
    BY <2>3, <2>4
  <2>6. \A y \in Nat : y < m => (y \in I <=> y \in J)
    BY <2>5
  <2>. QED BY <2>3, <2>4, <2>6
<1>3. \A I, J \in sets : diff(I, J) = diff(J, I)
  OBVIOUS
<1>4. \A I, J \in sets : <<I, J>> \in R <=> I # J /\ Min(diff(I, J)) \in I
  OBVIOUS
<1>5. ASSUME NEW I \in sets, NEW J \in sets, NEW a \in I, a \notin J,
             \A y \in Nat : y < a => (y \in I <=> y \in J)
      PROVE  <<I, J>> \in R
  <2>1. a \in Nat /\ I # J
    BY <1>5
  <2>2. Min(diff(I, J)) \in diff(I, J) /\ Min(diff(I, J)) <= a
    <3>1. diff(I, J) \subseteq Nat /\ a \in diff(I, J)
      BY <1>5
    <3>. HIDE DEF diff
    <3>. QED BY <3>1, MinInSet
  <2>3. Min(diff(I, J)) \in Nat
    BY <1>2, <2>1
  <2>4. Min(diff(I, J)) = a
    BY <1>5, <2>1, <2>2, <2>3
  <2>. QED BY <1>4, <2>1, <2>4
<1>. HIDE DEF R, diff
<1>6. Orders(R, sets)
  <2>1. \A I \in sets : <<I, I>> \notin R
    BY <1>4
  <2>2. \A I, J \in sets : I # J => <<I, J>> \in R \/ <<J, I>> \in R
    BY <1>2, <1>3, <1>4
  <2>3. ASSUME NEW I \in sets, NEW J \in sets, NEW K \in sets, <<I, J>> \in R, <<J, K>> \in R
        PROVE  <<I, K>> \in R
    <3>1. PICK a \in Nat : a \in I /\ a \notin J /\ \A y \in Nat : y < a => (y \in I <=> y \in J)
      BY <1>2, <1>4, <2>3
    <3>2. PICK b \in Nat : b \in J /\ b \notin K /\ \A y \in Nat : y < b => (y \in J <=> y \in K)
      BY <1>2, <1>4, <2>3
    <3>3. CASE a < b
      <4>1. a \in I /\ a \notin K /\ \A y \in Nat : y < a => (y \in I <=> y \in K)
        BY <3>1, <3>2, <3>3
      <4>. QED BY <1>5, <4>1
    <3>4. CASE b < a
      <4>1. b \in I /\ b \notin K /\ \A y \in Nat : y < b => (y \in I <=> y \in K)
        BY <3>1, <3>2, <3>4
      <4>. QED BY <1>5, <4>1
    <3>5. a # b
      BY <3>1, <3>2
    <3>. QED BY <3>3, <3>4, <3>5
  <2>. QED BY <2>1, <2>2, <2>3 DEF Orders
<1>7. Visited(sets) = Ordered(sets, R)
  BY DEF Visited, R, diff
<1>. QED BY <1>1, <1>6, <1>7, OrderedLists

\* A list of a set is a sequence that ranges over it.
LEMMA ListRange ==
  ASSUME NEW S, NEW n \in Nat, NEW f \in Bijection(1..n, S)
  PROVE  /\ f \in Seq(S) /\ Len(f) = n /\ DOMAIN f = 1..n /\ Range(f) = S
         /\ f \in Injection(1..n, S)
<1>1. f \in [1..n -> S] /\ \A x \in S : \E i \in 1..n : f[i] = x
  BY DEF Bijection, Injection, Surjection
<1>2. f \in Seq(S) /\ Len(f) = n
  BY <1>1
<1>3. Range(f) = S
  BY <1>1 DEF Range
<1>. QED BY <1>1, <1>2, <1>3 DEF Bijection

\* A cap of the search keeps a prefix, and all of a list that is short enough.
LEMMA FirstOf ==
  ASSUME NEW S, NEW s \in Seq(S), NEW n \in Nat
  PROVE  /\ First(n, s) \in Seq(S) /\ Range(First(n, s)) \subseteq Range(s)
         /\ \A i \in DOMAIN First(n, s) : i \in DOMAIN s /\ First(n, s)[i] = s[i]
         /\ Len(First(n, s)) <= n
         /\ Len(s) <= n => First(n, s) = s
         /\ n > 0 /\ s # <<>> => First(n, s) # <<>>
<1> DEFINE m == IF Len(s) <= n THEN Len(s) ELSE n
<1>1. m \in Nat /\ m <= Len(s) /\ m <= n /\ (Len(s) <= n => m = Len(s))
      /\ (n > 0 /\ s # <<>> => m > 0)
  OBVIOUS
<1>2. First(n, s) = SubSeq(s, 1, m)
  BY DEF First
<1>. HIDE DEF m
<1>3. /\ First(n, s) \in Seq(S) /\ Len(First(n, s)) = m
      /\ \A i \in 1..m : First(n, s)[i] = s[i]
  <2>1. SubSeq(s, 1, m) = [i \in 1..m |-> s[i]]
    BY <1>1
  <2>. QED BY <1>1, <1>2, <2>1
<1>4. DOMAIN First(n, s) = 1..m /\ DOMAIN s = 1..Len(s)
  BY <1>3
<1>5. \A i \in DOMAIN First(n, s) : i \in DOMAIN s /\ First(n, s)[i] = s[i]
  <2>1. Len(s) \in Nat /\ \A i \in 1..m : i \in 1..Len(s)
    BY <1>1
  <2>. QED BY <1>3, <1>4, <2>1, Zenon
<1>6. Range(First(n, s)) \subseteq Range(s)
  BY <1>5 DEF Range
<1>7. m = Len(s) => First(n, s) = s
  <2>. SUFFICES ASSUME m = Len(s) PROVE First(n, s) = s
    OBVIOUS
  <2>1. s \in [1..m -> S] /\ First(n, s) \in [1..m -> S]
    BY <1>3, <1>4, SeqFunctions
  <2>. QED BY <1>3, <2>1
<1>8. m > 0 => First(n, s) # <<>>
  BY <1>3
<1>. QED BY <1>1, <1>3, <1>5, <1>6, <1>7, <1>8

\* Appending a sequence to another.
LEMMA AppendedRange ==
  ASSUME NEW S, NEW s \in Seq(S), NEW t \in Seq(S)
  PROVE  s \o t \in Seq(S) /\ Range(s \o t) = Range(s) \cup Range(t)
<1>1. s \o t \in Seq(S) /\ Len(s \o t) = Len(s) + Len(t)
  OBVIOUS
<1>2. DOMAIN s = 1..Len(s) /\ DOMAIN t = 1..Len(t) /\ DOMAIN (s \o t) = 1..(Len(s) + Len(t))
  BY <1>1
<1>3. ASSUME NEW i \in 1..Len(s) PROVE i \in 1..(Len(s) + Len(t)) /\ (s \o t)[i] = s[i]
  OBVIOUS
<1>4. ASSUME NEW i \in 1..Len(t)
      PROVE  Len(s) + i \in 1..(Len(s) + Len(t)) /\ (s \o t)[Len(s) + i] = t[i]
  OBVIOUS
<1>5. ASSUME NEW i \in 1..(Len(s) + Len(t))
      PROVE  (s \o t)[i] \in Range(s) \cup Range(t)
  <2>1. CASE i <= Len(s)
    BY <1>2, <1>3, <2>1 DEF Range
  <2>2. CASE ~ (i <= Len(s))
    <3>1. i - Len(s) \in 1..Len(t) /\ i = Len(s) + (i - Len(s))
      BY <2>2
    <3>2. (s \o t)[i] = t[i - Len(s)]
      BY <1>4, <3>1
    <3>. QED BY <1>2, <3>1, <3>2 DEF Range
  <2>. QED BY <2>1, <2>2
<1>6. Range(s \o t) \subseteq Range(s) \cup Range(t)
  BY <1>2, <1>5 DEF Range
<1>7. Range(s) \subseteq Range(s \o t) /\ Range(t) \subseteq Range(s \o t)
  BY <1>2, <1>3, <1>4 DEF Range
<1>. QED BY <1>1, <1>6, <1>7

\* What those loops visit.
LEMMA VisitedRange ==
  ASSUME NEW n \in Nat, NEW sets, sets \subseteq SUBSET (1..n)
  PROVE  Visited(sets) \in Seq(sets) /\ Range(Visited(sets)) = sets
<1>1. Visited(sets) \in Bijection(1..Cardinality(sets), sets) /\ Cardinality(sets) \in Nat
  BY VisitedList, FS_CardinalityType
<1>. QED BY <1>1, ListRange

-----------------------------------------------------------------------------
(* EnumerateSelections: the selections of one class.                       *)

\* The indices of a list.
IsList(items) == \E n \in Nat : DOMAIN items = 1..n

\* The resources at some indices of a list.
At(items, I) == {items[j] : j \in I}

\* The index sets of the selections of a class.
IndexSets(req, k, items, res) ==
  IF k \in CountClasses THEN kSubset(Wanted(req, k), DOMAIN items)
  ELSE kSubset(1, DOMAIN items)
         \cup (IF req.demand[k] = 0 THEN {}
               ELSE {I \in kSubset(2, DOMAIN items) :
                       MeetsDemand(req, k, {items[j] : j \in I}, res)})

\* What EnumerateSelections lists for a class before it is cut.
LEMMA SelectionsRange ==
  ASSUME NEW req, NEW k, NEW res, NEW items, IsList(items)
  PROVE  /\ \E V : AllSelections(req, k, items, res) \in Seq(V)
         /\ \A S \in Range(AllSelections(req, k, items, res)) :
              \E I \in IndexSets(req, k, items, res) : S = At(items, I)
         /\ \A I \in IndexSets(req, k, items, res) :
              At(items, I) \in Range(AllSelections(req, k, items, res))
<1> DEFINE at(I) == {items[j] : j \in I}
           pairs == {I \in kSubset(2, DOMAIN items) : MeetsDemand(req, k, at(I), res)}
           one == Visited(kSubset(1, DOMAIN items))
           two == IF req.demand[k] = 0 THEN <<>> ELSE Visited(pairs)
           sets == IF k \in CountClasses THEN Visited(kSubset(Wanted(req, k), DOMAIN items))
                   ELSE one \o two
<1>0. PICK n \in Nat : DOMAIN items = 1..n
  BY DEF IsList
<1> DEFINE D == SUBSET (1..n)
<1>1. AllSelections(req, k, items, res) = [i \in DOMAIN sets |-> at(sets[i])]
  BY DEF AllSelections
<1>2. \A w : kSubset(w, DOMAIN items) \subseteq D
  BY <1>0 DEF kSubset
<1>3. pairs \subseteq D
  BY <1>2
<1>4. \A T : T \subseteq D => Visited(T) \in Seq(D) /\ Range(Visited(T)) = T
  <2>1. ASSUME NEW T, T \subseteq D PROVE Visited(T) \in Seq(D) /\ Range(Visited(T)) = T
    <3>1. Visited(T) \in Seq(T) /\ Range(Visited(T)) = T
      BY <2>1, VisitedRange
    <3>2. Len(Visited(T)) \in Nat /\ Visited(T) \in [1..Len(Visited(T)) -> T]
      BY <3>1
    <3>3. Visited(T) \in [1..Len(Visited(T)) -> D]
      <4>. HIDE DEF D
      <4>. QED BY <2>1, <3>2
    <3>. QED BY <3>1, <3>2, <3>3, SeqFunctions
  <2>. QED BY <2>1
<1>5. two \in Seq(D) /\ Range(two) = IF req.demand[k] = 0 THEN {} ELSE pairs
  <2>1. <<>> \in Seq(D) /\ Range(<<>>) = {}
    BY DEF Range
  <2>. HIDE DEF pairs, D
  <2>. QED BY <1>3, <1>4, <2>1
<1>6. sets \in Seq(D) /\ Range(sets) = IndexSets(req, k, items, res)
  <2>1. one \in Seq(D) /\ Range(one) = kSubset(1, DOMAIN items)
    BY <1>2, <1>4
  <2>. HIDE DEF one, two, D, pairs
  <2>2. one \o two \in Seq(D) /\ Range(one \o two) = Range(one) \cup Range(two)
    BY <1>5, <2>1, AppendedRange
  <2>. QED BY <1>2, <1>4, <1>5, <2>1, <2>2 DEF IndexSets, pairs
<1>. HIDE DEF sets
<1>7. Len(sets) \in Nat /\ DOMAIN sets = 1..Len(sets) /\ \A i \in DOMAIN sets : sets[i] \in D
  BY <1>6
<1> DEFINE all == [i \in DOMAIN sets |-> at(sets[i])]
<1>9. \E V : all \in Seq(V)
  <2> DEFINE V == {at(I) : I \in D}
  <2>. HIDE DEF at, D
  <2>1. all \in [1..Len(sets) -> V]
    BY <1>7
  <2>. HIDE DEF all, V
  <2>2. all \in Seq(V)
    BY <1>7, <2>1, SeqFunctions
  <2>. QED BY <2>2
<1>10. \A S : S \in Range([i \in DOMAIN sets |-> at(sets[i])]) <=>
               \E I \in Range(sets) : S = at(I)
  <2>. HIDE DEF at
  <2>. QED BY DEF Range
<1>11. \A I : at(I) = At(items, I)
  BY DEF At
<1>. HIDE DEF at
<1>12. \A S : S \in Range(AllSelections(req, k, items, res)) <=>
               \E I \in IndexSets(req, k, items, res) : S = at(I)
  BY <1>1, <1>6, <1>10
<1>. QED BY <1>1, <1>9, <1>11, <1>12

\* A selection has as many resources as indices.
LEMMA SelectedSize ==
  ASSUME NEW n \in Nat, NEW E, NEW items \in Injection(1..n, E), NEW I \in SUBSET (1..n)
  PROVE  At(items, I) \subseteq E /\ Cardinality(At(items, I)) = Cardinality(I)
<1> DEFINE A == {items[j] : j \in I}
           f == [j \in I |-> items[j]]
<1>1. items \in [1..n -> E] /\ \A i, j \in 1..n : items[i] = items[j] => i = j
  BY DEF Injection, IsInjective
<1>2. f \in Bijection(I, A)
  BY <1>1 DEF Bijection, Injection, Surjection, IsInjective
<1>3. IsFiniteSet(I)
  <2>1. IsFiniteSet(1..n)
    BY FS_Interval
  <2>. QED BY <2>1, FS_Subset
<1>4. ExistsBijection(I, A)
  <2>. HIDE DEF f, A
  <2>. QED BY <1>2 DEF ExistsBijection
<1>5. Cardinality(A) = Cardinality(I)
  <2>. HIDE DEF A
  <2>. QED BY <1>3, <1>4, FS_Bijection
<1>. QED BY <1>1, <1>5 DEF At

\* The number of resources a selection of a class has.
RightSize(req, k, S) ==
  IF k \in CountClasses THEN Cardinality(S) = Wanted(req, k)
  ELSE Cardinality(S) = 1 \/ (Cardinality(S) = 2 /\ req.demand[k] > 0)

\* What is listed for a class has the right size.
LEMMA SelectionShape ==
  ASSUME NEW req \in CompositionRequest, NEW k \in DemandClasses, NEW res, NEW n \in Nat,
         NEW E, NEW items \in Injection(1..n, E),
         NEW S \in Range(AllSelections(req, k, items, res))
  PROVE  S \subseteq E /\ RightSize(req, k, S)
<1>0. DOMAIN items = 1..n
  BY DEF Injection
<1>1. PICK I \in IndexSets(req, k, items, res) : S = At(items, I)
  <2>1. IsList(items)
    BY <1>0 DEF IsList
  <2>. QED BY <2>1, SelectionsRange
<1>2. /\ I \in SUBSET (1..n)
      /\ IF k \in CountClasses THEN Cardinality(I) = Wanted(req, k)
         ELSE Cardinality(I) = 1 \/ (Cardinality(I) = 2 /\ req.demand[k] # 0)
  BY <1>0, <1>1 DEF IndexSets, kSubset
<1>3. S \subseteq E /\ Cardinality(S) = Cardinality(I)
  BY <1>1, <1>2, SelectedSize
<1>4. req.demand[k] \in Nat
  BY DEF CompositionRequest
<1>. QED BY <1>2, <1>3, <1>4 DEF RightSize

\* Everything that can be selected from the listed resources is listed.
LEMMA SelectionListed ==
  ASSUME NEW req \in CompositionRequest, NEW k \in DemandClasses, NEW res, NEW n \in Nat,
         NEW E, NEW items \in Bijection(1..n, E), NEW S \in Selections(req, k, E, res)
  PROVE  S \in Range(AllSelections(req, k, items, res))
<1> DEFINE I == {j \in 1..n : items[j] \in S}
<1>0. /\ DOMAIN items = 1..n /\ items \in Injection(1..n, E) /\ Range(items) = E
      /\ req.demand[k] \in Nat
  <2>1. req.demand[k] \in Nat
    BY DEF CompositionRequest
  <2>. QED BY <2>1, ListRange
<1>1. S \subseteq E /\ RightSize(req, k, S) /\ MeetsDemand(req, k, S, res)
  BY DEF Selections, RightSize
<1>2. S = At(items, I)
  BY <1>0, <1>1 DEF Range, At
<1>. HIDE DEF I
<1>3. I \in SUBSET (1..n)
  BY DEF I
<1>4. Cardinality(I) = Cardinality(S)
  BY <1>0, <1>2, <1>3, SelectedSize
<1>5. I \in IndexSets(req, k, items, res)
  <2>1. \A w : Cardinality(I) = w => I \in kSubset(w, DOMAIN items)
    BY <1>0, <1>3 DEF kSubset
  <2>. QED BY <1>0, <1>1, <1>2, <1>4, <2>1 DEF IndexSets, RightSize, At
<1>6. IsList(items)
  BY <1>0 DEF IsList
<1>. QED BY <1>2, <1>5, <1>6, SelectionsRange

\* The picks of a class: eligible resources of it, of the right number.
LEMMA PicksShape ==
  ASSUME NEW req \in CompositionRequest, NEW k \in DemandClasses, NEW res,
         IsMap(res, ResourceId, Resource)
  PROVE  /\ EnumerateSelections(req, k, res) \in Seq(SUBSET Eligible(req, k, res))
         /\ Selectable(req, k, res) \in Seq(SUBSET Eligible(req, k, res))
         /\ \A S \in Range(EnumerateSelections(req, k, res)) :
              S \subseteq Eligible(req, k, res) /\ RightSize(req, k, S)
<1> DEFINE E == Eligible(req, k, res)
           all == Items(req, k, res)
           items == First(TopCandidates, all)
           listed == AllSelections(req, k, items, res)
<1>0. Cardinality(E) \in Nat /\ all \in Bijection(1..Cardinality(E), E)
  BY ItemsList, FS_CardinalityType
<1>. HIDE DEF E, all
<1>1. all \in Seq(E) /\ DOMAIN all = 1..Cardinality(E) /\ all \in Injection(1..Cardinality(E), E)
  BY <1>0, ListRange
<1>2. /\ items \in Seq(E) /\ Len(items) \in Nat /\ DOMAIN items = 1..Len(items)
      /\ \A i \in DOMAIN items : i \in DOMAIN all /\ items[i] = all[i]
  <2>1. TopCandidates \in Nat
    BY PlannerAssumption
  <2>2. /\ items \in Seq(E)
        /\ \A i \in DOMAIN items : i \in DOMAIN all /\ items[i] = all[i]
    BY <1>1, <2>1, FirstOf
  <2>. HIDE DEF items
  <2>. QED BY <2>2
<1>. HIDE DEF items
<1>3. items \in Injection(1..Len(items), E)
  <2>1. items \in [1..Len(items) -> E]
    BY <1>2
  <2>2. \A i, j \in DOMAIN all : all[i] = all[j] => i = j
    BY <1>1 DEF Injection, IsInjective
  <2>. QED BY <1>2, <2>1, <2>2 DEF Injection, IsInjective
<1>4. \A S \in Range(listed) : S \subseteq E /\ RightSize(req, k, S)
  BY <1>2, <1>3, SelectionShape
<1>5. listed \in Seq(SUBSET E)
  <2>0. IsList(items)
    BY <1>2 DEF IsList
  <2>1. \E V : listed \in Seq(V)
    BY <2>0, SelectionsRange
  <2>. HIDE DEF listed
  <2>2. /\ Len(listed) \in Nat /\ DOMAIN listed = 1..Len(listed)
        /\ listed = [i \in 1..Len(listed) |-> listed[i]]
    BY <2>1
  <2>3. \A i \in DOMAIN listed : listed[i] \in SUBSET E
    BY <1>4 DEF Range
  <2>4. listed \in [1..Len(listed) -> SUBSET E]
    BY <2>2, <2>3
  <2>. QED BY <2>2, <2>4, SeqFunctions
<1>6. Selectable(req, k, res) = listed /\ EnumerateSelections(req, k, res) = First(PickCap, listed)
  BY DEF Selectable, EnumerateSelections, items, all
<1>. HIDE DEF listed
<1>7. First(PickCap, listed) \in Seq(SUBSET E) /\ Range(First(PickCap, listed)) \subseteq Range(listed)
  BY <1>5, PlannerAssumption, FirstOf
<1>. QED BY <1>4, <1>5, <1>6, <1>7 DEF E

\* When no cap of a class is reached, EnumerateSelections leaves no selection out.
LEMMA PicksComplete ==
  ASSUME NEW req \in CompositionRequest, NEW k \in DemandClasses, NEW res,
         IsMap(res, ResourceId, Resource),
         ~ (Cardinality(Eligible(req, k, res)) > TopCandidates),
         ~ (Len(Selectable(req, k, res)) > PickCap)
  PROVE  Selections(req, k, Eligible(req, k, res), res) \subseteq
           Range(EnumerateSelections(req, k, res))
<1> DEFINE E == Eligible(req, k, res)
           all == Items(req, k, res)
           listed == AllSelections(req, k, all, res)
<1>0. Cardinality(E) \in Nat /\ all \in Bijection(1..Cardinality(E), E)
  BY ItemsList, FS_CardinalityType
<1>1. First(TopCandidates, all) = all
  <2>1. all \in Seq(E) /\ Len(all) = Cardinality(E)
    BY <1>0, ListRange
  <2>2. Cardinality(E) <= TopCandidates
    BY <1>0, PlannerAssumption
  <2>. HIDE DEF all, E
  <2>. QED BY <2>1, <2>2, PlannerAssumption, FirstOf
<1>2. Selectable(req, k, res) = listed
  BY <1>1 DEF Selectable
<1>3. EnumerateSelections(req, k, res) = listed
  <2>1. listed \in Seq(SUBSET E)
    BY <1>2, PicksShape
  <2>2. Len(listed) \in Nat /\ ~ (Len(listed) > PickCap)
    <3>. HIDE DEF listed
    <3>. QED BY <1>2, <2>1
  <2>. HIDE DEF listed
  <2>3. Len(listed) <= PickCap
    BY <2>2, PlannerAssumption
  <2>. QED BY <1>2, <2>1, <2>3, PlannerAssumption, FirstOf DEF EnumerateSelections
<1>4. \A S \in Selections(req, k, E, res) : S \in Range(listed)
  BY <1>0, SelectionListed
<1>. QED BY <1>3, <1>4

-----------------------------------------------------------------------------
(* The product of the selections, class by class.                          *)

\* The two loops of the product visit every pair of indices once.
LEMMA PairsList ==
  ASSUME NEW m \in Nat, NEW n \in Nat, NEW P, P = (1..m) \X (1..n),
         NEW R, R = {q \in P \X P : \/ q[1][1] < q[2][1]
                                    \/ q[1][1] = q[2][1] /\ q[1][2] < q[2][2]}
  PROVE  Ordered(P, R) \in Bijection(1..(m * n), P)
<1>1. IsFiniteSet(P) /\ Cardinality(P) = m * n
  <2>1. /\ IsFiniteSet(1..m) /\ Cardinality(1..m) = m
        /\ IsFiniteSet(1..n) /\ Cardinality(1..n) = n
    BY FS_Interval
  <2>. QED BY <2>1, FS_Product
<1>2. Orders(R, P)
  <2>1. \A x \in P : x[1] \in Nat /\ x[2] \in Nat /\ x = <<x[1], x[2]>>
    OBVIOUS
  <2>2. \A x, y \in P : <<x, y>> \in R <=> x[1] < y[1] \/ (x[1] = y[1] /\ x[2] < y[2])
    OBVIOUS
  <2>3. \A x \in P : <<x, x>> \notin R
    BY <2>1, <2>2
  <2>4. ASSUME NEW x \in P, NEW y \in P, x # y PROVE <<x, y>> \in R \/ <<y, x>> \in R
    <3>1. x[1] # y[1] \/ x[2] # y[2]
      BY <2>1, <2>4
    <3>. QED BY <2>1, <2>2, <3>1
  <2>5. ASSUME NEW x \in P, NEW y \in P, NEW z \in P, <<x, y>> \in R, <<y, z>> \in R
        PROVE  <<x, z>> \in R
    BY <2>1, <2>2, <2>5
  <2>. QED BY <2>3, <2>4, <2>5 DEF Orders
<1>. QED BY <1>1, <1>2, OrderedLists

\* The unions of a combination and a pick.
Unions(c, p) == UNION {{x \cup y : y \in Range(p)} : x \in Range(c)}

\* What a union is.
LEMMA UnionOf ==
  ASSUME NEW c, NEW p, NEW S
  PROVE  S \in Unions(c, p) <=> \E x \in Range(c) : \E y \in Range(p) : S = x \cup y
<1> DEFINE of(x) == {x \cup y : y \in Range(p)}
<1>1. Unions(c, p) = UNION {of(x) : x \in Range(c)}
  BY DEF Unions
<1>2. \A x : S \in of(x) <=> \E y \in Range(p) : S = x \cup y
  OBVIOUS
<1>. HIDE DEF of
<1>3. S \in UNION {of(x) : x \in Range(c)} <=> \E x \in Range(c) : S \in of(x)
  OBVIOUS
<1>. QED BY <1>1, <1>2, <1>3

\* Every combination with every pick, once for each pair of them.
LEMMA ProductOf ==
  ASSUME NEW V, NEW c \in Seq(SUBSET V), NEW p \in Seq(SUBSET V)
  PROVE  /\ Product(c, p) \in Seq(SUBSET V)
         /\ Len(Product(c, p)) = Len(c) * Len(p)
         /\ Range(Product(c, p)) = Unions(c, p)
<1> DEFINE m == Len(c)
           n == Len(p)
           P == (1..m) \X (1..n)
           R == {q \in P \X P : \/ q[1][1] < q[2][1]
                                \/ q[1][1] = q[2][1] /\ q[1][2] < q[2][2]}
           at == Ordered(P, R)
           both(q) == c[q[1]] \cup p[q[2]]
<1>1. m \in Nat /\ n \in Nat /\ m * n \in Nat /\ DOMAIN c = 1..m /\ DOMAIN p = 1..n
  OBVIOUS
<1>2. at \in Bijection(1..(m * n), P)
  <2>. HIDE DEF m, n
  <2>. QED BY <1>1, PairsList
<1>3. Product(c, p) = [i \in DOMAIN at |-> both(at[i])]
  <2>1. (DOMAIN c) \X (DOMAIN p) = P
    BY <1>1
  <2>. QED BY <2>1 DEF Product
<1>4. \A q \in P : q[1] \in DOMAIN c /\ q[2] \in DOMAIN p /\ both(q) \in SUBSET V
  BY <1>1
<1>. HIDE DEF at, m, n
<1>5. DOMAIN at = 1..(m * n) /\ Range(at) = P /\ at \in [1..(m * n) -> P]
  <2>1. at \in [1..(m * n) -> P]
    <3>. HIDE DEF P
    <3>. QED BY <1>2 DEF Bijection, Injection
  <2>. HIDE DEF P
  <2>. QED BY <1>1, <1>2, <2>1, ListRange
<1> DEFINE all == [i \in DOMAIN at |-> both(at[i])]
<1>6. all \in [1..(m * n) -> SUBSET V]
  <2>. HIDE DEF P, both
  <2>. QED BY <1>4, <1>5
<1>7. all \in Seq(SUBSET V) /\ Len(all) = m * n
  <2>. HIDE DEF all
  <2>. QED BY <1>1, <1>6
<1>8. \A S \in Range(all) : \E q \in P : S = both(q)
  <2>. HIDE DEF P, both
  <2>. QED BY <1>5 DEF Range
<1>9. \A q \in P : both(q) \in Range(all)
  <2>. HIDE DEF P, both
  <2>. QED BY <1>5 DEF Range
<1>10. \A S \in Range(all) : \E x \in Range(c), y \in Range(p) : S = x \cup y
  <2>. HIDE DEF all
  <2>1. ASSUME NEW S \in Range(all)
        PROVE  \E x \in Range(c), y \in Range(p) : S = x \cup y
    <3>1. PICK q \in P : S = both(q)
      BY <1>8
    <3>2. c[q[1]] \in Range(c) /\ p[q[2]] \in Range(p)
      BY <1>4 DEF Range
    <3>. QED BY <3>1, <3>2
  <2>. QED BY <2>1
<1>11. \A x \in Range(c), y \in Range(p) : x \cup y \in Range(all)
  <2>. HIDE DEF all
  <2>1. ASSUME NEW x \in Range(c), NEW y \in Range(p) PROVE x \cup y \in Range(all)
    <3>1. PICK i \in 1..m, j \in 1..n : x = c[i] /\ y = p[j]
      BY <1>1 DEF Range
    <3>2. <<i, j>> \in P /\ both(<<i, j>>) = x \cup y
      BY <3>1
    <3>. HIDE DEF P, both
    <3>. QED BY <1>9, <3>2
  <2>. QED BY <2>1
<1>. HIDE DEF all
<1>12. Product(c, p) = all
  BY <1>3 DEF all
<1>13. Range(all) = Unions(c, p)
  <2>1. ASSUME NEW S \in Range(all) PROVE S \in Unions(c, p)
    BY <1>10, UnionOf
  <2>2. ASSUME NEW S \in Unions(c, p) PROVE S \in Range(all)
    <3>1. PICK x \in Range(c) : \E y \in Range(p) : S = x \cup y
      BY UnionOf
    <3>. QED BY <1>11, <3>1
  <2>. QED BY <2>1, <2>2
<1>. QED BY <1>7, <1>12, <1>13 DEF m, n

\* Serving one class.
Grown(req, res, i, c) ==
  IF DemandOrder[i] \notin MandatoryClasses(req) THEN c
  ELSE First(ComboCap, Product(c, EnumerateSelections(req, DemandOrder[i], res)))

\* The classes and the order they are served in.
LEMMA ServedOrder ==
  /\ Len(DemandOrder) = 6 /\ DOMAIN DemandOrder = 1..6
  /\ \A i \in 1..6 : DemandOrder[i] \in DemandClasses
  /\ \A k \in DemandClasses : \E i \in 1..6 : DemandOrder[i] = k
  /\ \A i, j \in 1..6 : DemandOrder[i] = DemandOrder[j] => i = j
<1>1. Len(DemandOrder) = 6 /\ DOMAIN DemandOrder = 1..6
  BY DEF DemandOrder
<1>2. /\ DemandOrder[1] = "COMPUTE" /\ DemandOrder[2] = "ACCELERATOR"
      /\ DemandOrder[3] = "HOST_MEMORY" /\ DemandOrder[4] = "EXPANDED_MEMORY"
      /\ DemandOrder[5] = "STORAGE" /\ DemandOrder[6] = "NETWORK_ENDPOINT"
  BY DEF DemandOrder
<1>3. \A i \in 1..6 : i = 1 \/ i = 2 \/ i = 3 \/ i = 4 \/ i = 5 \/ i = 6
  OBVIOUS
<1>4. \A i \in 1..6 : DemandOrder[i] \in DemandClasses
  BY <1>2, <1>3 DEF DemandClasses, AmountClasses, CountClasses
<1>5. \A k \in DemandClasses : \E i \in 1..6 : DemandOrder[i] = k
  <2>1. 1 \in 1..6 /\ 2 \in 1..6 /\ 3 \in 1..6 /\ 4 \in 1..6 /\ 5 \in 1..6 /\ 6 \in 1..6
    OBVIOUS
  <2>. QED BY <1>2, <2>1 DEF DemandClasses, AmountClasses, CountClasses
<1>6. \A i, j \in 1..6 : DemandOrder[i] = DemandOrder[j] => i = j
  BY <1>2, <1>3
<1>. QED BY <1>1, <1>4, <1>5, <1>6

\* The picks of a class are sets of registered resources.
LEMMA PicksType ==
  ASSUME NEW req \in CompositionRequest, NEW k \in DemandClasses, NEW res,
         IsMap(res, ResourceId, Resource)
  PROVE  EnumerateSelections(req, k, res) \in Seq(SUBSET (DOMAIN res))
<1> DEFINE picks == EnumerateSelections(req, k, res)
<1>1. picks \in Seq(SUBSET Eligible(req, k, res)) /\ Eligible(req, k, res) \subseteq DOMAIN res
  BY PicksShape, ItemsList
<1>. HIDE DEF picks
<1>2. Len(picks) \in Nat /\ picks \in [1..Len(picks) -> SUBSET Eligible(req, k, res)]
  BY <1>1
<1>3. picks \in [1..Len(picks) -> SUBSET (DOMAIN res)]
  BY <1>1, <1>2
<1>4. picks \in Seq(SUBSET (DOMAIN res))
  BY <1>2, <1>3, SeqFunctions
<1>. QED BY <1>4 DEF picks

\* The loop over the classes has a list of combinations after each class.
LEMMA CombinedSteps ==
  ASSUME NEW req \in CompositionRequest, NEW res, IsMap(res, ResourceId, Resource)
  PROVE  /\ Combined(req, res) \in [0..6 -> Seq(SUBSET (DOMAIN res))]
         /\ Combined(req, res)[0] = <<{}>>
         /\ \A i \in 1..6 : Combined(req, res)[i] = Grown(req, res, i, Combined(req, res)[i-1])
<1> DEFINE V == DOMAIN res
           A == Seq(SUBSET V)
           a == <<{}>>
           step == [p \in (1..6) \X A |-> Grown(req, res, p[1], p[2])]
<1>1. a \in A
  OBVIOUS
<1>2. ASSUME NEW i \in 1..6, NEW c \in A PROVE Grown(req, res, i, c) \in A
  <2>1. DemandOrder[i] \in DemandClasses
    BY ServedOrder
  <2>2. EnumerateSelections(req, DemandOrder[i], res) \in A
    BY <2>1, PicksType
  <2>3. Product(c, EnumerateSelections(req, DemandOrder[i], res)) \in A
    BY <2>2, ProductOf
  <2>4. ComboCap \in Nat
    BY PlannerAssumption
  <2>5. First(ComboCap, Product(c, EnumerateSelections(req, DemandOrder[i], res))) \in A
    BY <2>3, <2>4, FirstOf
  <2>. QED BY <2>5 DEF Grown
<1>3. \A i \in 1..6, c \in A : step[<<i, c>>] = Grown(req, res, i, c) /\ step[<<i, c>>] \in A
  <2>. HIDE DEF A
  <2>1. \A i \in 1..6, c \in A : <<i, c>> \in (1..6) \X A
    OBVIOUS
  <2>. QED BY <1>2, <2>1
<1>4. PICK f : RunOf(f, step, 6, A, a)
  <2>. HIDE DEF A, a, step
  <2>1. Keeps(step, 6, A)
    BY <1>3 DEF Keeps
  <2>. QED BY <1>1, <2>1, Recursion
<1>5. f \in [0..6 -> A] /\ f[0] = a /\ \A i \in 1..6 : f[i] = Grown(req, res, i, f[i-1])
  <2>. HIDE DEF A, a, step
  <2>1. f \in [0..6 -> A] /\ f[0] = a /\ \A i \in 1..6 : f[i] = step[<<i, f[i-1]>>]
    BY <1>4 DEF RunOf
  <2>2. \A i \in 1..6 : i - 1 \in 0..6
    OBVIOUS
  <2>3. \A i \in 1..6 : f[i-1] \in A
    BY <2>1, <2>2
  <2>. QED BY <1>3, <2>1, <2>3
<1> DEFINE val(g, i) ==
             IF i = 0 THEN <<{}>>
             ELSE IF DemandOrder[i] \notin MandatoryClasses(req) THEN g[i - 1]
             ELSE First(ComboCap,
                        Product(g[i - 1], EnumerateSelections(req, DemandOrder[i], res)))
           Def(g) == [i \in 0..Len(DemandOrder) |-> val(g, i)]
<1>6. f = Def(f)
  <2>1. \A i \in 0..6 : i = 0 \/ i \in 1..6
    OBVIOUS
  <2>2. Len(DemandOrder) = 6
    BY ServedOrder
  <2>3. \A i \in 0..6 : f[i] = val(f, i)
    <3>. HIDE DEF A
    <3>. QED BY <1>5, <2>1 DEF Grown
  <2>. HIDE DEF A, val
  <2>. QED BY <1>5, <2>2, <2>3
<1>7. Combined(req, res) = CHOOSE g : g = Def(g)
  BY DEF Combined
<1> DEFINE h == Combined(req, res)
<1>8. ASSUME NEW g, NEW d, d = Def(g)
      PROVE  /\ d = [i \in 0..6 |-> d[i]] /\ d[0] = <<{}>>
             /\ \A i \in 1..6 : d[i] = Grown(req, res, i, g[i-1])
  <2>1. Len(DemandOrder) = 6
    BY ServedOrder
  <2>2. d = [i \in 0..6 |-> val(g, i)]
    BY <1>8, <2>1
  <2>3. 0 \in 0..6 /\ \A i \in 1..6 : i \in 0..6 /\ i # 0
    OBVIOUS
  <2>4. d = [i \in 0..6 |-> d[i]] /\ \A i \in 0..6 : d[i] = val(g, i)
    <3>. HIDE DEF val
    <3>. QED BY <2>2
  <2>5. d[0] = <<{}>>
    BY <2>3, <2>4
  <2>6. \A i \in 1..6 : val(g, i) = Grown(req, res, i, g[i-1])
    BY <2>3 DEF Grown
  <2>. HIDE DEF val
  <2>. QED BY <2>3, <2>4, <2>5, <2>6
<1>. HIDE DEF Def
<1>9. /\ h = [i \in 0..6 |-> h[i]] /\ h[0] = <<{}>>
      /\ \A i \in 1..6 : h[i] = Grown(req, res, i, h[i-1])
  <2>1. h = Def(h)
    BY <1>6, <1>7
  <2>. HIDE DEF h
  <2>. QED BY <1>8, <2>1
<1>. HIDE DEF h
<1>10. \A i \in 0..6 : h[i] \in A
  <2> DEFINE T == {i \in 0..6 : h[i] \in A}
  <2>0. h[0] \in A
    BY <1>1, <1>9
  <2>. HIDE DEF A
  <2>1. 0 \in T
    BY <2>0
  <2>2. ASSUME NEW i \in 1..6, i - 1 \in T PROVE i \in T
    BY <1>2, <1>9, <2>2
  <2>. HIDE DEF T
  <2>3. \A i \in 0..6 : i \in T
    BY <2>1, <2>2, Counting
  <2>. QED BY <2>3 DEF T
<1>. HIDE DEF A
<1>11. h \in [0..6 -> A]
  BY <1>9, <1>10
<1>. QED BY <1>9, <1>11 DEF h, A

\* The classes served by the first i passes.
Served(req, i) == {DemandOrder[j] : j \in 1..i} \cap MandatoryClasses(req)

\* The members of a class.
Part(S, k, res) == {r \in S : res[r].class = k}

\* A set made of one pick for each class served so far.
Built(req, res, i, S) ==
  /\ S \subseteq DOMAIN res
  /\ \A r \in S : res[r].class \in Served(req, i)
  /\ \A k \in Served(req, i) : Part(S, k, res) \in Range(EnumerateSelections(req, k, res))

\* What a pass adds to the classes served.
LEMMA ServedStep ==
  ASSUME NEW req
  PROVE  /\ Served(req, 0) = {} /\ Served(req, 6) = MandatoryClasses(req)
         /\ \A i \in 1..6 :
              IF DemandOrder[i] \in MandatoryClasses(req)
              THEN /\ Served(req, i) = Served(req, i-1) \cup {DemandOrder[i]}
                   /\ DemandOrder[i] \notin Served(req, i-1)
              ELSE Served(req, i) = Served(req, i-1)
<1>1. MandatoryClasses(req) \subseteq DemandClasses
  BY DEF MandatoryClasses
<1>2. Served(req, 0) = {}
  BY DEF Served
<1>3. Served(req, 6) = MandatoryClasses(req)
  BY <1>1, ServedOrder DEF Served
<1>4. ASSUME NEW i \in 1..6
      PROVE  IF DemandOrder[i] \in MandatoryClasses(req)
             THEN /\ Served(req, i) = Served(req, i-1) \cup {DemandOrder[i]}
                  /\ DemandOrder[i] \notin Served(req, i-1)
             ELSE Served(req, i) = Served(req, i-1)
  <2>1. \A j \in 1..i : j = i \/ j \in 1..(i-1)
    OBVIOUS
  <2>2. i \in 1..i /\ \A j \in 1..(i-1) : j \in 1..i /\ j # i /\ j \in 1..6
    OBVIOUS
  <2>3. \A j \in 1..(i-1) : DemandOrder[j] # DemandOrder[i]
    BY <2>2, ServedOrder
  <2>. QED BY <2>1, <2>2, <2>3 DEF Served
<1>. QED BY <1>2, <1>3, <1>4

\* The members a pick brings are of its class.
LEMMA PickClass ==
  ASSUME NEW req \in CompositionRequest, NEW k \in DemandClasses, NEW res,
         IsMap(res, ResourceId, Resource), NEW Y \in Range(EnumerateSelections(req, k, res))
  PROVE  Y \subseteq DOMAIN res /\ \A r \in Y : res[r].class = k
<1>1. Y \subseteq Eligible(req, k, res)
  BY PicksShape
<1>. QED BY <1>1 DEF Eligible

\* A pick of the next class added to a set built before it.
LEMMA BuiltGrows ==
  ASSUME NEW req \in CompositionRequest, NEW res, IsMap(res, ResourceId, Resource),
         NEW i \in 1..6, DemandOrder[i] \in MandatoryClasses(req),
         NEW X, Built(req, res, i-1, X),
         NEW Y \in Range(EnumerateSelections(req, DemandOrder[i], res))
  PROVE  Built(req, res, i, X \cup Y)
<1> DEFINE k == DemandOrder[i]
<1>1. k \in DemandClasses
  BY ServedOrder
<1>2. Y \subseteq DOMAIN res /\ \A r \in Y : res[r].class = k
  BY <1>1, PickClass
<1>3. Served(req, i) = Served(req, i-1) \cup {k} /\ k \notin Served(req, i-1)
  BY ServedStep
<1>. HIDE DEF k
<1>4. Part(X \cup Y, k, res) = Y
  BY <1>2, <1>3 DEF Built, Part
<1>5. \A j \in Served(req, i-1) : Part(X \cup Y, j, res) = Part(X, j, res)
  BY <1>2, <1>3 DEF Part
<1>. QED BY <1>2, <1>3, <1>4, <1>5 DEF Built, k

\* A set built with a class is one built without it and a pick of the class.
LEMMA BuiltSplits ==
  ASSUME NEW req \in CompositionRequest, NEW res,
         NEW i \in 1..6, DemandOrder[i] \in MandatoryClasses(req),
         NEW S, Built(req, res, i, S)
  PROVE  \E X : \E Y \in Range(EnumerateSelections(req, DemandOrder[i], res)) :
           Built(req, res, i-1, X) /\ S = X \cup Y
<1> DEFINE k == DemandOrder[i]
           Y == Part(S, k, res)
           X == S \ Y
<1>1. Served(req, i) = Served(req, i-1) \cup {k} /\ k \notin Served(req, i-1)
  BY ServedStep
<1>. HIDE DEF k
<1>2. Y \in Range(EnumerateSelections(req, k, res)) /\ S = X \cup Y
  BY <1>1 DEF Built, Part
<1>3. \A j \in Served(req, i-1) : Part(X, j, res) = Part(S, j, res)
  BY <1>1 DEF Part
<1>4. X \subseteq S /\ \A r \in X : res[r].class # k
  BY DEF Part
<1>. HIDE DEF X, Y
<1>5. Built(req, res, i-1, X)
  BY <1>1, <1>3, <1>4 DEF Built
<1>. QED BY <1>2, <1>5 DEF k

\* Nothing is combined but from picks of the classes served.
LEMMA CombinedSound ==
  ASSUME NEW req \in CompositionRequest, NEW res, IsMap(res, ResourceId, Resource)
  PROVE  \A i \in 0..6 : \A S \in Range(Combined(req, res)[i]) : Built(req, res, i, S)
<1> DEFINE f == Combined(req, res)
           T == {i \in 0..6 : \A S \in Range(f[i]) : Built(req, res, i, S)}
<1>1. /\ f \in [0..6 -> Seq(SUBSET (DOMAIN res))] /\ f[0] = <<{}>>
      /\ \A i \in 1..6 : f[i] = Grown(req, res, i, f[i-1])
  BY CombinedSteps
<1>. HIDE DEF f
<1>2. 0 \in T
  <2>1. \A S \in Range(f[0]) : S = {}
    BY <1>1 DEF Range
  <2>. QED BY <2>1, ServedStep DEF Built
<1>3. ASSUME NEW i \in 1..6, i - 1 \in T PROVE i \in T
  <2> DEFINE picks == EnumerateSelections(req, DemandOrder[i], res)
             all == Product(f[i-1], picks)
  <2>1. ASSUME NEW S \in Range(f[i]) PROVE Built(req, res, i, S)
    <3>1. CASE DemandOrder[i] \notin MandatoryClasses(req)
      <4>1. S \in Range(f[i-1]) /\ Served(req, i) = Served(req, i-1)
        BY <1>1, <2>1, <3>1, ServedStep DEF Grown
      <4>2. Built(req, res, i-1, S)
        BY <1>3, <4>1
      <4>. QED BY <4>1, <4>2 DEF Built
    <3>2. CASE DemandOrder[i] \in MandatoryClasses(req)
      <4>1. DemandOrder[i] \in DemandClasses /\ i - 1 \in 0..6 /\ ComboCap \in Nat
        BY ServedOrder, PlannerAssumption
      <4>2. picks \in Seq(SUBSET (DOMAIN res)) /\ f[i-1] \in Seq(SUBSET (DOMAIN res))
        BY <1>1, <4>1, PicksType
      <4>3. f[i] = First(ComboCap, all)
        BY <1>1, <3>2 DEF Grown
      <4>. HIDE DEF picks
      <4>4. all \in Seq(SUBSET (DOMAIN res))
        BY <4>2, ProductOf
      <4>5. Range(First(ComboCap, all)) \subseteq Range(all)
        <5>. HIDE DEF all
        <5>. QED BY <4>1, <4>4, FirstOf
      <4>6. S \in Range(all)
        BY <2>1, <4>3, <4>5
      <4>7. PICK X \in Range(f[i-1]) : \E Y \in Range(picks) : S = X \cup Y
        <5>1. S \in Unions(f[i-1], picks)
          BY <4>2, <4>6, ProductOf
        <5>. QED BY <5>1, UnionOf
      <4>8. Built(req, res, i-1, X)
        BY <1>3, <4>7
      <4>9. PICK Y \in Range(picks) : S = X \cup Y
        BY <4>7
      <4>. QED BY <3>2, <4>8, <4>9, BuiltGrows DEF picks
    <3>. QED BY <3>1, <3>2
  <2>. QED BY <2>1
<1>. HIDE DEF T
<1>4. \A i \in 0..6 : i \in T
  BY <1>2, <1>3, Counting
<1>. QED BY <1>4 DEF T, f

\* No product is cut.
Uncut(req, res) ==
  \A i \in 1..6 : DemandOrder[i] \in MandatoryClasses(req) =>
    Len(Combined(req, res)[i-1]) * Len(EnumerateSelections(req, DemandOrder[i], res)) <= ComboCap

\* When no product is cut, every choice of a pick for each class is combined.
LEMMA CombinedComplete ==
  ASSUME NEW req \in CompositionRequest, NEW res, IsMap(res, ResourceId, Resource),
         Uncut(req, res)
  PROVE  \A i \in 0..6 : \A S : Built(req, res, i, S) => S \in Range(Combined(req, res)[i])
<1> DEFINE f == Combined(req, res)
           T == {i \in 0..6 : \A S : Built(req, res, i, S) => S \in Range(f[i])}
<1>1. /\ f \in [0..6 -> Seq(SUBSET (DOMAIN res))] /\ f[0] = <<{}>>
      /\ \A i \in 1..6 : f[i] = Grown(req, res, i, f[i-1])
  BY CombinedSteps
<1>2. \A i \in 1..6 : DemandOrder[i] \in MandatoryClasses(req) =>
        Len(f[i-1]) * Len(EnumerateSelections(req, DemandOrder[i], res)) <= ComboCap
  BY DEF Uncut
<1>. HIDE DEF f
<1>3. 0 \in T
  <2>1. {} \in Range(f[0])
    BY <1>1 DEF Range
  <2>2. \A S : Built(req, res, 0, S) => S = {}
    BY ServedStep DEF Built
  <2>. QED BY <2>1, <2>2
<1>4. ASSUME NEW i \in 1..6, i - 1 \in T PROVE i \in T
  <2> DEFINE picks == EnumerateSelections(req, DemandOrder[i], res)
             all == Product(f[i-1], picks)
  <2>1. ASSUME NEW S, Built(req, res, i, S) PROVE S \in Range(f[i])
    <3>1. CASE DemandOrder[i] \notin MandatoryClasses(req)
      <4>1. f[i] = f[i-1] /\ Served(req, i) = Served(req, i-1)
        BY <1>1, <3>1, ServedStep DEF Grown
      <4>2. Built(req, res, i-1, S)
        BY <2>1, <4>1 DEF Built
      <4>. QED BY <1>4, <4>1, <4>2
    <3>2. CASE DemandOrder[i] \in MandatoryClasses(req)
      <4>1. DemandOrder[i] \in DemandClasses /\ i - 1 \in 0..6 /\ ComboCap \in Nat
        BY ServedOrder, PlannerAssumption
      <4>2. picks \in Seq(SUBSET (DOMAIN res)) /\ f[i-1] \in Seq(SUBSET (DOMAIN res))
        BY <1>1, <4>1, PicksType
      <4>3. f[i] = First(ComboCap, all) /\ Len(f[i-1]) * Len(picks) <= ComboCap
        BY <1>1, <1>2, <3>2 DEF Grown
      <4>4. PICK X : \E Y \in Range(picks) : Built(req, res, i-1, X) /\ S = X \cup Y
        BY <2>1, <3>2, BuiltSplits
      <4>. HIDE DEF picks
      <4>5. all \in Seq(SUBSET (DOMAIN res)) /\ Len(all) <= ComboCap
        BY <4>2, <4>3, ProductOf
      <4>6. First(ComboCap, all) = all
        <5>. HIDE DEF all
        <5>. QED BY <4>1, <4>5, FirstOf
      <4>7. PICK Y \in Range(picks) : Built(req, res, i-1, X) /\ S = X \cup Y
        BY <4>4
      <4>8. X \in Range(f[i-1])
        BY <1>4, <4>7
      <4>9. X \cup Y \in Range(all)
        <5>1. X \cup Y \in Unions(f[i-1], picks)
          BY <4>7, <4>8, UnionOf
        <5>. QED BY <4>2, <5>1, ProductOf
      <4>. QED BY <4>3, <4>6, <4>7, <4>9
    <3>. QED BY <3>1, <3>2
  <2>. QED BY <2>1
<1>. HIDE DEF T
<1>5. \A i \in 0..6 : i \in T
  BY <1>3, <1>4, Counting
<1>. QED BY <1>5 DEF T, f

-----------------------------------------------------------------------------
(* Rank is a number.                                                       *)

\* What is left of a set when one element is taken.
LEMMA OneLess ==
  ASSUME NEW s, IsFiniteSet(s), s # {}, NEW k \in Nat, Cardinality(s) <= k
  PROVE  /\ (CHOOSE x \in s : TRUE) \in s
         /\ k - 1 \in Nat /\ Cardinality(s \ {CHOOSE x \in s : TRUE}) <= k - 1
<1> DEFINE c == CHOOSE x \in s : TRUE
<1>1. c \in s
  OBVIOUS
<1>. HIDE DEF c
<1>2. Cardinality(s \ {c}) = Cardinality(s) - 1
  BY <1>1, FS_RemoveElement
<1>3. Cardinality(s) \in Nat /\ Cardinality(s) # 0
  BY FS_CardinalityType, FS_EmptySet
<1>. QED BY <1>1, <1>2, <1>3 DEF c

\* The sum over a set is an amount and the sum over the rest.
SumStep(S, f, g) ==
  [s \in SUBSET S |-> IF s = {} THEN 0
                      ELSE LET x == CHOOSE y \in s : TRUE IN f[x] + g[s \ {x}]]

\* The sums over the subsets of a finite set exist.
LEMMA SumsExist ==
  ASSUME NEW S, IsFiniteSet(S), NEW f \in [S -> Nat]
  PROVE  \E g : g = SumStep(S, f, g)
<1> DEFINE n == Cardinality(S)
           A == [SUBSET S -> Nat]
           zero == [s \in SUBSET S |-> 0]
           step == [p \in (1..(n+1)) \X A |-> SumStep(S, f, p[2])]
           c(s) == CHOOSE y \in s : TRUE
<1>1. n \in Nat /\ n + 1 \in Nat
  BY FS_CardinalityType
<1>2. ASSUME NEW s \in SUBSET S
      PROVE  IsFiniteSet(s) /\ Cardinality(s) \in Nat /\ Cardinality(s) <= n
  <2>1. IsFiniteSet(s) /\ Cardinality(s) <= n
    BY FS_Subset
  <2>. QED BY <2>1, FS_CardinalityType
<1>. HIDE DEF n
<1>3. ASSUME NEW g \in A
      PROVE  SumStep(S, f, g) \in A
  <2>1. ASSUME NEW s \in SUBSET S, s # {} PROVE f[c(s)] + g[s \ {c(s)}] \in Nat
    <3>1. c(s) \in S /\ s \ {c(s)} \in SUBSET S
      BY <2>1
    <3>. HIDE DEF c
    <3>. QED BY <3>1
  <2>. QED BY <2>1 DEF SumStep
<1>4. \A i \in 1..(n+1), g \in A : step[<<i, g>>] = SumStep(S, f, g) /\ step[<<i, g>>] \in A
  <2>. HIDE DEF A
  <2>1. \A i \in 1..(n+1), g \in A : <<i, g>> \in (1..(n+1)) \X A
    OBVIOUS
  <2>. QED BY <1>3, <2>1
<1>5. zero \in A
  OBVIOUS
<1>. HIDE DEF A, zero, step
<1>6. PICK h : RunOf(h, step, n + 1, A, zero)
  <2>1. Keeps(step, n + 1, A)
    BY <1>4 DEF Keeps
  <2>. QED BY <1>1, <1>5, <2>1, Recursion
<1>7. /\ h[0] = zero /\ \A i \in 0..(n+1) : h[i] \in A
      /\ \A i \in 1..(n+1) : h[i] = SumStep(S, f, h[i-1])
  <2>1. h \in [0..(n+1) -> A] /\ h[0] = zero /\ \A i \in 1..(n+1) : h[i] = step[<<i, h[i-1]>>]
    BY <1>6 DEF RunOf
  <2>2. \A i \in 1..(n+1) : i - 1 \in 0..(n+1)
    BY <1>1
  <2>3. \A i \in 1..(n+1) : h[i-1] \in A
    BY <2>1, <2>2
  <2>. QED BY <1>4, <2>1, <2>3
<1>8. ASSUME NEW g, NEW s \in SUBSET S
      PROVE  SumStep(S, f, g)[s] = IF s = {} THEN 0 ELSE f[c(s)] + g[s \ {c(s)}]
  BY DEF SumStep
<1> DEFINE T == {k \in 0..n : \A s \in SUBSET S : Cardinality(s) <= k => h[k+1][s] = h[k][s]}
<1>9. 0 \in T
  <2>1. ASSUME NEW s \in SUBSET S, Cardinality(s) <= 0 PROVE h[1][s] = h[0][s]
    <3>1. s = {}
      BY <1>2, <2>1, FS_EmptySet
    <3>2. h[1] = SumStep(S, f, h[0])
      BY <1>1, <1>7
    <3>3. h[1][s] = 0
      BY <1>8, <3>1, <3>2
    <3>4. h[0][s] = 0
      BY <1>7 DEF zero
    <3>. QED BY <3>3, <3>4
  <2>. QED BY <1>1, <2>1
<1>10. ASSUME NEW k \in 1..n, k - 1 \in T PROVE k \in T
  <2>1. ASSUME NEW s \in SUBSET S, Cardinality(s) <= k PROVE h[k+1][s] = h[k][s]
    <3>1. h[k+1] = SumStep(S, f, h[k]) /\ h[k] = SumStep(S, f, h[k-1])
      <4>1. k + 1 \in 1..(n+1) /\ (k + 1) - 1 = k /\ k \in 1..(n+1)
        BY <1>1
      <4>. QED BY <1>7, <4>1
    <3>4. /\ h[k+1][s] = IF s = {} THEN 0 ELSE f[c(s)] + h[k][s \ {c(s)}]
          /\ h[k][s] = IF s = {} THEN 0 ELSE f[c(s)] + h[k-1][s \ {c(s)}]
      <4>. HIDE DEF c
      <4>1. /\ SumStep(S, f, h[k])[s] = IF s = {} THEN 0 ELSE f[c(s)] + h[k][s \ {c(s)}]
            /\ SumStep(S, f, h[k-1])[s] = IF s = {} THEN 0 ELSE f[c(s)] + h[k-1][s \ {c(s)}]
        BY <1>8, Zenon
      <4>. QED BY <3>1, <4>1, Zenon
    <3>2. CASE s = {}
      BY <3>4, <3>2
    <3>3. CASE s # {}
      <4>1. c(s) \in s /\ Cardinality(s \ {c(s)}) <= k - 1 /\ s \ {c(s)} \in SUBSET S
        BY <1>2, <2>1, <3>3, OneLess
      <4>2. (k - 1) + 1 = k
        OBVIOUS
      <4>. HIDE DEF c
      <4>3. h[k][s \ {c(s)}] = h[k-1][s \ {c(s)}]
        BY <1>10, <4>1, <4>2
      <4>. QED BY <3>4, <3>3, <4>3
    <3>. QED BY <3>2, <3>3
  <2>. QED BY <2>1
<1>11. n \in T
  <2>. HIDE DEF T
  <2>1. \A k \in 1..n : k - 1 \in T => k \in T
    BY <1>10
  <2>2. \A k \in 0..n : k \in T
    BY <1>1, <1>9, <2>1, Counting
  <2>. QED BY <1>1, <2>2
<1>12. h[n] = h[n+1]
  <2>1. \A s \in SUBSET S : h[n+1][s] = h[n][s]
    <3>1. \A s \in SUBSET S : Cardinality(s) <= n => h[n+1][s] = h[n][s]
      BY <1>11, Zenon
    <3>. QED BY <1>2, <3>1, Zenon
  <2>2. h[n] \in A /\ h[n+1] \in A
    BY <1>1, <1>7
  <2>. QED BY <2>1, <2>2 DEF A
<1>13. h[n+1] = SumStep(S, f, h[n])
  BY <1>1, <1>7
<1>. QED BY <1>12, <1>13

\* A sum of finitely many amounts is an amount.
LEMMA SumType ==
  ASSUME NEW S, IsFiniteSet(S), NEW f \in [S -> Nat]
  PROVE  SumOf(f) \in Nat
<1> DEFINE iter == CHOOSE g : g = SumStep(S, f, g)
           n == Cardinality(S)
           c(s) == CHOOSE y \in s : TRUE
<1>1. SumOf(f) = iter[S]
  <2>1. DOMAIN f = S
    OBVIOUS
  <2>. QED BY <2>1 DEF SumOf, FoldFunction, FoldFunctionOnSet, MapThenFoldSet, SumStep
<1>2. iter = SumStep(S, f, iter)
  BY SumsExist
<1>. HIDE DEF iter
<1>3. ASSUME NEW s \in SUBSET S
      PROVE  /\ iter[s] = IF s = {} THEN 0 ELSE f[c(s)] + iter[s \ {c(s)}]
             /\ IsFiniteSet(s) /\ Cardinality(s) \in Nat /\ Cardinality(s) <= n
  <2>1. IsFiniteSet(s) /\ Cardinality(s) <= n
    BY FS_Subset
  <2>2. ASSUME NEW g
        PROVE  SumStep(S, f, g)[s] = IF s = {} THEN 0 ELSE f[c(s)] + g[s \ {c(s)}]
    BY DEF SumStep
  <2>. HIDE DEF c
  <2>3. iter[s] = IF s = {} THEN 0 ELSE f[c(s)] + iter[s \ {c(s)}]
    BY <1>2, <2>2, Zenon
  <2>. QED BY <2>1, <2>3, FS_CardinalityType
<1>4. n \in Nat
  BY FS_CardinalityType
<1>. HIDE DEF n
<1> DEFINE T == {k \in 0..n : \A s \in SUBSET S : Cardinality(s) <= k => iter[s] \in Nat}
<1>5. 0 \in T
  <2>1. ASSUME NEW s \in SUBSET S, Cardinality(s) <= 0 PROVE iter[s] \in Nat
    <3>1. s = {}
      BY <1>3, <2>1, FS_EmptySet
    <3>2. iter[s] = 0
      BY <1>3, <3>1, Zenon
    <3>. QED BY <3>2
  <2>. QED BY <1>4, <2>1
<1>6. ASSUME NEW k \in 1..n, k - 1 \in T PROVE k \in T
  <2>1. ASSUME NEW s \in SUBSET S, Cardinality(s) <= k PROVE iter[s] \in Nat
    <3>1. CASE s = {}
      BY <1>3, <3>1
    <3>2. CASE s # {}
      <4>1. c(s) \in s /\ Cardinality(s \ {c(s)}) <= k - 1 /\ s \ {c(s)} \in SUBSET S
        BY <1>3, <2>1, <3>2, OneLess
      <4>2. iter[s] = f[c(s)] + iter[s \ {c(s)}]
        BY <1>3, <3>2
      <4>. HIDE DEF c
      <4>3. iter[s \ {c(s)}] \in Nat /\ f[c(s)] \in Nat
        BY <1>6, <4>1
      <4>. QED BY <4>2, <4>3
    <3>. QED BY <3>1, <3>2
  <2>. QED BY <2>1
<1>7. n \in T
  <2>. HIDE DEF T
  <2>1. \A k \in 1..n : k - 1 \in T => k \in T
    BY <1>6
  <2>2. \A k \in 0..n : k \in T
    BY <1>4, <1>5, <2>1, Counting
  <2>. QED BY <1>4, <2>2
<1>8. iter[S] \in Nat
  <2>1. S \in SUBSET S
    OBVIOUS
  <2>. QED BY <1>3, <1>7, <2>1
<1>. QED BY <1>1, <1>8

\* The lower of ten and a natural number.
LEMMA MinTen ==
  ASSUME NEW x \in Nat
  PROVE  Min({10, x}) \in Nat
BY MinInSet

\* The rank of a set of resources is a number.
LEMMA RankType ==
  ASSUME NEW res, IsMap(res, ResourceId, Resource), NEW S \in SUBSET (DOMAIN res)
  PROVE  Rank(S, res) \in Nat
<1> DEFINE of(classes) == {r \in S : res[r].class \in classes}
           C == of({"COMPUTE", "ACCELERATOR", "HOST_MEMORY"})
           H == {r \in of({"COMPUTE", "ACCELERATOR", "STORAGE"}) : res[r].capacity > 0}
           G == {r \in S : res[r].health = "HEALTHY"}
           N == {res[r].node : r \in S}
           amounts == [r \in C |-> res[r].capacity]
<1>1. IsFiniteSet(S)
  <2>1. S \subseteq ResourceId
    BY DEF IsMap
  <2>. QED BY <2>1, PlannerAssumption, FS_Subset
<1>2. C \subseteq S /\ H \subseteq S /\ G \subseteq S
  OBVIOUS
<1>3. IsFiniteSet(C) /\ IsFiniteSet(H) /\ IsFiniteSet(G)
  <2>. HIDE DEF C, H, G
  <2>. QED BY <1>1, <1>2, FS_Subset
<1>4. IsFiniteSet(N)
  <2> DEFINE g == [r \in S |-> res[r].node]
  <2>1. g \in Surjection(S, N)
    BY DEF Surjection
  <2>. HIDE DEF g, N
  <2>. QED BY <1>1, <2>1, FS_Surjection
<1>5. SumOf(amounts) \in Nat
  <2>1. \A r \in C : res[r].capacity \in Nat
    BY <1>2 DEF IsMap, Resource
  <2>. HIDE DEF C
  <2>2. amounts \in [C -> Nat]
    BY <2>1
  <2>. HIDE DEF amounts
  <2>. QED BY <1>3, <2>2, SumType
<1>6. /\ Cardinality(G) \in Nat /\ Cardinality(N) \in Nat /\ Cardinality(H) \in Nat
  <2>. HIDE DEF G, N, H
  <2>. QED BY <1>3, <1>4, FS_CardinalityType
<1>7. Rank(S, res) = 100 * Cardinality(G) + Min({10, SumOf(amounts)})
                       + 10 * Cardinality(N) + Min({10, Cardinality(H)})
  BY DEF Rank
<1>. HIDE DEF G, N, H, amounts
<1>8. Min({10, SumOf(amounts)}) \in Nat /\ Min({10, Cardinality(H)}) \in Nat
  BY <1>5, <1>6, MinTen
<1>. QED BY <1>6, <1>7, <1>8

-----------------------------------------------------------------------------
(* The loop over the combinations.                                         *)

\* The links of the registry a backend answers for.
Answered(res, answers) == DOMAIN answers \cap LinksOf(DOMAIN res, res)

\* The path records when some of the links have been asked for.
Seen(paths, answers, E) == Override(paths, Restrict(answers, E))

\* What the search carries.
BestRecord(res, paths, answers) ==
  [found : BOOLEAN, rank : Nat, members : SUBSET (DOMAIN res),
   paths : {Seen(paths, answers, E) : E \in SUBSET Answered(res, answers)}]

\* A function of what it maps.
IsRecordMap(f) == f = [x \in DOMAIN f |-> f[x]]

\* Asking twice is asking for both.
LEMMA SeenAgain ==
  ASSUME NEW paths, IsRecordMap(paths), NEW answers, NEW E, NEW F
  PROVE  /\ Override(Seen(paths, answers, E), Restrict(answers, F))
              = Seen(paths, answers, E \cup F)
         /\ Seen(paths, answers, {}) = paths
<1>1. Seen(paths, answers, {}) = paths
  BY DEF Seen, Override, Restrict, IsRecordMap
<1> DEFINE a == Override(Seen(paths, answers, E), Restrict(answers, F))
           b == Seen(paths, answers, E \cup F)
<1>2. /\ DOMAIN a = (DOMAIN paths \cup E) \cup F /\ DOMAIN b = DOMAIN paths \cup (E \cup F)
      /\ a = [x \in DOMAIN a |-> a[x]] /\ b = [x \in DOMAIN b |-> b[x]]
  BY DEF Seen, Override, Restrict
<1>3. \A x \in DOMAIN paths \cup E \cup F :
        a[x] = b[x]
  BY DEF Seen, Override, Restrict
<1>. HIDE DEF a, b
<1>4. a = b
  BY <1>2, <1>3
<1>. QED BY <1>1, <1>4 DEF a, b

\* A larger set needs at least the same links.
LEMMA LinksGrow ==
  ASSUME NEW res, NEW T, NEW S \in SUBSET T
  PROVE  LinksOf(S, res) \subseteq LinksOf(T, res)
BY DEF LinksOf, Edges

\* What the search carries for no set, and for a set it takes.
LEMMA RecordForms ==
  ASSUME NEW res, NEW paths, NEW answers
  PROVE  /\ \A b \in BestRecord(res, paths, answers) :
              /\ b.found \in BOOLEAN /\ b.rank \in Nat /\ b.members \subseteq DOMAIN res
              /\ \E E \in SUBSET Answered(res, answers) : b.paths = Seen(paths, answers, E)
         /\ \A n \in Nat, S \in SUBSET (DOMAIN res), E \in SUBSET Answered(res, answers), t \in BOOLEAN :
              [found |-> t, rank |-> n, members |-> S, paths |-> Seen(paths, answers, E)]
                \in BestRecord(res, paths, answers)
BY DEF BestRecord

\* One pass of the loop keeps or replaces the best record.
LEMMA ConsiderType ==
  ASSUME NEW req, NEW res, IsMap(res, ResourceId, Resource), NEW paths, IsRecordMap(paths),
         NEW answers, NEW b \in BestRecord(res, paths, answers), NEW S \in SUBSET (DOMAIN res)
  PROVE  Consider(req, S, res, answers, b) \in BestRecord(res, paths, answers)
<1> DEFINE F == DOMAIN answers \cap LinksOf(S, res)
<1>1. PICK E \in SUBSET Answered(res, answers) : b.paths = Seen(paths, answers, E)
  BY RecordForms
<1>2. E \cup F \in SUBSET Answered(res, answers)
  BY LinksGrow DEF Answered
<1>3. Override(b.paths, Restrict(answers, F)) = Seen(paths, answers, E \cup F)
  <2>. HIDE DEF F
  <2>. QED BY <1>1, SeenAgain
<1>4. Rank(S, res) \in Nat
  BY RankType
<1>. HIDE DEF F
<1>5. [found |-> TRUE, rank |-> Rank(S, res), members |-> S,
       paths |-> Override(b.paths, Restrict(answers, F))] \in BestRecord(res, paths, answers)
  BY <1>2, <1>3, <1>4, RecordForms
<1>. QED BY <1>5 DEF Consider, F

\* The search has a record after every combination.
LEMMA SearchSteps ==
  ASSUME NEW req, NEW res, IsMap(res, ResourceId, Resource), NEW paths, IsRecordMap(paths),
         NEW answers, NEW combos \in Seq(SUBSET (DOMAIN res))
  PROVE  LET f == Search(req, combos, res, paths, answers)
             n == Len(combos)
         IN /\ f[0] = NoneYet(paths)
            /\ \A i \in 1..n : f[i] = Consider(req, combos[i], res, answers, f[i-1])
            /\ \A i \in 0..n : f[i] \in BestRecord(res, paths, answers)
<1> DEFINE n == Len(combos)
           A == BestRecord(res, paths, answers)
           a == NoneYet(paths)
           con(i, b) == Consider(req, combos[i], res, answers, b)
           step == [p \in (1..n) \X A |-> con(p[1], p[2])]
<1>0. n \in Nat /\ \A i \in 1..n : combos[i] \in SUBSET (DOMAIN res)
  OBVIOUS
<1>1. a \in A
  <2>1. paths = Seen(paths, answers, {}) /\ {} \in SUBSET Answered(res, answers)
    BY SeenAgain
  <2>. QED BY <2>1, RecordForms DEF NoneYet
<1>2. \A i \in 1..n, b \in A : con(i, b) \in A
  BY <1>0, ConsiderType
<1>. HIDE DEF n, A, a, con
<1>3. \A i \in 1..n, b \in A : step[<<i, b>>] = con(i, b) /\ step[<<i, b>>] \in A
  <2>1. \A i \in 1..n, b \in A : <<i, b>> \in (1..n) \X A
    OBVIOUS
  <2>. QED BY <1>2, <2>1
<1>. HIDE DEF step
<1>4. PICK f : RunOf(f, step, n, A, a)
  <2>1. Keeps(step, n, A)
    BY <1>3 DEF Keeps
  <2>. QED BY <1>0, <1>1, <2>1, Recursion
<1>5. f \in [0..n -> A] /\ f[0] = a /\ \A i \in 1..n : f[i] = con(i, f[i-1])
  <2>1. f \in [0..n -> A] /\ f[0] = a /\ \A i \in 1..n : f[i] = step[<<i, f[i-1]>>]
    BY <1>4 DEF RunOf
  <2>2. \A i \in 1..n : i - 1 \in 0..n
    BY <1>0
  <2>3. \A i \in 1..n : f[i-1] \in A
    BY <2>1, <2>2
  <2>. QED BY <1>3, <2>1, <2>3
<1> DEFINE val(g, i) == IF i = 0 THEN a ELSE con(i, g[i - 1])
           Def(g) == [i \in 0..n |-> val(g, i)]
<1>6. f = Def(f)
  <2>1. \A i \in 0..n : i = 0 \/ i \in 1..n
    BY <1>0
  <2>2. \A i \in 0..n : f[i] = val(f, i)
    BY <1>5, <2>1
  <2>. HIDE DEF val
  <2>. QED BY <1>5, <2>2
<1> DEFINE h == Search(req, combos, res, paths, answers)
<1>7. h = CHOOSE g : g = Def(g)
  BY DEF Search, n, a, con
<1>8. ASSUME NEW g, NEW d, d = Def(g)
      PROVE  d[0] = a /\ \A i \in 1..n : d[i] = con(i, g[i-1])
  <2>1. 0 \in 0..n /\ \A i \in 1..n : i \in 0..n /\ i # 0
    BY <1>0
  <2>2. \A i \in 0..n : d[i] = val(g, i)
    <3>. HIDE DEF val
    <3>. QED BY <1>8
  <2>. QED BY <2>1, <2>2
<1>. HIDE DEF Def
<1>9. h[0] = a /\ \A i \in 1..n : h[i] = con(i, h[i-1])
  <2>1. h = Def(h)
    BY <1>6, <1>7
  <2>. HIDE DEF h
  <2>. QED BY <1>8, <2>1
<1>. HIDE DEF h
<1>10. \A i \in 0..n : h[i] \in A
  <2> DEFINE T == {i \in 0..n : h[i] \in A}
  <2>1. 0 \in T
    BY <1>0, <1>1, <1>9
  <2>2. ASSUME NEW i \in 1..n, i - 1 \in T PROVE i \in T
    BY <1>2, <1>9, <2>2
  <2>. HIDE DEF T
  <2>3. \A i \in 0..n : i \in T
    BY <1>0, <2>1, <2>2, Counting
  <2>. QED BY <2>3 DEF T
<1>. QED BY <1>9, <1>10 DEF h, A, a, con, n

\* The backends answer what the engine holds.
UpToDate(paths, answers) ==
  \A l \in DOMAIN answers : l \in DOMAIN paths /\ paths[l] = answers[l]

\* Answers that are what is held change nothing.
LEMMA UpToDateSeen ==
  ASSUME NEW paths, IsRecordMap(paths), NEW answers, UpToDate(paths, answers),
         NEW E \in SUBSET (DOMAIN answers)
  PROVE  Override(paths, Restrict(answers, E)) = paths
<1> DEFINE o == Override(paths, Restrict(answers, E))
<1>1. o = [x \in DOMAIN o |-> o[x]] /\ DOMAIN o = DOMAIN paths \cup E
  BY DEF Override, Restrict
<1>2. DOMAIN paths \cup E = DOMAIN paths
  BY DEF UpToDate
<1>3. \A x \in DOMAIN paths : o[x] = paths[x]
  BY DEF UpToDate, Override, Restrict
<1>. HIDE DEF o
<1>4. o = paths
  BY <1>1, <1>2, <1>3 DEF IsRecordMap
<1>. QED BY <1>4 DEF o

\* The set was feasible when it was taken, with some links asked for before, and
\* then its own links were asked for.
TakenSoundly(req, res, paths, answers, b) ==
  \E E \in SUBSET Answered(res, answers) :
    /\ Feasible(req, b.members, res, Seen(paths, answers, E))
    /\ b.paths = Override(Seen(paths, answers, E),
                          Restrict(answers, DOMAIN answers \cap LinksOf(b.members, res)))

\* What the search has established after i combinations.
SearchedTo(req, res, paths, answers, combos, i, b) ==
  /\ b.found => /\ \E j \in 1..i : b.members = combos[j]
                /\ b.rank = Rank(b.members, res)
                /\ TakenSoundly(req, res, paths, answers, b)
                /\ \E j \in 1..i : Feasible(req, combos[j], res, paths)
  /\ ~ b.found => /\ b.paths = paths
                  /\ \A j \in 1..i : ~ Feasible(req, combos[j], res, paths)
  /\ UpToDate(paths, answers) =>
       /\ b.paths = paths
       /\ \A j \in 1..i : Feasible(req, combos[j], res, paths) => Rank(combos[j], res) <= b.rank

\* A pass of the search keeps what it has established.
LEMMA SearchStep ==
  ASSUME NEW req, NEW res, IsMap(res, ResourceId, Resource), NEW paths, IsRecordMap(paths),
         NEW answers, NEW combos \in Seq(SUBSET (DOMAIN res)), NEW i \in 1..Len(combos),
         NEW b \in BestRecord(res, paths, answers),
         SearchedTo(req, res, paths, answers, combos, i - 1, b)
  PROVE  SearchedTo(req, res, paths, answers, combos, i,
                    Consider(req, combos[i], res, answers, b))
<1> DEFINE S == combos[i]
           takes == Feasible(req, S, res, b.paths) /\ (b.found => Rank(S, res) > b.rank)
           F == DOMAIN answers \cap LinksOf(S, res)
           new == [found |-> TRUE, rank |-> Rank(S, res), members |-> S,
                   paths |-> Override(b.paths, Restrict(answers, F))]
<1>1. Consider(req, S, res, answers, b) = IF takes THEN new ELSE b
  BY DEF Consider
<1>2. /\ new.found = TRUE /\ new.rank = Rank(S, res) /\ new.members = S
      /\ new.paths = Override(b.paths, Restrict(answers, F))
  OBVIOUS
<1>3. S \in SUBSET (DOMAIN res) /\ Rank(S, res) \in Nat
  BY RankType
<1>4. b.found \in BOOLEAN /\ b.rank \in Nat
  BY RecordForms
<1>5. PICK E \in SUBSET Answered(res, answers) : b.paths = Seen(paths, answers, E)
  BY RecordForms
<1>6. /\ i \in 1..i /\ \A j \in 1..(i-1) : j \in 1..i
      /\ \A j \in 1..i : j = i \/ j \in 1..(i-1)
  OBVIOUS
<1>7. \A j \in 1..i : combos[j] \in SUBSET (DOMAIN res) /\ Rank(combos[j], res) \in Nat
  BY RankType
<1>. HIDE DEF new, takes, F
<1>8. CASE takes
  <2>1. TakenSoundly(req, res, paths, answers, new)
    BY <1>2, <1>5, <1>8 DEF TakenSoundly, takes, F
  <2>2. \E j \in 1..i : Feasible(req, combos[j], res, paths)
    <3>1. CASE b.found
      BY <1>6, <3>1 DEF SearchedTo
    <3>2. CASE ~ b.found
      BY <1>6, <1>8, <3>2 DEF SearchedTo, takes
    <3>. QED BY <3>1, <3>2
  <2>3. ASSUME UpToDate(paths, answers)
        PROVE  /\ new.paths = paths
               /\ \A j \in 1..i : Feasible(req, combos[j], res, paths)
                    => Rank(combos[j], res) <= new.rank
    <3>1. b.paths = paths
      BY <2>3 DEF SearchedTo
    <3>2. new.paths = paths
      BY <1>2, <2>3, <3>1, UpToDateSeen DEF F
    <3>3. ASSUME NEW j \in 1..i, Feasible(req, combos[j], res, paths)
          PROVE  Rank(combos[j], res) <= Rank(S, res)
      <4>1. CASE j = i
        BY <1>3, <4>1
      <4>2. CASE j # i
        <5>1. j \in 1..(i-1)
          BY <1>6, <4>2
        <5>2. b.found /\ Rank(combos[j], res) <= b.rank
          BY <2>3, <3>3, <5>1 DEF SearchedTo
        <5>3. Rank(S, res) > b.rank
          BY <1>8, <5>2 DEF takes
        <5>. QED BY <1>3, <1>4, <1>7, <5>2, <5>3
      <4>. QED BY <4>1, <4>2
    <3>. QED BY <1>2, <3>2, <3>3
  <2>4. \E j \in 1..i : new.members = combos[j]
    BY <1>2, <1>6
  <2>5. SearchedTo(req, res, paths, answers, combos, i, new)
    BY <1>2, <2>1, <2>2, <2>3, <2>4 DEF SearchedTo
  <2>. QED BY <1>1, <1>8, <2>5
<1>9. CASE ~ takes
  <2>1. ASSUME b.found
        PROVE  /\ \E j \in 1..i : b.members = combos[j]
               /\ b.rank = Rank(b.members, res)
               /\ TakenSoundly(req, res, paths, answers, b)
               /\ \E j \in 1..i : Feasible(req, combos[j], res, paths)
    BY <1>6, <2>1 DEF SearchedTo
  <2>2. ASSUME ~ b.found
        PROVE  b.paths = paths /\ \A j \in 1..i : ~ Feasible(req, combos[j], res, paths)
    <3>1. b.paths = paths /\ \A j \in 1..(i-1) : ~ Feasible(req, combos[j], res, paths)
      BY <2>2 DEF SearchedTo
    <3>2. ~ Feasible(req, S, res, paths)
      BY <1>9, <2>2, <3>1 DEF takes
    <3>. QED BY <1>6, <3>1, <3>2
  <2>3. ASSUME UpToDate(paths, answers)
        PROVE  /\ b.paths = paths
               /\ \A j \in 1..i : Feasible(req, combos[j], res, paths)
                    => Rank(combos[j], res) <= b.rank
    <3>1. b.paths = paths /\ \A j \in 1..(i-1) : Feasible(req, combos[j], res, paths)
                                => Rank(combos[j], res) <= b.rank
      BY <2>3 DEF SearchedTo
    <3>2. Feasible(req, S, res, paths) => Rank(S, res) <= b.rank
      BY <1>3, <1>4, <1>9, <3>1 DEF takes
    <3>. QED BY <1>6, <3>1, <3>2
  <2>4. SearchedTo(req, res, paths, answers, combos, i, b)
    BY <2>1, <2>2, <2>3 DEF SearchedTo
  <2>. QED BY <1>1, <1>9, <2>4
<1>. QED BY <1>8, <1>9

\* What the whole search establishes.
LEMMA SearchResult ==
  ASSUME NEW req, NEW res, IsMap(res, ResourceId, Resource), NEW paths, IsRecordMap(paths),
         NEW answers, NEW combos \in Seq(SUBSET (DOMAIN res))
  PROVE  LET b == Search(req, combos, res, paths, answers)[Len(combos)]
         IN /\ b \in BestRecord(res, paths, answers)
            /\ SearchedTo(req, res, paths, answers, combos, Len(combos), b)
<1> DEFINE n == Len(combos)
           f == Search(req, combos, res, paths, answers)
           T == {i \in 0..n : SearchedTo(req, res, paths, answers, combos, i, f[i])}
<1>1. n \in Nat
  OBVIOUS
<1>2. /\ f[0] = NoneYet(paths)
      /\ \A i \in 1..n : f[i] = Consider(req, combos[i], res, answers, f[i-1])
      /\ \A i \in 0..n : f[i] \in BestRecord(res, paths, answers)
  BY SearchSteps
<1>. HIDE DEF f
<1>3. 0 \in T
  <2>1. SearchedTo(req, res, paths, answers, combos, 0, f[0])
    BY <1>2 DEF SearchedTo, NoneYet
  <2>. QED BY <1>1, <2>1
<1>4. ASSUME NEW i \in 1..n, i - 1 \in T PROVE i \in T
  <2>1. i - 1 \in 0..n /\ i \in 0..n
    BY <1>1
  <2>2. SearchedTo(req, res, paths, answers, combos, i, f[i])
    BY <1>2, <1>4, <2>1, SearchStep
  <2>. QED BY <2>1, <2>2
<1>. HIDE DEF T
<1>5. \A i \in 0..n : i \in T
  <2>. HIDE DEF n
  <2>. QED BY <1>1, <1>3, <1>4, Counting
<1>6. n \in 0..n
  BY <1>1
<1>7. f[n] \in BestRecord(res, paths, answers) /\ SearchedTo(req, res, paths, answers, combos, n, f[n])
  BY <1>2, <1>5, <1>6 DEF T
<1>. QED BY <1>7 DEF f

\* The list of combinations is what was built for the last class.
LEMMA CombosBuilt ==
  ASSUME NEW req \in CompositionRequest, NEW res, IsMap(res, ResourceId, Resource)
  PROVE  /\ Combos(req, res) \in Seq(SUBSET (DOMAIN res))
         /\ MandatoryClasses(req) = {} => Combos(req, res) = <<>>
         /\ MandatoryClasses(req) # {} => Combos(req, res) = Combined(req, res)[6]
         /\ \A S \in Range(Combos(req, res)) :
              MandatoryClasses(req) # {} /\ Built(req, res, 6, S)
<1>1. Len(DemandOrder) = 6 /\ 6 \in 0..6
  BY ServedOrder
<1>2. Combos(req, res) = IF MandatoryClasses(req) = {} THEN <<>> ELSE Combined(req, res)[6]
  BY <1>1 DEF Combos
<1>3. Combined(req, res)[6] \in Seq(SUBSET (DOMAIN res))
  BY <1>1, CombinedSteps
<1>4. \A S \in Range(Combined(req, res)[6]) : Built(req, res, 6, S)
  BY <1>1, CombinedSound
<1>5. Range(<<>>) = {}
  BY DEF Range
<1>6. CASE MandatoryClasses(req) = {}
  BY <1>2, <1>5, <1>6
<1>7. CASE MandatoryClasses(req) # {}
  BY <1>2, <1>3, <1>4, <1>7
<1>. QED BY <1>6, <1>7

-----------------------------------------------------------------------------
(* The search finds the candidates.                                        *)

\* Selections of a class, by their size.
LEMMA SelectionForm ==
  ASSUME NEW req, NEW k, NEW items, NEW res, NEW S
  PROVE  S \in Selections(req, k, items, res) <=>
           S \subseteq items /\ RightSize(req, k, S) /\ MeetsDemand(req, k, S, res)
BY DEF Selections, RightSize

\* A candidate, by its parts.
LEMMA CandidateForm ==
  ASSUME NEW req, NEW res, NEW paths, NEW S
  PROVE  S \in Candidates(req, res, paths) <=>
           /\ S \subseteq DOMAIN res /\ MandatoryClasses(req) # {}
           /\ \A r \in S : res[r].class \in MandatoryClasses(req)
           /\ \A k \in MandatoryClasses(req) :
                Part(S, k, res) \in Selections(req, k, Eligible(req, k, res), res)
           /\ ValidateGraph(req, S, res, paths)
           /\ ValidateFailureDomains(req, S, res)
           /\ req.coherence => \A r \in S : res[r].coherent
<1>1. \A k : Part(S, k, res) = {r \in S : res[r].class = k}
  BY DEF Part
<1>2. \A k : Eligible(req, k, res) =
               {r \in DOMAIN res : res[r].class = k /\ ResourceEligible(res[r], req)}
  BY DEF Eligible
<1>. QED BY <1>1, <1>2 DEF Candidates

\* A built set that is feasible is a candidate, and has a member.
LEMMA BuiltCandidate ==
  ASSUME NEW req \in CompositionRequest, NEW res, IsMap(res, ResourceId, Resource),
         NEW paths, NEW S, MandatoryClasses(req) # {}, Built(req, res, 6, S),
         Feasible(req, S, res, paths)
  PROVE  S \in Candidates(req, res, paths) /\ S # {}
<1>1. Served(req, 6) = MandatoryClasses(req) /\ MandatoryClasses(req) \subseteq DemandClasses
  BY ServedStep DEF MandatoryClasses
<1>2. ASSUME NEW k \in MandatoryClasses(req)
      PROVE  /\ Part(S, k, res) \in Selections(req, k, Eligible(req, k, res), res)
             /\ RightSize(req, k, Part(S, k, res))
  <2>1. Part(S, k, res) \in Range(EnumerateSelections(req, k, res)) /\ k \in DemandClasses
    BY <1>1, <1>2 DEF Built
  <2>2. Part(S, k, res) \subseteq Eligible(req, k, res) /\ RightSize(req, k, Part(S, k, res))
    BY <2>1, PicksShape
  <2>3. MeetsDemand(req, k, Part(S, k, res), res)
    BY <1>2 DEF Feasible, Part
  <2>. QED BY <2>2, <2>3, SelectionForm
<1>3. S \subseteq DOMAIN res /\ \A r \in S : res[r].class \in MandatoryClasses(req)
  BY <1>1 DEF Built
<1>4. S \in Candidates(req, res, paths)
  BY <1>2, <1>3, CandidateForm DEF Feasible
<1>5. S # {}
  <2>1. PICK k \in MandatoryClasses(req) : TRUE
    OBVIOUS
  <2>2. RightSize(req, k, Part(S, k, res)) /\ req.demand[k] \in Nat
    BY <1>1, <1>2 DEF CompositionRequest
  <2>3. Cardinality(Part(S, k, res)) # 0
    BY <2>2 DEF RightSize, Wanted
  <2>. QED BY <2>3, FS_EmptySet DEF Part
<1>. QED BY <1>4, <1>5

\* A candidate is feasible.
LEMMA CandidateFeasible ==
  ASSUME NEW req \in CompositionRequest, NEW res, NEW paths, NEW S \in Candidates(req, res, paths)
  PROVE  Feasible(req, S, res, paths)
<1>1. \A k \in MandatoryClasses(req) : MeetsDemand(req, k, Part(S, k, res), res)
  BY CandidateForm, SelectionForm
<1>2. \A k : Part(S, k, res) = {r \in S : res[r].class = k}
  BY DEF Part
<1>. QED BY <1>1, <1>2, CandidateForm DEF Feasible

\* What the planner returns was a candidate when it was taken.
LEMMA BestSound ==
  ASSUME NEW req \in CompositionRequest, NEW res, IsMap(res, ResourceId, Resource),
         NEW paths, IsRecordMap(paths), NEW answers,
         Best(req, res, paths, answers).found
  PROVE  LET best == Best(req, res, paths, answers)
         IN /\ best.members # {}
            /\ \E E \in SUBSET Answered(res, answers) :
                 /\ best.members \in Candidates(req, res, Seen(paths, answers, E))
                 /\ best.paths = Override(Seen(paths, answers, E),
                      Restrict(answers, DOMAIN answers \cap LinksOf(best.members, res)))
            /\ UpToDate(paths, answers) => best.members \in Candidates(req, res, paths)
<1> DEFINE combos == Combos(req, res)
           n == Len(combos)
           best == Best(req, res, paths, answers)
<1>1. combos \in Seq(SUBSET (DOMAIN res))
  BY CombosBuilt
<1>2. \A S \in Range(combos) : MandatoryClasses(req) # {} /\ Built(req, res, 6, S)
  BY CombosBuilt
<1>3. best = Search(req, combos, res, paths, answers)[n]
  BY DEF Best
<1>. HIDE DEF combos, best
<1>4. SearchedTo(req, res, paths, answers, combos, n, best)
  BY <1>1, <1>3, SearchResult
<1>5. best.found
  BY DEF best
<1>6. best.members \in Range(combos)
  <2>1. DOMAIN combos = 1..n
    BY <1>1
  <2>. QED BY <1>4, <1>5, <2>1 DEF SearchedTo, Range
<1>7. PICK E \in SUBSET Answered(res, answers) :
        /\ Feasible(req, best.members, res, Seen(paths, answers, E))
        /\ best.paths = Override(Seen(paths, answers, E),
                          Restrict(answers, DOMAIN answers \cap LinksOf(best.members, res)))
  BY <1>4, <1>5 DEF SearchedTo, TakenSoundly
<1>8. best.members \in Candidates(req, res, Seen(paths, answers, E)) /\ best.members # {}
  BY <1>2, <1>6, <1>7, BuiltCandidate
<1>9. UpToDate(paths, answers) => Seen(paths, answers, E) = paths
  BY UpToDateSeen DEF Seen, Answered
<1>. QED BY <1>7, <1>8, <1>9 DEF best

\* When no cap is reached every candidate is among the combinations.
LEMMA CandidateCombined ==
  ASSUME NEW req \in CompositionRequest, NEW res, IsMap(res, ResourceId, Resource),
         NEW paths, ~ Capped(req, res), NEW S \in Candidates(req, res, paths)
  PROVE  S \in Range(Combos(req, res))
<1> DEFINE M == MandatoryClasses(req)
<1>1. /\ S \subseteq DOMAIN res /\ M # {} /\ \A r \in S : res[r].class \in M
      /\ \A k \in M : Part(S, k, res) \in Selections(req, k, Eligible(req, k, res), res)
  BY CandidateForm
<1>2. M \subseteq DemandClasses
  BY DEF MandatoryClasses
<1>3. \A k \in M : Part(S, k, res) \in Range(EnumerateSelections(req, k, res))
  <2>1. ASSUME NEW k \in M
        PROVE  Part(S, k, res) \in Range(EnumerateSelections(req, k, res))
    <3>1. /\ ~ (Cardinality(Eligible(req, k, res)) > TopCandidates)
          /\ ~ (Len(Selectable(req, k, res)) > PickCap)
      BY DEF Capped
    <3>2. Selections(req, k, Eligible(req, k, res), res) \subseteq
            Range(EnumerateSelections(req, k, res))
      BY <1>2, <3>1, PicksComplete
    <3>. QED BY <1>1, <3>2
  <2>. QED BY <2>1
<1>4. \A k \in M : EnumerateSelections(req, k, res) # <<>>
  BY <1>3 DEF Range
<1>5. Uncut(req, res)
  <2>1. ASSUME NEW i \in 1..6, DemandOrder[i] \in M
        PROVE  Len(Combined(req, res)[i-1])
                 * Len(EnumerateSelections(req, DemandOrder[i], res)) <= ComboCap
    <3> DEFINE c == Combined(req, res)[i-1]
               p == EnumerateSelections(req, DemandOrder[i], res)
    <3>1. i \in DOMAIN DemandOrder /\ DemandOrder[i] \in DemandClasses /\ i - 1 \in 0..6
      BY ServedOrder
    <3>2. ~ (Len(c) * Len(p) > ComboCap)
      BY <1>4, <2>1, <3>1 DEF Capped
    <3>3. c \in Seq(SUBSET (DOMAIN res)) /\ p \in Seq(SUBSET (DOMAIN res))
      BY <3>1, CombinedSteps, PicksType
    <3>. HIDE DEF c, p
    <3>4. Len(c) * Len(p) \in Nat /\ ComboCap \in Nat
      BY <3>3, PlannerAssumption
    <3>5. Len(c) * Len(p) <= ComboCap
      BY <3>2, <3>4
    <3>. QED BY <3>5 DEF c, p
  <2>. QED BY <2>1 DEF Uncut
<1>6. Built(req, res, 6, S)
  BY <1>1, <1>3, ServedStep DEF Built
<1>7. S \in Range(Combined(req, res)[6])
  BY <1>5, <1>6, CombinedComplete
<1>. QED BY <1>1, <1>7, CombosBuilt

\* ComposeDeterministic rejects only what no set of one selection per demanded class
\* is feasible for, and returns one of the highest rank among these sets, unless a
\* cap was reached.
LEMMA PlannerFindsTheBest ==
  ASSUME NEW req \in CompositionRequest, NEW res, IsMap(res, ResourceId, Resource),
         NEW paths, IsRecordMap(paths), NEW answers
  PROVE  FindsTheBest(req, res, paths, answers)
<1> DEFINE combos == Combos(req, res)
           n == Len(combos)
           best == Best(req, res, paths, answers)
           candidates == Candidates(req, res, paths)
<1>1. combos \in Seq(SUBSET (DOMAIN res))
  BY CombosBuilt
<1>2. best = Search(req, combos, res, paths, answers)[n]
  BY DEF Best
<1>3. \A S \in Range(combos) : MandatoryClasses(req) # {} /\ Built(req, res, 6, S)
  BY CombosBuilt
<1>4. ~ Capped(req, res) => \A S \in candidates : S \in Range(combos)
  BY CandidateCombined
<1>5. \A S \in candidates : Feasible(req, S, res, paths)
  BY CandidateFeasible
<1>6. best.found => best.members # {} /\ (UpToDate(paths, answers) => best.members \in candidates)
  BY BestSound
<1>7. \A S \in Range(combos) : Feasible(req, S, res, paths) => S \in candidates
  BY <1>3, BuiltCandidate
<1>. HIDE DEF combos, best, candidates
<1>8. /\ best.found \in BOOLEAN
      /\ SearchedTo(req, res, paths, answers, combos, n, best)
  BY <1>1, <1>2, SearchResult, RecordForms
<1>9. \A S : S \in Range(combos) <=> \E j \in 1..n : S = combos[j]
  BY <1>1 DEF Range
<1>10. ASSUME ~ Capped(req, res) PROVE best.found <=> candidates # {}
  <2>1. ASSUME best.found PROVE candidates # {}
    BY <1>7, <1>8, <1>9, <2>1 DEF SearchedTo
  <2>2. ASSUME ~ best.found, NEW S \in candidates PROVE FALSE
    <3>1. PICK j \in 1..n : S = combos[j]
      BY <1>4, <1>9, <1>10, <2>2
    <3>. QED BY <1>5, <1>8, <2>2, <3>1 DEF SearchedTo
  <2>. QED BY <1>8, <2>1, <2>2
<1>11. ASSUME ~ Capped(req, res), UpToDate(paths, answers), NEW S \in candidates
       PROVE  Rank(S, res) <= best.rank
  <2>1. PICK j \in 1..n : S = combos[j]
    BY <1>4, <1>9, <1>11
  <2>. QED BY <1>5, <1>8, <1>11, <2>1 DEF SearchedTo
<1>. QED BY <1>6, <1>10, <1>11 DEF FindsTheBest, best, candidates, UpToDate
============================================================================
