---------------------------- MODULE PartsProofs -----------------------------
(***************************************************************************)
(* The functions of their input that MCParts checks on short inputs are    *)
(* right on inputs of any length: the check digit of an order number       *)
(* (Luhn), the rounded rows of the ledger (Money), the start's             *)
(* configuration (Config), the answer through the compressing and logging  *)
(* writers (Transport) and the stored password (Password).                 *)
(*                                                                         *)
(* The loops are folds of the community modules.  The first lemmas are     *)
(* about such a fold: that its recursive definition defines a function     *)
(* (FoldExists), and that on a sequence it goes element by element from    *)
(* either end (FoldInOrder).  The induction is over the numbers of which a *)
(* claim holds, as a set (AllNaturals).  With them each loop becomes a     *)
(* sequence of its states, and its invariant is a claim about each.        *)
(***************************************************************************)
EXTENDS MCParts, WellFoundedInduction, FiniteSetTheorems, SequenceTheorems, TLAPS

\* Induction on natural numbers, by the set of those of which a claim holds.
LEMMA AllNaturals ==
  ASSUME NEW T, 0 \in T, \A k \in Nat : k \in T => k + 1 \in T
  PROVE  Nat \subseteq T
<1> DEFINE Violating == Nat \ T
<1>1. SUFFICES ASSUME Violating # {} PROVE FALSE
  OBVIOUS
<1>2. PICK k \in Violating : \A j \in Violating : <<j, k>> \notin OpToRel(<, Nat)
  <2> HIDE DEF Violating
  <2>1. Violating \subseteq Nat
    BY DEF Violating
  <2> QED
    BY <1>1, <2>1, WFMin, NatLessThanWellFounded
<1>3. k # 0 /\ k - 1 \in Nat
  OBVIOUS
<1>4. <<k - 1, k>> \in OpToRel(<, Nat)
  BY <1>3 DEF OpToRel
<1>5. k - 1 \in T
  BY <1>2, <1>3, <1>4
<1> QED
  BY <1>3, <1>5

\* first takes an element out of each part of D.
Picks(D, first) == \A s \in SUBSET D : s # {} => first[s] \in s

\* g is the fold of step over all parts of D.
Folded(D, first, base, step, g, s) ==
  g[s] = IF s = {} THEN base ELSE step[<<first[s], g[s \ {first[s]}]>>]

\* A finite set has one element more than what is left when one is taken out.
LEMMA OneLess ==
  ASSUME NEW s, IsFiniteSet(s), NEW x \in s
  PROVE  Cardinality(s \ {x}) = Cardinality(s) - 1 /\ Cardinality(s) \in Nat
<1>1. Cardinality(s) \in Nat
  BY FS_CardinalityType
<1>2. Cardinality(s \ {x}) = IF x \in s THEN Cardinality(s) - 1 ELSE Cardinality(s)
  BY FS_RemoveElement, Zenon
<1> QED
  BY <1>1, <1>2

\* A fold has a value on every part of a finite set, if its step stays in a set.
LEMMA FoldExists ==
  ASSUME NEW D, IsFiniteSet(D), NEW first, Picks(D, first),
         NEW L, NEW base \in L, NEW step,
         \A x \in D, y \in L : step[<<x, y>>] \in L
  PROVE  \E g \in [SUBSET D -> L] :
           \A s \in SUBSET D : Folded(D, first, base, step, g, s)
<1> DEFINE Upto(k) == {s \in SUBSET D : Cardinality(s) <= k}
           T == {k \in Nat : \E g \in [SUBSET D -> L] :
                   \A s \in Upto(k) : Folded(D, first, base, step, g, s)}
<1>1. 0 \in T
  <2> DEFINE g == [s \in SUBSET D |-> base]
  <2>1. g \in [SUBSET D -> L]
    OBVIOUS
  <2>2. ASSUME NEW s \in Upto(0) PROVE Folded(D, first, base, step, g, s)
    <3>1. IsFiniteSet(s)
      BY FS_Subset
    <3>2. Cardinality(s) <= 0
      OBVIOUS
    <3>3. s = {}
      <4> HIDE DEF T, g, Upto
      <4> QED
        BY <3>1, <3>2, FS_EmptySet, FS_CardinalityType
    <3> QED
      BY <3>3 DEF Folded
  <2> QED
    <3> HIDE DEF g, Upto
    <3> QED
      BY <2>1, <2>2
<1>2. ASSUME NEW k \in Nat, k \in T PROVE k + 1 \in T
  <2>1. PICK g \in [SUBSET D -> L] :
          \A s \in Upto(k) : Folded(D, first, base, step, g, s)
    BY <1>2
  <2> DEFINE h == [s \in SUBSET D |-> IF s = {} THEN base
                                      ELSE step[<<first[s], g[s \ {first[s]}]>>]]
  <2>2. h \in [SUBSET D -> L]
    <3> SUFFICES ASSUME NEW s \in SUBSET D PROVE h[s] \in L
      OBVIOUS
    <3>1. CASE s = {}
      BY <3>1
    <3>2. CASE s # {}
      <4>1. first[s] \in D /\ s \ {first[s]} \in SUBSET D
        BY <3>2 DEF Picks
      <4>2. g[s \ {first[s]}] \in L
        BY <4>1
      <4> QED
        BY <3>2, <4>1, <4>2
    <3> QED
      BY <3>1, <3>2
  <2>3. ASSUME NEW s \in Upto(k + 1) PROVE Folded(D, first, base, step, h, s)
    <3>1. CASE s = {}
      BY <3>1 DEF Folded
    <3>2. CASE s # {}
      <4> DEFINE t == s \ {first[s]}
      <4>1. first[s] \in s /\ IsFiniteSet(s)
        <5>1. s \in SUBSET D
          OBVIOUS
        <5>2. IsFiniteSet(s)
          BY <5>1, FS_Subset
        <5> QED
          BY <3>2, <5>1, <5>2 DEF Picks
      <4>2. Cardinality(t) = Cardinality(s) - 1 /\ Cardinality(s) \in Nat
        BY <4>1, OneLess
      <4>3. t \in Upto(k)
        <5>1. Cardinality(s) <= k + 1 /\ t \in SUBSET D
          OBVIOUS
        <5> HIDE DEF T, h, t
        <5> QED
          BY <4>2, <5>1
      <4>4. Folded(D, first, base, step, g, t)
        BY <2>1, <4>3
      <4>5. h[t] = g[t]
        BY <4>4 DEF Folded
      <4>6. h[s] = step[<<first[s], g[t]>>]
        BY <3>2
      <4> HIDE DEF h
      <4> QED
        BY <3>2, <4>5, <4>6 DEF Folded
    <3> QED
      BY <3>1, <3>2
  <2> QED
    <3> HIDE DEF h, Upto
    <3> QED
      BY <2>2, <2>3
<1>3. Cardinality(D) \in T
  <2> HIDE DEF T
  <2> QED
    BY <1>1, <1>2, AllNaturals, FS_CardinalityType
<1>4. ASSUME NEW s \in SUBSET D PROVE s \in Upto(Cardinality(D))
  BY FS_Subset
<1> QED
  BY <1>3, <1>4

\* The least and the greatest number of a set.
LEMMA MinIsLeast ==
  ASSUME NEW n \in Nat, NEW s \in SUBSET (1 .. n), s # {}
  PROVE  Min(s) \in s /\ \A y \in s : Min(s) <= y
<1>1. PICK x \in s : \A y \in s : <<y, x>> \notin OpToRel(<, Nat)
  <2>1. s \subseteq Nat
    OBVIOUS
  <2> QED
    BY <2>1, WFMin, NatLessThanWellFounded
<1>2. ASSUME NEW y \in s
      PROVE  x <= y
  <2>1. ~(y < x)
    <3>1. y \in Nat /\ x \in Nat
      OBVIOUS
    <3>2. y < x => <<y, x>> \in OpToRel(<, Nat)
      BY <3>1 DEF OpToRel
    <3> QED
      BY <1>1, <3>2
  <2> QED
    BY <2>1
<1> QED
  BY <1>2 DEF Min

\* The greatest is the least of the numbers counted from the other end.
LEMMA MaxIsGreatest ==
  ASSUME NEW n \in Nat, NEW s \in SUBSET (1 .. n), s # {}
  PROVE  Max(s) \in s /\ \A y \in s : Max(s) >= y
<1> DEFINE t == {n + 1 - y : y \in s}
<1>1. t \in SUBSET (1 .. n) /\ t # {}
  <2>1. \A y \in s : n + 1 - y \in 1 .. n
    OBVIOUS
  <2>2. \E y \in s : TRUE
    OBVIOUS
  <2> QED
    BY <2>1, <2>2, Zenon
<1>2. Min(t) \in t /\ \A z \in t : Min(t) <= z
  <2> HIDE DEF t
  <2> QED
    BY <1>1, MinIsLeast
<1>3. PICK x \in s : Min(t) = n + 1 - x
  BY <1>2
<1>4. \A y \in s : x >= y
  BY <1>2, <1>3
<1> QED
  BY <1>4 DEF Max

\* The least and the greatest index of a part of a sequence.
Least(n) == [s \in SUBSET (1 .. n) |-> Min(s)]
Greatest(n) == [s \in SUBSET (1 .. n) |-> Max(s)]

\* g is a fold that takes out first[s] of the indices s.
InOrder(n, first, L, base, step, g) ==
  /\ g \in [SUBSET (1 .. n) -> L]
  /\ g[{}] = base
  /\ \A s \in SUBSET (1 .. n) : s # {} =>
       /\ first[s] \in 1 .. n
       /\ g[s \ {first[s]}] \in L
       /\ g[s] = step[<<first[s], g[s \ {first[s]}]>>]

\* There is a fold of a sequence of n elements from either end, if its step stays
\* in a set.
LEMMA FoldInOrder ==
  ASSUME NEW n \in Nat, NEW first \in {Least(n), Greatest(n)},
         NEW L, NEW base \in L, NEW step,
         \A i \in 1 .. n, y \in L : step[<<i, y>>] \in L
  PROVE  \E g : InOrder(n, first, L, base, step, g)
<1> DEFINE D == 1 .. n
<1>1. IsFiniteSet(D)
  BY FS_Interval
<1>2. Picks(D, first)
  <2>1. Picks(D, Least(n))
    BY MinIsLeast DEF Picks, Least
  <2>2. Picks(D, Greatest(n))
    BY MaxIsGreatest DEF Picks, Greatest
  <2> QED
    BY <2>1, <2>2
<1>3. PICK g \in [SUBSET D -> L] :
        \A s \in SUBSET D : Folded(D, first, base, step, g, s)
  <2> HIDE DEF D
  <2>1. \A i \in D, y \in L : step[<<i, y>>] \in L
    BY DEF D
  <2> QED
    BY <1>1, <1>2, <2>1, FoldExists, Zenon
<1>4. g[{}] = base
  BY <1>3 DEF Folded
<1>5. ASSUME NEW s \in SUBSET D, s # {}
      PROVE  /\ first[s] \in D
             /\ g[s \ {first[s]}] \in L
             /\ g[s] = step[<<first[s], g[s \ {first[s]}]>>]
  <2>1. first[s] \in D /\ s \ {first[s]} \in SUBSET D
    BY <1>2, <1>5 DEF Picks
  <2> HIDE DEF D
  <2> QED
    BY <1>3, <1>5, <2>1 DEF Folded
<1> QED
  BY <1>4, <1>5 DEF InOrder

\* What the first of the last indices is, and what remains of them.
LEMMA LastIndices ==
  ASSUME NEW n \in Nat, NEW i \in 1 .. n
  PROVE  /\ i .. n \in SUBSET (1 .. n) /\ i .. n # {}
         /\ Min(i .. n) = i
         /\ (i .. n) \ {i} = (i + 1) .. n
<1>1. i .. n \in SUBSET (1 .. n) /\ i \in i .. n
  OBVIOUS
<1>2. i .. n # {}
  BY <1>1
<1>3. Min(i .. n) \in i .. n /\ Min(i .. n) <= i
  BY <1>1, <1>2, MinIsLeast
<1>4. (i .. n) \ {i} = (i + 1) .. n
  OBVIOUS
<1> QED
  BY <1>1, <1>2, <1>3, <1>4

\* What the last of the first indices is, and what remains of them.
LEMMA FirstIndices ==
  ASSUME NEW n \in Nat, NEW i \in 1 .. n
  PROVE  /\ 1 .. i \in SUBSET (1 .. n) /\ 1 .. i # {}
         /\ Max(1 .. i) = i
         /\ (1 .. i) \ {i} = 1 .. (i - 1)
<1>1. 1 .. i \in SUBSET (1 .. n) /\ i \in 1 .. i
  OBVIOUS
<1>2. 1 .. i # {}
  BY <1>1
<1>3. Max(1 .. i) \in 1 .. i /\ Max(1 .. i) >= i
  BY <1>1, <1>2, MaxIsGreatest
<1>4. (1 .. i) \ {i} = 1 .. (i - 1)
  OBVIOUS
<1> QED
  BY <1>1, <1>2, <1>3, <1>4

-----------------------------------------------------------------------------
(* The number *)

FirstTurn == [sum |-> 0, doubleDigit |-> FALSE]
Loops == [sum : Int, doubleDigit : BOOLEAN]

\* What the loop has after the bytes of s.
Turn(number, g, s) ==
  IF s = {} THEN FirstTurn ELSE Iteration(number[Min(s)], g[s \ {Min(s)}])

\* The loop of luhn.go, turn by turn: loop[i] is after the byte i.
LEMMA LoopByTurns ==
  ASSUME NEW n \in Nat, NEW number \in [1 .. n -> Int]
  PROVE  \E loop : /\ loop[n + 1] = FirstTurn
                   /\ \A i \in 1 .. n : loop[i] = Iteration(number[i], loop[i + 1])
                   /\ LuhnSum(number) = loop[1].sum
<1> DEFINE D == 1 .. n
           IsFold(g) == g = [s \in SUBSET D |-> Turn(number, g, s)]
           c == CHOOSE g : IsFold(g)
<1>1. LuhnSum(number) = c[D].sum
  <2>1. DOMAIN number = D
    OBVIOUS
  <2> QED
    BY <2>1 DEF LuhnSum, FoldRight, MapThenFoldSet, Turn, FirstTurn
<1>2. \E g : IsFold(g)
  <2> DEFINE step == [p \in D \X Loops |-> Iteration(number[p[1]], p[2])]
  <2>1. FirstTurn \in Loops
    BY DEF FirstTurn, Loops
  <2>2. ASSUME NEW i \in D, NEW y \in Loops
        PROVE  /\ step[<<i, y>>] = Iteration(number[i], y)
               /\ Iteration(number[i], y) \in Loops
    BY DEF Iteration, Loops, Doubled, Zero
  <2>3. \A i \in D, y \in Loops : step[<<i, y>>] \in Loops
    BY <2>2
  <2> HIDE DEF step
  <2>4. PICK g : InOrder(n, Least(n), Loops, FirstTurn, step, g)
    BY <2>1, <2>3, FoldInOrder, Zenon
  <2>5. ASSUME NEW s \in SUBSET D PROVE g[s] = Turn(number, g, s)
    BY <2>2, <2>4 DEF Turn, InOrder, Least
  <2>6. g \in [SUBSET D -> Loops]
    BY <2>4 DEF InOrder
  <2> QED
    BY <2>5, <2>6
<1>3. ASSUME NEW s \in SUBSET D PROVE c[s] = Turn(number, c, s)
  <2>1. IsFold(c)
    BY <1>2
  <2> HIDE DEF c
  <2> QED
    BY <2>1
<1> HIDE DEF c
<1> DEFINE loop == [i \in 1 .. n + 1 |-> c[i .. n]]
<1>4. loop[n + 1] = FirstTurn
  <2>1. (n + 1) .. n = {}
    OBVIOUS
  <2>2. loop[n + 1] = c[{}]
    BY <2>1
  <2> HIDE DEF loop
  <2> QED
    BY <1>3, <2>2 DEF Turn
<1>5. ASSUME NEW i \in 1 .. n PROVE loop[i] = Iteration(number[i], loop[i + 1])
  <2>1. c[i .. n] = Turn(number, c, i .. n)
    BY <1>3, LastIndices
  <2>2. Turn(number, c, i .. n) = Iteration(number[i], c[(i + 1) .. n])
    BY LastIndices DEF Turn
  <2>3. loop[i] = c[i .. n] /\ loop[i + 1] = c[(i + 1) .. n]
    OBVIOUS
  <2> HIDE DEF loop
  <2> QED
    BY <2>1, <2>2, <2>3
<1>6. LuhnSum(number) = loop[1].sum
  BY <1>1
<1> HIDE DEF loop
<1> QED
  BY <1>4, <1>5, <1>6

\* A sum of n integers, term by term: total[i] is that of the last ones from i.
LEMMA TotalByTerms ==
  ASSUME NEW n \in Nat, NEW w \in [1 .. n -> Int]
  PROVE  \E total :
           /\ total[n + 1] = 0
           /\ \A i \in 1 .. n : total[i] = w[i] + total[i + 1]
           /\ SumOf(w) = total[1]
<1> DEFINE D == 1 .. n
           Sum(g, s) == IF s = {} THEN 0 ELSE w[Min(s)] + g[s \ {Min(s)}]
           IsFold(g) == g = [s \in SUBSET D |-> Sum(g, s)]
           c == CHOOSE g : IsFold(g)
<1>1. SumOf(w) = c[D]
  <2>1. DOMAIN w = D
    OBVIOUS
  <2> QED
    BY <2>1 DEF SumOf, FoldRight, MapThenFoldSet
<1>2. \E g : IsFold(g)
  <2> DEFINE step == [p \in D \X Int |-> w[p[1]] + p[2]]
  <2>1. ASSUME NEW i \in D, NEW y \in Int
        PROVE  step[<<i, y>>] = w[i] + y /\ w[i] + y \in Int
    OBVIOUS
  <2>2. \A i \in D, y \in Int : step[<<i, y>>] \in Int
    BY <2>1
  <2> HIDE DEF step
  <2>3. PICK g : InOrder(n, Least(n), Int, 0, step, g)
    <3>1. 0 \in Int
      OBVIOUS
    <3> QED
      BY <2>2, <3>1, FoldInOrder, Zenon
  <2>4. ASSUME NEW s \in SUBSET D PROVE g[s] = Sum(g, s)
    BY <2>1, <2>3 DEF InOrder, Least
  <2>5. g \in [SUBSET D -> Int]
    BY <2>3 DEF InOrder
  <2> QED
    BY <2>4, <2>5
<1>3. ASSUME NEW s \in SUBSET D PROVE c[s] = Sum(c, s)
  <2>1. IsFold(c)
    BY <1>2
  <2> HIDE DEF c
  <2> QED
    BY <2>1
<1> HIDE DEF c
<1> DEFINE total == [i \in 1 .. n + 1 |-> c[i .. n]]
<1>4. total[n + 1] = 0
  <2>1. (n + 1) .. n = {}
    OBVIOUS
  <2>2. total[n + 1] = c[{}]
    BY <2>1
  <2> HIDE DEF total
  <2> QED
    BY <1>3, <2>2
<1>5. ASSUME NEW i \in 1 .. n PROVE total[i] = w[i] + total[i + 1]
  <2>1. c[i .. n] = Sum(c, i .. n)
    BY <1>3, LastIndices
  <2>2. Sum(c, i .. n) = w[i] + c[(i + 1) .. n]
    BY LastIndices
  <2>3. total[i] = c[i .. n] /\ total[i + 1] = c[(i + 1) .. n]
    OBVIOUS
  <2> HIDE DEF total, Sum
  <2> QED
    BY <2>1, <2>2, <2>3
<1>6. SumOf(w) = total[1]
  BY <1>1
<1> HIDE DEF total
<1> QED
  BY <1>4, <1>5, <1>6

\* What a digit comes with when it is doubled: the digits of the double, added.
LEMMA DoubledIsDigitSum ==
  ASSUME NEW d \in 0 .. 9
  PROVE  /\ Doubled(d) = ((2 * d) \div 10) + ((2 * d) % 10)
         /\ Doubled(d) \in Nat
         /\ Doubled(d) > 0 <=> d # 0
BY DEF Doubled

\* The loop's sum is that of the last digit and of the weights of the others, and
\* it is positive if a digit is.
LEMMA LoopIsTotal ==
  ASSUME NEW n \in Nat \ {0}, NEW number \in [1 .. n -> Zero .. Nine],
         NEW payload, payload = [i \in 1 .. n - 1 |-> number[i]]
  PROVE  /\ Weights(payload) \in Nat
         /\ LuhnSum(number) = Weights(payload) + (number[n] - Zero)
         /\ LuhnSum(number) > 0 <=> \E i \in 1 .. n : number[i] # Zero
<1> DEFINE w == [i \in 1 .. n - 1 |-> Weight(payload, i)]
           last == number[n] - Zero
<1>1. ASSUME NEW i \in 1 .. n
      PROVE  number[i] - Zero \in 0 .. 9 /\ number[i] \in Int
  BY DEF Zero, Nine
<1>2. Len(payload) = n - 1 /\ DOMAIN payload = 1 .. n - 1
  <2>1. payload \in [1 .. n - 1 -> Zero .. Nine] /\ n - 1 \in Nat
    OBVIOUS
  <2> QED
    BY <2>1
<1>3. ASSUME NEW i \in 1 .. n - 1
      PROVE  w[i] = IF (n - 1 - i) % 2 = 0 THEN Doubled(number[i] - Zero)
                                           ELSE number[i] - Zero
  <2> DEFINE d == number[i] - Zero
  <2>1. payload[i] - Zero = d /\ d \in 0 .. 9
    BY <1>1
  <2>2. Weight(payload, i) = IF (n - 1 - i) % 2 = 0
                               THEN ((2 * d) \div 10) + ((2 * d) % 10) ELSE d
    BY <1>2, <2>1 DEF Weight
  <2>3. Doubled(d) = ((2 * d) \div 10) + ((2 * d) % 10)
    <3> HIDE DEF d
    <3> QED
      BY <2>1, DoubledIsDigitSum
  <2> HIDE DEF d
  <2>4. w[i] = IF (n - 1 - i) % 2 = 0 THEN Doubled(d) ELSE d
    BY <2>2, <2>3
  <2> QED
    BY <2>4 DEF d
<1>4. w \in [1 .. n - 1 -> Int]
  <2> SUFFICES ASSUME NEW i \in 1 .. n - 1 PROVE w[i] \in Int
    OBVIOUS
  <2> DEFINE d == number[i] - Zero
  <2>1. d \in 0 .. 9
    BY <1>1
  <2> HIDE DEF d
  <2>2. Doubled(d) \in Int /\ d \in Int
    <3>1. Doubled(d) \in Nat
      BY <2>1, DoubledIsDigitSum
    <3> QED
      BY <2>1, <3>1
  <2>3. w[i] \in {Doubled(d), d}
    <3> HIDE DEF w
    <3> QED
      BY <1>3 DEF d
  <2> QED
    BY <2>2, <2>3
<1>5. Weights(payload) = SumOf(w)
  BY <1>2 DEF Weights
<1> HIDE DEF w
<1>6. PICK loop :
        /\ loop[n + 1] = FirstTurn
        /\ \A i \in 1 .. n : loop[i] = Iteration(number[i], loop[i + 1])
        /\ LuhnSum(number) = loop[1].sum
  <2>1. number \in [1 .. n -> Int] /\ n \in Nat
    BY <1>1
  <2> QED
    BY <2>1, LoopByTurns
<1>7. PICK total :
        /\ total[n] = 0
        /\ \A i \in 1 .. n - 1 : total[i] = w[i] + total[i + 1]
        /\ Weights(payload) = total[1]
  <2>1. n - 1 \in Nat /\ (n - 1) + 1 = n
    OBVIOUS
  <2>2. \E total : /\ total[(n - 1) + 1] = 0
                   /\ \A i \in 1 .. n - 1 : total[i] = w[i] + total[i + 1]
                   /\ SumOf(w) = total[1]
    BY <1>4, <2>1, TotalByTerms, Zenon
  <2> QED
    BY <1>5, <2>1, <2>2
<1> DEFINE Claim(i) ==
             /\ total[i] \in Nat
             /\ loop[i] = [sum |-> total[i] + last, doubleDigit |-> (n - i) % 2 = 0]
             /\ total[i] + last > 0 <=> \E j \in i .. n : number[j] # Zero
           T == {k \in Nat : k < n => Claim(n - k)}
<1>8. Claim(n)
  <2>1. loop[n] = Iteration(number[n], FirstTurn)
    BY <1>6
  <2>2. loop[n] = [sum |-> last, doubleDigit |-> TRUE]
    <3>1. last \in Int
      BY <1>1
    <3>2. loop[n] = [sum |-> 0 + last, doubleDigit |-> TRUE]
      BY <2>1 DEF Iteration, FirstTurn
    <3>3. 0 + last = last
      BY <3>1
    <3> HIDE DEF last
    <3> QED
      BY <3>2, <3>3, Zenon
  <2>3. last \in 0 .. 9 /\ (last > 0 <=> \E j \in n .. n : number[j] # Zero)
    BY <1>1 DEF Zero
  <2>4. ((n - n) % 2 = 0) = TRUE
    OBVIOUS
  <2>5. total[n] \in Nat /\ total[n] + last = last
    BY <1>7, <2>3
  <2>6. loop[n] = [sum |-> total[n] + last, doubleDigit |-> (n - n) % 2 = 0]
    BY <2>2, <2>4, <2>5, Zenon
  <2> HIDE DEF last
  <2>7. total[n] + last > 0 <=> \E j \in n .. n : number[j] # Zero
    BY <2>3, <2>5, Zenon
  <2> QED
    BY <2>5, <2>6, <2>7, Zenon
<1>9. ASSUME NEW i \in 1 .. n - 1, Claim(i + 1)
      PROVE  Claim(i)
  <2> DEFINE d == number[i] - Zero
             double == (n - (i + 1)) % 2 = 0
  <2>1. i \in 1 .. n /\ d \in 0 .. 9 /\ last \in 0 .. 9
    BY <1>1
  <2>2. w[i] = IF double THEN Doubled(d) ELSE d
    <3>1. n - (i + 1) = n - 1 - i
      OBVIOUS
    <3> QED
      BY <1>3, <3>1
  <2>3. w[i] \in Nat /\ (w[i] > 0 <=> d # 0)
    <3> HIDE DEF d
    <3>1. Doubled(d) \in Nat /\ (Doubled(d) > 0 <=> d # 0)
      BY <2>1, DoubledIsDigitSum
    <3> QED
      BY <2>1, <2>2, <3>1
  <2>4. total[i] = w[i] + total[i + 1] /\ total[i] \in Nat
    <3>1. total[i + 1] \in Nat
      BY <1>9
    <3> HIDE DEF w, last, Claim
    <3>2. total[i] = w[i] + total[i + 1]
      BY <1>7
    <3> QED
      BY <2>3, <3>1, <3>2
  <2>5. loop[i] = [sum |-> (total[i + 1] + last) + w[i], doubleDigit |-> ~double]
    <3>1. loop[i] = Iteration(number[i], loop[i + 1])
      BY <1>6, <2>1
    <3>2. loop[i + 1] = [sum |-> total[i + 1] + last, doubleDigit |-> double]
      BY <1>9
    <3> HIDE DEF double, last
    <3> QED
      BY <2>2, <3>1, <3>2 DEF Iteration
  <2>6. (total[i + 1] + last) + w[i] = total[i] + last
    <3>1. total[i + 1] \in Nat
      BY <1>9
    <3>2. last \in Int /\ w[i] \in Int
      BY <2>1, <2>3
    <3> HIDE DEF Claim, last, d, w
    <3>3. (total[i + 1] + last) + w[i] = (w[i] + total[i + 1]) + last
      BY <3>1, <3>2
    <3> QED
      BY <2>4, <3>3, Zenon
  <2>7. (~double) = ((n - i) % 2 = 0)
    OBVIOUS
  <2>8. total[i] + last > 0 <=> \E j \in i .. n : number[j] # Zero
    <3>1. total[i] + last > 0 <=> (total[i + 1] + last > 0 \/ d # 0)
      <4>1. total[i + 1] \in Nat
        BY <1>9
      <4> DEFINE rest == total[i + 1]
                 one == w[i]
      <4>2. total[i] = one + rest /\ rest \in Nat /\ one \in Nat
        BY <2>3, <2>4, <4>1
      <4>3. one > 0 <=> d # 0
        BY <2>3
      <4> HIDE DEF Claim, last, d, rest, one
      <4>4. one + rest + last > 0 <=> (rest + last > 0 \/ one > 0)
        BY <2>1, <4>2
      <4> QED
        BY <4>2, <4>3, <4>4 DEF rest
    <3>2. d # 0 <=> number[i] # Zero
      BY <2>1 DEF Zero
    <3>3. i .. n = {i} \cup ((i + 1) .. n)
      OBVIOUS
    <3> HIDE DEF d, last
    <3> QED
      BY <1>9, <3>1, <3>2, <3>3
  <2> HIDE DEF last, double
  <2> QED
    BY <2>4, <2>5, <2>6, <2>7, <2>8
<1>10. 0 \in T
  <2> HIDE DEF Claim
  <2> QED
    BY <1>8
<1>11. ASSUME NEW k \in Nat, k \in T PROVE k + 1 \in T
  <2>1. SUFFICES ASSUME k + 1 < n PROVE Claim(n - (k + 1))
    OBVIOUS
  <2>2. Claim(n - k) /\ n - (k + 1) \in 1 .. n - 1 /\ (n - (k + 1)) + 1 = n - k
    <3> HIDE DEF Claim
    <3> QED
      BY <1>11, <2>1
  <2>3. Claim((n - (k + 1)) + 1)
    <3> HIDE DEF Claim
    <3> QED
      BY <2>2
  <2> HIDE DEF Claim
  <2> QED
    BY <1>9, <2>2, <2>3
<1>12. Claim(1)
  <2> HIDE DEF T, Claim
  <2>1. Nat \subseteq T
    BY <1>10, <1>11, AllNaturals
  <2>2. n - 1 \in Nat /\ n - 1 < n /\ n - (n - 1) = 1
    OBVIOUS
  <2>3. Claim(n - (n - 1))
    BY <2>1, <2>2 DEF T
  <2> QED
    BY <2>2, <2>3
<1> QED
  BY <1>6, <1>7, <1>12

\* A digit makes a sum a multiple of ten if it is what the rest lacks of the next.
LEMMA ComesToTen ==
  ASSUME NEW total \in Nat, NEW digit \in 0 .. 9
  PROVE  (total + digit) % 10 = 0 <=> digit = (10 - (total % 10)) % 10
<1>1. total % 10 \in 0 .. 9
  OBVIOUS
<1>2. total \div 10 \in Nat /\ total = 10 * (total \div 10) + (total % 10)
  OBVIOUS
<1> DEFINE r == total % 10
           q == total \div 10
<1>3. r \in 0 .. 9 /\ q \in Nat /\ total = 10 * q + r
  BY <1>1, <1>2
<1>4. (10 * q + r + digit) % 10 = (r + digit) % 10
  <2> HIDE DEF r, q
  <2> QED
    BY <1>3
<1>5. (r + digit) % 10 = 0 <=> digit = (10 - r) % 10
  <2> HIDE DEF r, q
  <2> QED
    BY <1>3
<1> QED
  BY <1>3, <1>4, <1>5

\* The loop of ValidLuhnNumber accepts a text, of any length, exactly when it is
\* digits, not all zero, whose last one is the check digit of the others.
THEOREM CheckDigitIsWhatLuhnChecks ==
  ASSUME NEW number \in Seq(Int)
  PROVE  ValidLuhnNumber(number) <=>
           /\ WellFormed(number)
           /\ number[Len(number)] - Zero = CheckDigit(Front(number))
<1>1. CASE number = Empty \/ \E i \in DOMAIN number : ~IsDigit(number[i])
  BY <1>1 DEF ValidLuhnNumber, WellFormed
<1>2. CASE number # Empty /\ \A i \in DOMAIN number : IsDigit(number[i])
  <2> DEFINE n == Len(number)
             payload == Front(number)
             digit == number[n] - Zero
  <2>1. n \in Nat \ {0} /\ DOMAIN number = 1 .. n
    BY <1>2 DEF Empty
  <2>2. number \in [1 .. n -> Zero .. Nine]
    BY <1>2, <2>1 DEF IsDigit
  <2>3. payload = [i \in 1 .. n - 1 |-> number[i]]
    BY <2>1 DEF Front
  <2>4. digit \in 0 .. 9
    BY <2>1, <2>2 DEF Zero, Nine
  <2> HIDE DEF n, payload
  <2>5. /\ Weights(payload) \in Nat
        /\ LuhnSum(number) = Weights(payload) + digit
        /\ LuhnSum(number) > 0 <=> \E i \in 1 .. n : number[i] # Zero
    BY <2>1, <2>2, <2>3, LoopIsTotal
  <2> HIDE DEF digit
  <2>6. LuhnSum(number) % 10 = 0 <=> digit = CheckDigit(payload)
    <3> DEFINE rest == Weights(payload)
    <3>1. rest \in Nat
      BY <2>5
    <3> HIDE DEF rest
    <3>2. (rest + digit) % 10 = 0 <=> digit = (10 - (rest % 10)) % 10
      BY <2>4, <3>1, ComesToTen
    <3> QED
      BY <2>5, <3>2 DEF CheckDigit, rest
  <2>7. ValidLuhnNumber(number) <=> LuhnSum(number) > 0 /\ LuhnSum(number) % 10 = 0
    BY <1>2 DEF ValidLuhnNumber
  <2>8. WellFormed(number) <=> LuhnSum(number) > 0
    BY <1>2, <2>1, <2>5 DEF WellFormed
  <2> QED
    BY <2>6, <2>7, <2>8 DEF digit, n, payload
<1> QED
  BY <1>1, <1>2

\* A text is a sequence of bytes.
NumberInv == part = "number" => input \in Seq(Int)

\* So what the run checks up to a length holds of every text that can be typed.
THEOREM LuhnCorrect == Spec => []LoopIsCheckDigit
<1>1. Init => NumberInv
  BY DEF Init, NumberInv
<1>2. ASSUME NumberInv, [Next]_<<part, input>>
      PROVE  NumberInv'
  <2>1. CASE Type
    BY <1>2, <2>1 DEF Type, Grows, NumberInv, Zero, Nine, Space
  <2>2. CASE Book
    BY <2>2 DEF Book, Grows, NumberInv
  <2>3. CASE Configure
    BY <2>3 DEF Configure, Grows, NumberInv
  <2>4. CASE Answer
    BY <2>4 DEF Answer, Grows, NumberInv
  <2>5. CASE Store
    BY <2>5 DEF Store, Grows, NumberInv
  <2>6. CASE UNCHANGED <<part, input>>
    BY <1>2, <2>6 DEF NumberInv
  <2> QED
    BY <1>2, <2>1, <2>2, <2>3, <2>4, <2>5, <2>6 DEF Next
<1>3. NumberInv => LoopIsCheckDigit
  BY CheckDigitIsWhatLuhnChecks DEF NumberInv, LoopIsCheckDigit
<1> QED
  BY <1>1, <1>2, <1>3, PTL DEF Spec

-----------------------------------------------------------------------------
(* The ledger's numbers *)

\* The powers of two, as the number of parts of 1 .. e.
LEMMA PowersDouble ==
  ASSUME NEW e \in Nat
  PROVE  2 ^ e \in Nat /\ 2 ^ (e + 1) = 2 * 2 ^ e
<1> DEFINE S == SUBSET (1 .. e)
           T == {s \cup {e + 1} : s \in S}
<1>1. /\ IsFiniteSet(1 .. e) /\ Cardinality(1 .. e) = e
      /\ IsFiniteSet(1 .. e + 1) /\ Cardinality(1 .. e + 1) = e + 1
  <2>1. e + 1 \in Int /\ 1 \in Int /\ e \in Int
    OBVIOUS
  <2>2. IsFiniteSet(1 .. e) /\ Cardinality(1 .. e) = IF 1 > e THEN 0 ELSE e - 1 + 1
    BY <2>1, FS_Interval
  <2>3. /\ IsFiniteSet(1 .. e + 1)
        /\ Cardinality(1 .. e + 1) = IF 1 > e + 1 THEN 0 ELSE e + 1 - 1 + 1
    BY <2>1, FS_Interval
  <2> QED
    BY <2>2, <2>3
<1>2. IsFiniteSet(S) /\ Cardinality(S) = 2 ^ e
  BY <1>1, FS_SUBSET
<1>3. Cardinality(SUBSET (1 .. e + 1)) = 2 ^ (e + 1)
  BY <1>1, FS_SUBSET
<1>4. IsFiniteSet(T) /\ Cardinality(T) = Cardinality(S)
  <2> DEFINE f == [s \in S |-> s \cup {e + 1}]
  <2>1. f \in [S -> T]
    OBVIOUS
  <2>2. ASSUME NEW a \in S, NEW b \in S, f[a] = f[b] PROVE a = b
    <3>1. f[a] = a \cup {e + 1} /\ f[b] = b \cup {e + 1}
      OBVIOUS
    <3>2. e + 1 \notin a /\ e + 1 \notin b
      OBVIOUS
    <3> HIDE DEF f, S
    <3>3. a \cup {e + 1} = b \cup {e + 1}
      BY <2>2, <3>1
    <3> QED
      BY <3>2, <3>3
  <2>3. ASSUME NEW t \in T PROVE \E s \in S : f[s] = t
    OBVIOUS
  <2>4. f \in Bijection(S, T)
    <3> HIDE DEF f, S, T
    <3> QED
      BY <2>1, <2>2, <2>3 DEF Bijection, Injection, Surjection, IsInjective
  <2>5. ExistsBijection(S, T)
    BY <2>4 DEF ExistsBijection
  <2> HIDE DEF f, S, T
  <2> QED
    BY <1>2, <2>5, FS_Bijection
<1>5. S \cap T = {}
  OBVIOUS
<1>6. SUBSET (1 .. e + 1) = S \cup T
  <2>1. ASSUME NEW s \in SUBSET (1 .. e + 1) PROVE s \in S \cup T
    <3>1. CASE e + 1 \in s
      <4>1. s \ {e + 1} \in S /\ s = (s \ {e + 1}) \cup {e + 1}
        BY <3>1
      <4> QED
        BY <4>1
    <3>2. CASE e + 1 \notin s
      BY <3>2
    <3> QED
      BY <3>1, <3>2
  <2>2. ASSUME NEW s \in S
        PROVE  s \subseteq 1 .. e + 1 /\ s \cup {e + 1} \subseteq 1 .. e + 1
    OBVIOUS
  <2> QED
    <3>1. S \cup T \subseteq SUBSET (1 .. e + 1)
      BY <2>2, Zenon
    <3> HIDE DEF S, T
    <3> QED
      BY <2>1, <3>1, Zenon
<1> HIDE DEF S, T
<1>7. /\ Cardinality(S \cup T) = Cardinality(S) + Cardinality(T) - Cardinality(S \cap T)
      /\ Cardinality(S \cap T) = 0
      /\ Cardinality(S) \in Nat
  <2>1. Cardinality(S \cup T) = Cardinality(S) + Cardinality(T) - Cardinality(S \cap T)
    BY <1>2, <1>4, FS_Union
  <2>2. Cardinality(S \cap T) = 0
    BY <1>5, FS_EmptySet
  <2>3. Cardinality(S) \in Nat
    BY <1>2, FS_CardinalityType
  <2> QED
    BY <2>1, <2>2, <2>3
<1>8. Cardinality(S \cup T) = 2 * Cardinality(S)
  BY <1>4, <1>7
<1> QED
  BY <1>2, <1>3, <1>6, <1>7, <1>8

\* They are positive and grow.
LEMMA PowersGrow ==
  /\ \A e \in Nat : 2 ^ e \in Nat \ {0} /\ e < 2 ^ e /\ 2 ^ (e + 1) = 2 * 2 ^ e
  /\ \A a, b \in Nat : a <= b => 2 ^ a <= 2 ^ b
<1>1. \A e \in Nat : 2 ^ e \in Nat \ {0} /\ e < 2 ^ e
  <2> DEFINE T == {e \in Nat : e < 2 ^ e}
  <2>1. 0 \in T
    <3>1. 2 ^ 0 = 1
      OBVIOUS
    <3> QED
      BY <3>1
  <2>2. ASSUME NEW e \in Nat, e \in T PROVE e + 1 \in T
    <3>1. 2 ^ e \in Nat /\ 2 ^ (e + 1) = 2 * 2 ^ e
      BY PowersDouble
    <3>2. e < 2 ^ e
      BY <2>2
    <3>3. e + 1 < 2 ^ (e + 1)
      BY <3>1, <3>2
    <3> QED
      BY <3>3
  <2>3. Nat \subseteq T
    <3> HIDE DEF T
    <3> QED
      BY <2>1, <2>2, AllNaturals
  <2>4. ASSUME NEW e \in Nat PROVE 2 ^ e \in Nat \ {0} /\ e < 2 ^ e
    <3>1. 2 ^ e \in Nat
      BY PowersDouble
    <3>2. e < 2 ^ e
      BY <2>3
    <3> QED
      BY <3>1, <3>2
  <2> QED
    BY <2>4
<1>2. \A e \in Nat : 2 ^ (e + 1) = 2 * 2 ^ e
  BY PowersDouble
<1>3. ASSUME NEW a \in Nat, NEW b \in Nat, a <= b PROVE 2 ^ a <= 2 ^ b
  <2> DEFINE T == {k \in Nat : 2 ^ a <= 2 ^ (a + k)}
  <2>1. 0 \in T
    <3>1. a + 0 = a /\ 2 ^ a \in Nat
      BY <1>1
    <3> QED
      BY <3>1
  <2>2. ASSUME NEW k \in Nat, k \in T PROVE k + 1 \in T
    <3>1. /\ a + (k + 1) = (a + k) + 1 /\ a + k \in Nat
      OBVIOUS
    <3>2. /\ 2 ^ a \in Nat /\ 2 ^ (a + k) \in Nat
          /\ 2 ^ ((a + k) + 1) = 2 * 2 ^ (a + k)
      BY <1>1, <1>2, <3>1
    <3>3. 2 ^ a <= 2 ^ (a + k)
      BY <2>2
    <3>4. 2 ^ a <= 2 ^ ((a + k) + 1)
      BY <3>2, <3>3
    <3> QED
      BY <3>1, <3>4
  <2>3. Nat \subseteq T
    <3> HIDE DEF T
    <3> QED
      BY <2>1, <2>2, AllNaturals
  <2>4. b - a \in Nat /\ a + (b - a) = b
    BY <1>3
  <2>5. b - a \in T
    BY <2>3, <2>4
  <2> QED
    BY <2>4, <2>5
<1> QED
  BY <1>1, <1>2, <1>3

\* With each e the numbers below d * 2^e * 2^Bits double.
LEMMA ScaledDoubles ==
  ASSUME NEW d \in Nat \ {0}, NEW e \in Nat
  PROVE  /\ d * 2 ^ e * 2 ^ Bits \in Nat
         /\ 2 ^ e <= d * 2 ^ e * 2 ^ Bits
         /\ d * 2 ^ (e + 1) * 2 ^ Bits = 2 * (d * 2 ^ e * 2 ^ Bits)
<1> DEFINE u == 2 ^ e
           w == 2 ^ Bits
<1>1. u \in Nat \ {0} /\ w \in Nat \ {0} /\ 2 ^ (e + 1) = 2 * u
  BY PowersGrow, BitsAssumption
<1> HIDE DEF u, w
<1>2. d * u \in Nat /\ u <= d * u
  BY <1>1
<1>3. d * u * w \in Nat /\ d * u <= d * u * w
  <2> DEFINE v == d * u
  <2>1. v \in Nat
    BY <1>2
  <2> HIDE DEF v
  <2>2. v * w \in Nat /\ v <= v * w
    BY <1>1, <2>1
  <2> QED
    BY <2>2 DEF v
<1>4. d * (2 * u) * w = 2 * (d * u * w)
  BY <1>1
<1>5. u <= d * u * w
  BY <1>1, <1>2, <1>3
<1> QED
  BY <1>1, <1>3, <1>4, <1>5 DEF u, w

\* Every number has a last bit, of a weight that Bits bits suffice for.
LEMMA LastBitExists ==
  ASSUME NEW n \in Nat, NEW d \in Nat \ {0}
  PROVE  \E e \in 0 .. n : IsLast(n, d, e)
<1> DEFINE s == [e \in Nat |-> d * 2 ^ e * 2 ^ Bits]
           Small(k) == \E e \in 0 .. k : IsLast(n, d, e)
           T == {k \in Nat : Small(k) \/ n >= s[k]}
<1>1. ASSUME NEW e \in Nat
      PROVE  /\ s[e] \in Nat /\ 2 ^ e <= s[e] /\ s[e + 1] = 2 * s[e]
             /\ IsLast(n, d, e) <=> (n < s[e] /\ (e = 0 \/ 2 * n >= s[e]))
  <2>1. s[e] = d * 2 ^ e * 2 ^ Bits /\ s[e + 1] = d * 2 ^ (e + 1) * 2 ^ Bits
    OBVIOUS
  <2> QED
    BY <2>1, ScaledDoubles DEF IsLast
<1> HIDE DEF s
<1>2. 0 \in T
  <2>1. CASE n < s[0]
    BY <1>1, <2>1
  <2>2. CASE n >= s[0]
    BY <2>2
  <2> QED
    BY <1>1, <2>1, <2>2
<1>3. ASSUME NEW k \in Nat, k \in T PROVE k + 1 \in T
  <2>1. CASE Small(k)
    BY <2>1
  <2>2. CASE n >= s[k] /\ n < s[k + 1]
    <3>1. IsLast(n, d, k + 1)
      BY <1>1, <2>2
    <3>2. k + 1 \in 0 .. k + 1
      OBVIOUS
    <3> QED
      BY <3>1, <3>2
  <2>3. CASE n >= s[k + 1]
    BY <2>3
  <2>4. s[k] \in Nat /\ s[k + 1] \in Nat
    BY <1>1
  <2> QED
    BY <1>3, <2>1, <2>2, <2>3, <2>4
<1>4. n \in T
  <2> HIDE DEF T
  <2> QED
    BY <1>2, <1>3, AllNaturals
<1>5. n < s[n]
  <2>1. 2 ^ n \in Nat /\ n < 2 ^ n
    BY PowersGrow
  <2>2. s[n] \in Nat /\ 2 ^ n <= s[n]
    BY <1>1
  <2> QED
    BY <2>1, <2>2
<1>6. s[n] \in Nat
  BY <1>1
<1>7. ~(n >= s[n])
  BY <1>5, <1>6
<1> QED
  BY <1>4, <1>7

\* Ulp is the weight of the last bit.
LEMMA UlpIsLast ==
  ASSUME NEW n \in Nat, NEW d \in Nat \ {0}
  PROVE  \E e \in Nat : Ulp(n, d) = 2 ^ e /\ IsLast(n, d, e)
<1> DEFINE e == CHOOSE e \in 0 .. n : IsLast(n, d, e)
<1>1. e \in 0 .. n /\ IsLast(n, d, e)
  BY LastBitExists
<1>2. Abs(n) = n
  BY DEF Abs
<1>3. Ulp(n, d) = 2 ^ e
  BY <1>2 DEF Ulp
<1> HIDE DEF e
<1> QED
  BY <1>1, <1>3

\* A number for which Bits bits from the weight 2^bound on suffice has no larger
\* last bit.
LEMMA UlpIsBelow ==
  ASSUME NEW n \in Nat, NEW d \in Nat \ {0}, NEW bound \in Nat,
         n < d * 2 ^ bound * 2 ^ Bits
  PROVE  Ulp(n, d) <= 2 ^ bound
<1>1. PICK e \in Nat : Ulp(n, d) = 2 ^ e /\ IsLast(n, d, e)
  BY UlpIsLast
<1>2. CASE e <= bound
  BY <1>1, <1>2, PowersGrow
<1>3. CASE ~(e <= bound)
  <2>1. 2 * n >= d * 2 ^ e * 2 ^ Bits
    BY <1>1, <1>3 DEF IsLast
  <2>2. bound + 1 \in Nat /\ bound + 1 <= e
    BY <1>3
  <2>3. 2 ^ (bound + 1) <= 2 ^ e
    BY <2>2, PowersGrow
  <2>4. d * 2 ^ (bound + 1) * 2 ^ Bits <= d * 2 ^ e * 2 ^ Bits
    <3>1. /\ 2 ^ (bound + 1) \in Nat /\ 2 ^ e \in Nat /\ 2 ^ Bits \in Nat
      BY <2>2, PowersGrow, BitsAssumption
    <3> DEFINE a == 2 ^ (bound + 1)
               b == 2 ^ e
               w == 2 ^ Bits
    <3>2. a \in Nat /\ b \in Nat /\ w \in Nat /\ a <= b
      BY <2>3, <3>1
    <3> HIDE DEF a, b, w
    <3>3. d * a \in Nat /\ d * b \in Nat /\ d * a <= d * b
      BY <3>2
    <3>4. (d * a) * w <= (d * b) * w
      BY <3>2, <3>3
    <3> QED
      BY <3>4 DEF a, b, w
  <2>5. d * 2 ^ (bound + 1) * 2 ^ Bits = 2 * (d * 2 ^ bound * 2 ^ Bits)
    BY ScaledDoubles
  <2>6. /\ d * 2 ^ bound * 2 ^ Bits \in Nat
        /\ d * 2 ^ e * 2 ^ Bits \in Nat
    BY ScaledDoubles
  <2> HIDE DEF IsLast
  <2>7. 2 * n < 2 * (d * 2 ^ bound * 2 ^ Bits)
    BY <2>6
  <2> QED
    BY <2>1, <2>4, <2>5, <2>6, <2>7
<1> QED
  BY <1>2, <1>3

\* x is off n / d by half a u at most.
Near(x, n, d, u) ==
  /\ x \in Nat
  /\ 2 * (d * x - n) <= d * u
  /\ 2 * (n - d * x) <= d * u

\* Nearest is off by half of the last place at most, so by half of any larger one.
LEMMA NearestIsNear ==
  ASSUME NEW n \in Nat, NEW d \in Nat \ {0}, NEW bound \in Nat,
         n < d * 2 ^ bound * 2 ^ Bits
  PROVE  Near(Nearest(n, d), n, d, 2 ^ bound)
<1> DEFINE u == Ulp(n, d)
           m == d * u
           below == n \div m
           rest == n - below * m
           up == 2 * rest > m \/ (2 * rest = m /\ below % 2 = 1)
           x == Nearest(n, d)
           v == 2 ^ bound
<1>1. u \in Nat \ {0} /\ v \in Nat \ {0} /\ u <= v
  <2>1. PICK e \in Nat : Ulp(n, d) = 2 ^ e /\ IsLast(n, d, e)
    BY UlpIsLast
  <2> QED
    BY <2>1, UlpIsBelow, PowersGrow
<1> HIDE DEF u, v
<1>2. m \in Nat \ {0}
  BY <1>1
<1>3. m <= d * v /\ d * v \in Nat
  BY <1>1
<1>4. below * d * u = below * m /\ below \in Nat
  <2>1. below \in Nat
    <3> HIDE DEF m
    <3> QED
      BY <1>2
  <2> HIDE DEF below
  <2>2. below * d * u = below * (d * u)
    BY <1>1, <2>1
  <2> QED
    BY <2>1, <2>2
<1>5. x = u * (IF up THEN below + 1 ELSE below)
  <2> HIDE DEF below
  <2>1. x = u * (IF 2 * (n - below * d * u) > m
                      \/ (2 * (n - below * d * u) = m /\ below % 2 = 1)
                   THEN below + 1 ELSE below)
    BY DEF Nearest, u, below
  <2> QED
    BY <1>4, <2>1
<1> HIDE DEF x
<1>6. 0 <= rest /\ rest < m /\ rest \in Int
  <2> HIDE DEF m
  <2> QED
    BY <1>2
<1>7. d * (u * below) = n - rest /\ d * (u * (below + 1)) = n - rest + m
  <2> HIDE DEF below
  <2>1. d * (u * below) = below * m /\ d * (u * (below + 1)) = below * m + m
    BY <1>1, <1>4
  <2>2. below * m \in Int
    BY <1>1, <1>4
  <2> HIDE DEF m
  <2> QED
    BY <1>2, <2>1, <2>2
<1>8. CASE up
  <2>1. x = u * (below + 1)
    BY <1>5, <1>8
  <2>2. d * x = n - rest + m /\ 2 * rest >= m
    <3> HIDE DEF rest, m, below
    <3> QED
      BY <1>2, <1>6, <1>7, <1>8, <2>1
  <2>3. x \in Nat
    <3> HIDE DEF below
    <3> QED
      BY <1>1, <1>4, <2>1
  <2> HIDE DEF rest, below, m, up
  <2> QED
    BY <1>2, <1>3, <1>6, <2>2, <2>3 DEF Near, x, v
<1>9. CASE ~up
  <2>1. x = u * below
    BY <1>5, <1>9
  <2>2. d * x = n - rest /\ 2 * rest <= m
    <3> HIDE DEF rest, m, below
    <3> QED
      BY <1>2, <1>6, <1>7, <1>9, <2>1
  <2>3. x \in Nat
    <3> HIDE DEF below
    <3> QED
      BY <1>1, <1>4, <2>1
  <2> HIDE DEF rest, below, m, up
  <2> QED
    BY <1>2, <1>3, <1>6, <2>2, <2>3 DEF Near, x, v
<1> QED
  BY <1>8, <1>9

\* What can be booked, and what a row can hold.
Bookings == [op : {"earn", "pay"}, tenths : Nat]
Rows == [current : Int, withdrawn : Int, exact : Int, spent : Int, refused : BOOLEAN]

\* What is rounded is a number, of the negative ones too.
LEMMA NearestIsNumber ==
  ASSUME NEW n \in Int, NEW d \in Nat \ {0}
  PROVE  Nearest(n, d) \in Int
<1> DEFINE u == Ulp(n, d)
           m == d * u
           below == n \div m
           x == Nearest(n, d)
<1>1. u \in Nat \ {0}
  <2>1. Abs(n) \in Nat /\ Abs(Abs(n)) = Abs(n)
    BY DEF Abs
  <2>2. u = Ulp(Abs(n), d)
    BY <2>1 DEF Ulp
  <2> HIDE DEF u
  <2> QED
    BY <2>1, <2>2, UlpIsLast, PowersGrow
<1> HIDE DEF u
<1>2. m \in Nat \ {0}
  BY <1>1
<1>3. below \in Int
  <2> HIDE DEF m
  <2> QED
    BY <1>2
<1> HIDE DEF below
<1>4. x = u * (IF 2 * (n - below * d * u) > m
                    \/ (2 * (n - below * d * u) = m /\ below % 2 = 1)
                 THEN below + 1 ELSE below)
  BY DEF Nearest, u, below
<1>5. x = u * (below + 1) \/ x = u * below
  BY <1>4
<1> HIDE DEF x
<1>6. x \in Int
  BY <1>1, <1>3, <1>5
<1> QED
  BY <1>6 DEF x

\* A booking leaves a row of numbers.
LEMMA BookedKeepsRow ==
  ASSUME NEW r \in Rows, NEW b \in Bookings
  PROVE  Booked(r, b) \in Rows
<1>1. r.current \in Int /\ r.withdrawn \in Int /\ b.tenths \in Nat
  BY DEF Rows, Bookings
<1>2. Parsed(b.tenths) \in Int
  <2>1. b.tenths * 2 ^ Fraction \in Int
    <3>1. 2 ^ Fraction \in Nat
      BY PowersGrow, BitsAssumption
    <3> QED
      BY <1>1, <3>1
  <2> QED
    BY <2>1, NearestIsNumber DEF Parsed
<1>3. ASSUME NEW a \in Int, NEW c \in Int PROVE Plus(a, c) \in Int /\ Minus(a, c) \in Int
  <2>1. a + c \in Int /\ a - c \in Int
    OBVIOUS
  <2> QED
    BY <2>1, NearestIsNumber DEF Plus, Minus
<1> DEFINE t == b.tenths
           parsed == Parsed(t)
           more == Plus(r.current, parsed)
           less == Minus(r.current, parsed)
           paid == Plus(r.withdrawn, parsed)
           exact == r.exact
           spent == r.spent
<1>4. /\ more \in Int /\ less \in Int /\ paid \in Int
      /\ exact + t \in Int /\ exact - t \in Int /\ spent + t \in Int
  <2>1. r.exact \in Int /\ r.spent \in Int
    BY DEF Rows
  <2>2. more \in Int /\ less \in Int /\ paid \in Int
    BY <1>1, <1>2, <1>3
  <2>3. exact + t \in Int /\ exact - t \in Int /\ spent + t \in Int
    BY <1>1, <2>1
  <2> QED
    BY <2>2, <2>3
<1>5. /\ Earn(r, t) = [r EXCEPT !.current = more, !.exact = exact + t, !.refused = FALSE]
      /\ Pay(r, t) = IF r.current < parsed THEN [r EXCEPT !.refused = TRUE]
                     ELSE [r EXCEPT !.current = less, !.withdrawn = paid,
                                    !.exact = exact - t, !.spent = spent + t,
                                    !.refused = FALSE]
  BY DEF Earn, Pay
<1> HIDE DEF parsed, more, less, paid
<1> DEFINE sum == exact + t
           rest == exact - t
           gone == spent + t
<1> HIDE DEF sum, rest, gone, exact, spent, t
<1>6. Earn(r, t) \in Rows
  <2>1. [r EXCEPT !.current = more, !.exact = sum, !.refused = FALSE] \in Rows
    BY <1>4 DEF Rows, sum
  <2> QED
    BY <1>5, <2>1 DEF sum
<1>7. Pay(r, t) \in Rows
  <2>1. /\ [r EXCEPT !.refused = TRUE] \in Rows
        /\ [r EXCEPT !.current = less, !.withdrawn = paid, !.exact = rest,
                     !.spent = gone, !.refused = FALSE] \in Rows
    BY <1>4 DEF Rows, rest, gone
  <2> QED
    BY <1>5, <2>1 DEF rest, gone
<1> QED
  BY <1>6, <1>7 DEF Booked, t

\* rows[i + 1] is the row after i bookings.
RowByRow(n, bookings, rows) ==
  /\ rows[1] = Opened
  /\ \A i \in 1 .. n : rows[i + 1] = Booked(rows[i], bookings[i])
  /\ Row(bookings) = rows[n + 1]

\* The bookings are made one by one.
LEMMA BookedRowByRow ==
  ASSUME NEW n \in Nat, NEW bookings \in [1 .. n -> Bookings]
  PROVE  \E rows : RowByRow(n, bookings, rows)
<1> DEFINE D == 1 .. n
           After(g, s) == IF s = {} THEN Opened
                          ELSE Booked(g[s \ {Max(s)}], bookings[Max(s)])
           IsFold(g) == g = [s \in SUBSET D |-> After(g, s)]
           c == CHOOSE g : IsFold(g)
<1>1. Row(bookings) = c[D]
  <2>1. DOMAIN bookings = D
    OBVIOUS
  <2> QED
    BY <2>1 DEF Row, FoldLeft, MapThenFoldSet
<1>2. \E g : IsFold(g)
  <2> DEFINE step == [p \in D \X Rows |-> Booked(p[2], bookings[p[1]])]
  <2>1. Opened \in Rows
    BY DEF Opened, Rows
  <2>2. ASSUME NEW i \in D, NEW y \in Rows
        PROVE  /\ step[<<i, y>>] = Booked(y, bookings[i])
               /\ Booked(y, bookings[i]) \in Rows
    BY BookedKeepsRow
  <2>3. \A i \in D, y \in Rows : step[<<i, y>>] \in Rows
    BY <2>2
  <2> HIDE DEF step
  <2>4. PICK g : InOrder(n, Greatest(n), Rows, Opened, step, g)
    BY <2>1, <2>3, FoldInOrder, Zenon
  <2>5. ASSUME NEW s \in SUBSET D PROVE g[s] = After(g, s)
    BY <2>2, <2>4 DEF InOrder, Greatest
  <2>6. g \in [SUBSET D -> Rows]
    BY <2>4 DEF InOrder
  <2> HIDE DEF After
  <2> QED
    BY <2>5, <2>6
<1>3. ASSUME NEW s \in SUBSET D PROVE c[s] = After(c, s)
  <2>1. IsFold(c)
    BY <1>2
  <2> HIDE DEF c
  <2> QED
    BY <2>1
<1> HIDE DEF c
<1> DEFINE rows == [i \in 1 .. n + 1 |-> c[1 .. i - 1]]
<1>4. rows[1] = Opened
  <2>1. 1 .. (1 - 1) = {}
    OBVIOUS
  <2>2. rows[1] = c[{}]
    BY <2>1
  <2> HIDE DEF rows
  <2> QED
    BY <1>3, <2>2
<1>5. ASSUME NEW i \in 1 .. n PROVE rows[i + 1] = Booked(rows[i], bookings[i])
  <2>1. c[1 .. i] = After(c, 1 .. i)
    BY <1>3, FirstIndices
  <2>2. After(c, 1 .. i) = Booked(c[1 .. i - 1], bookings[i])
    BY FirstIndices
  <2>3. rows[i + 1] = c[1 .. i] /\ rows[i] = c[1 .. i - 1]
    OBVIOUS
  <2> HIDE DEF rows, After
  <2> QED
    BY <2>1, <2>2, <2>3
<1>6. Row(bookings) = rows[n + 1]
  BY <1>1
<1> HIDE DEF rows
<1> QED
  BY <1>4, <1>5, <1>6 DEF RowByRow

\* What is off an exact number by off and a half of the last place is, when it is
\* rounded, off by a half more, as long as it is below top.
LEMMA RoundedStaysNear ==
  ASSUME NEW bound \in Nat, NEW n \in Nat, NEW exact \in Int, NEW off \in Nat,
         NEW top \in Int,
         10 * n - exact <= 10 * off + 5 * 2 ^ bound,
         exact - 10 * n <= 10 * off + 5 * 2 ^ bound,
         exact <= top,
         2 * top < 10 * (2 ^ bound * 2 ^ Bits),
         2 * (off + 2 ^ bound) <= 2 ^ bound * 2 ^ Bits
  PROVE  /\ Nearest(n, 1) \in Nat
         /\ 10 * Nearest(n, 1) - exact <= 10 * (off + 2 ^ bound)
         /\ exact - 10 * Nearest(n, 1) <= 10 * (off + 2 ^ bound)
<1> DEFINE u == 2 ^ bound
           v == 2 ^ bound * 2 ^ Bits
           x == Nearest(n, 1)
<1>1. u \in Nat /\ v \in Nat /\ 1 * 2 ^ bound * 2 ^ Bits = v
  <2>1. 2 ^ bound \in Nat /\ 2 ^ Bits \in Nat
    BY PowersGrow, BitsAssumption
  <2> QED
    BY <2>1
<1>2. n < v
  <2> HIDE DEF u, v
  <2>1. /\ 10 * n - exact <= 10 * off + 5 * u
        /\ 2 * top < 10 * v /\ 2 * (off + u) <= v
    BY DEF u, v
  <2> QED
    BY <1>1, <2>1
<1>3. Near(x, n, 1, u)
  BY <1>1, <1>2, NearestIsNear
<1> HIDE DEF u, v, x
<1>4. x \in Nat /\ 2 * (x - n) <= u /\ 2 * (n - x) <= u
  BY <1>1, <1>3 DEF Near
<1>5. 10 * n - exact <= 10 * off + 5 * u /\ exact - 10 * n <= 10 * off + 5 * u
  BY DEF u
<1>6. /\ x \in Nat
      /\ 10 * x - exact <= 10 * (off + u)
      /\ exact - 10 * x <= 10 * (off + u)
  BY <1>1, <1>4, <1>5
<1> QED
  BY <1>6 DEF x, u

\* An amount is read as what is off by a half of the last place.
LEMMA ParsedIsNear ==
  ASSUME NEW bound \in Nat, NEW tenths \in Nat,
         tenths * 2 ^ Fraction < 10 * (2 ^ bound * 2 ^ Bits)
  PROVE  /\ Parsed(tenths) \in Nat
         /\ 10 * Parsed(tenths) - tenths * 2 ^ Fraction <= 5 * 2 ^ bound
         /\ tenths * 2 ^ Fraction - 10 * Parsed(tenths) <= 5 * 2 ^ bound
<1> DEFINE u == 2 ^ bound
           n == tenths * 2 ^ Fraction
           x == Parsed(tenths)
<1>1. u \in Nat /\ n \in Nat /\ 10 * 2 ^ bound * 2 ^ Bits = 10 * (2 ^ bound * 2 ^ Bits)
  <2>1. 2 ^ bound \in Nat /\ 2 ^ Bits \in Nat /\ 2 ^ Fraction \in Nat
    BY PowersGrow, BitsAssumption
  <2> QED
    BY <2>1
<1>2. n < 10 * 2 ^ bound * 2 ^ Bits
  BY <1>1
<1>3. Near(x, n, 10, u)
  <2> HIDE DEF n
  <2>1. x = Nearest(n, 10)
    BY DEF Parsed, n
  <2> QED
    BY <1>1, <1>2, <2>1, NearestIsNear
<1> HIDE DEF u, n, x
<1>4. x \in Nat /\ 2 * (10 * x - n) <= 10 * u /\ 2 * (n - 10 * x) <= 10 * u
  BY <1>3 DEF Near
<1>5. x \in Nat /\ 10 * x - n <= 5 * u /\ n - 10 * x <= 5 * u
  BY <1>1, <1>4
<1> QED
  BY <1>5 DEF x, n, u

\* The row of one user after bookings of that many tenths, off by off at most.
Kept(r, booked, off) ==
  /\ r \in Rows
  /\ r.current >= 0 /\ r.withdrawn >= 0
  /\ r.exact <= booked /\ r.spent <= booked
  /\ Off(r.current, r.exact) <= 10 * off
  /\ Off(r.withdrawn, r.spent) <= 10 * off

\* A payment is refused if the exact balance exceeds the sum by off at most.
Refused(r, tenths, off) ==
  r.refused => (r.exact - tenths) * 2 ^ Fraction <= 10 * off

\* One booking more takes a row further off by one last place at most.
LEMMA BookedIsKept ==
  ASSUME NEW bound \in Nat, NEW r, NEW b \in Bookings,
         NEW booked \in Nat, NEW off \in Nat, NEW total \in Nat,
         Kept(r, booked, off), booked + b.tenths <= total,
         2 * (total * 2 ^ Fraction) < 10 * (2 ^ bound * 2 ^ Bits),
         2 * (off + 2 ^ bound) <= 2 ^ bound * 2 ^ Bits
  PROVE  /\ Kept(Booked(r, b), booked + b.tenths, off + 2 ^ bound)
         /\ Refused(Booked(r, b), b.tenths, off + 2 ^ bound)
<1> DEFINE u == 2 ^ bound
           p == 2 ^ Fraction
           v == 2 ^ bound * 2 ^ Bits
           t == b.tenths
           parsed == Parsed(t)
           e == r.exact
           s == r.spent
<1>1. /\ u \in Nat /\ p \in Nat /\ v \in Nat /\ t \in Nat /\ e \in Int /\ s \in Int
      /\ r \in Rows /\ r.current \in Nat /\ r.withdrawn \in Nat
  <2>1. u \in Nat /\ p \in Nat /\ 2 ^ Bits \in Nat
    BY PowersGrow, BitsAssumption
  <2>2. r \in Rows /\ r.current >= 0 /\ r.withdrawn >= 0
    BY DEF Kept
  <2>3. t \in Nat /\ e \in Int /\ s \in Int /\ r.current \in Nat /\ r.withdrawn \in Nat
    BY <2>2 DEF Rows, Bookings
  <2> HIDE DEF u, p, t, e, s
  <2>4. v \in Nat
    BY <2>1 DEF u
  <2> QED
    BY <2>1, <2>2, <2>3, <2>4
<1>2. /\ booked + t <= total /\ 2 * (total * p) < 10 * v /\ 2 * (off + u) <= v
      /\ e <= booked /\ s <= booked
  BY DEF Kept
<1>3. /\ 10 * r.current - e * p <= 10 * off /\ e * p - 10 * r.current <= 10 * off
      /\ 10 * r.withdrawn - s * p <= 10 * off /\ s * p - 10 * r.withdrawn <= 10 * off
  <2> HIDE DEF u, v, t, p, e, s
  <2>1. /\ Abs(10 * r.current - e * p) <= 10 * off
        /\ Abs(10 * r.withdrawn - s * p) <= 10 * off
    BY DEF Kept, Off, p, e, s
  <2>2. e * p \in Int /\ s * p \in Int
    BY <1>1
  <2> QED
    BY <1>1, <2>1, <2>2 DEF Abs
<1> HIDE DEF u, p, v, t, parsed, e, s
\* The products that the inequalities are about.
<1>4. /\ e * p \in Int /\ s * p \in Int /\ t * p \in Nat /\ total * p \in Nat
      /\ e * p + t * p <= total * p /\ s * p + t * p <= total * p
      /\ (e + t) * p = e * p + t * p /\ (s + t) * p = s * p + t * p
      /\ (e - t) * p = e * p - t * p
      /\ t * p <= total * p
  <2>1. e + t <= total /\ s + t <= total /\ t <= total
    BY <1>1, <1>2
  <2>2. (e + t) * p <= total * p /\ (s + t) * p <= total * p /\ t * p <= total * p
    BY <1>1, <2>1
  <2>3. /\ (e + t) * p = e * p + t * p /\ (s + t) * p = s * p + t * p
        /\ (e - t) * p = e * p - t * p
    BY <1>1
  <2>4. /\ e * p \in Int /\ s * p \in Int /\ t * p \in Nat /\ total * p \in Nat
    BY <1>1
  <2> QED
    BY <2>2, <2>3, <2>4
<1>5. parsed \in Nat /\ 10 * parsed - t * p <= 5 * u /\ t * p - 10 * parsed <= 5 * u
  <2>1. t * p < 10 * v
    BY <1>1, <1>2, <1>4
  <2> QED
    BY <1>1, <2>1, ParsedIsNear DEF parsed, p, u, v
<1> DEFINE near(x, exact) == x \in Nat /\ Abs(10 * x - exact) <= 10 * (off + u)
<1>6. ASSUME NEW n \in Nat, NEW exact \in Int,
             10 * n - exact <= 10 * off + 5 * u, exact - 10 * n <= 10 * off + 5 * u,
             exact <= total * p
      PROVE  near(Nearest(n, 1), exact)
  <2> DEFINE x == Nearest(n, 1)
  <2>1. x \in Nat /\ 10 * x - exact <= 10 * (off + u) /\ exact - 10 * x <= 10 * (off + u)
    <3> DEFINE top == total * p
    <3>1. top \in Int /\ exact <= top /\ 2 * top < 10 * v
      BY <1>2, <1>4, <1>6
    <3> HIDE DEF top
    <3> QED
      BY <1>2, <1>6, <3>1, RoundedStaysNear DEF u, v
  <2> HIDE DEF x
  <2>2. Abs(10 * x - exact) <= 10 * (off + u)
    BY <2>1 DEF Abs
  <2> QED
    BY <2>1, <2>2 DEF x
<1>7. near(Plus(r.current, parsed), e * p + t * p)
  <2> DEFINE n == r.current + parsed
             exact == e * p + t * p
  <2>1. /\ n \in Nat /\ exact \in Int /\ exact <= total * p
        /\ 10 * n - exact <= 10 * off + 5 * u /\ exact - 10 * n <= 10 * off + 5 * u
    BY <1>1, <1>3, <1>4, <1>5
  <2> HIDE DEF n, exact, near
  <2>2. near(Nearest(n, 1), exact)
    BY <1>6, <2>1
  <2> QED
    BY <2>2 DEF n, exact, Plus
<1>8. near(Plus(r.withdrawn, parsed), s * p + t * p)
  <2> DEFINE n == r.withdrawn + parsed
             exact == s * p + t * p
  <2>1. /\ n \in Nat /\ exact \in Int /\ exact <= total * p
        /\ 10 * n - exact <= 10 * off + 5 * u /\ exact - 10 * n <= 10 * off + 5 * u
    BY <1>1, <1>3, <1>4, <1>5
  <2> HIDE DEF n, exact, near
  <2>2. near(Nearest(n, 1), exact)
    BY <1>6, <2>1
  <2> QED
    BY <2>2 DEF n, exact, Plus
<1>9. ASSUME ~(r.current < parsed)
      PROVE  near(Minus(r.current, parsed), e * p - t * p)
  <2> DEFINE n == r.current - parsed
             exact == e * p - t * p
  <2>1. /\ n \in Nat /\ exact \in Int /\ exact <= total * p
        /\ 10 * n - exact <= 10 * off + 5 * u /\ exact - 10 * n <= 10 * off + 5 * u
    BY <1>1, <1>3, <1>4, <1>5, <1>9
  <2> HIDE DEF n, exact, near
  <2>2. near(Nearest(n, 1), exact)
    BY <1>6, <2>1
  <2> QED
    BY <2>2 DEF n, exact, Minus
<1> DEFINE after == Booked(r, b)
<1>10. after \in Rows
  BY <1>1, BookedKeepsRow
<1>11. CASE b.op = "earn"
  <2> DEFINE x == Plus(r.current, parsed)
  <2>1. /\ after.current = x /\ after.withdrawn = r.withdrawn
        /\ after.exact = e + t /\ after.spent = s /\ after.refused = FALSE
    BY <1>1, <1>11 DEF Booked, Earn, Rows, t, parsed, e, s
  <2> HIDE DEF after, x
  <2>2. x >= 0 /\ Off(x, e + t) <= 10 * (off + u)
    BY <1>4, <1>7 DEF Off, p, x
  <2>3. Off(r.withdrawn, s) <= 10 * (off + u)
    <3>1. Off(r.withdrawn, s) = Abs(10 * r.withdrawn - s * p)
      BY DEF Off, p
    <3> QED
      BY <1>1, <1>3, <1>4, <3>1 DEF Abs
  <2>4. e + t <= booked + t /\ s <= booked + t /\ r.withdrawn >= 0
    BY <1>1, <1>2
  <2>5. Kept(after, booked + t, off + u)
    BY <1>10, <2>1, <2>2, <2>3, <2>4 DEF Kept
  <2>6. Refused(after, t, off + u)
    BY <2>1 DEF Refused
  <2> QED
    BY <2>5, <2>6 DEF after, t, u
<1>12. CASE b.op # "earn" /\ r.current < parsed
  <2>1. /\ after.current = r.current /\ after.withdrawn = r.withdrawn
        /\ after.exact = e /\ after.spent = s
    BY <1>1, <1>12 DEF Booked, Pay, Rows, t, parsed, e, s
  <2> HIDE DEF after
  <2>2. Off(r.current, e) <= 10 * (off + u) /\ Off(r.withdrawn, s) <= 10 * (off + u)
    <3>1. /\ Off(r.current, e) = Abs(10 * r.current - e * p)
          /\ Off(r.withdrawn, s) = Abs(10 * r.withdrawn - s * p)
      BY DEF Off, p
    <3> QED
      BY <1>1, <1>3, <1>4, <3>1 DEF Abs
  <2>3. e <= booked + t /\ s <= booked + t /\ r.withdrawn >= 0 /\ r.current >= 0
    BY <1>1, <1>2
  <2>4. Kept(after, booked + t, off + u)
    BY <1>10, <2>1, <2>2, <2>3 DEF Kept
  <2>5. (e - t) * p <= 10 * (off + u)
    BY <1>1, <1>3, <1>4, <1>5, <1>12
  <2>6. Refused(after, t, off + u)
    BY <2>1, <2>5 DEF Refused, p
  <2> QED
    BY <2>4, <2>6 DEF after, t, u
<1>13. CASE b.op # "earn" /\ ~(r.current < parsed)
  <2> DEFINE x == Minus(r.current, parsed)
             y == Plus(r.withdrawn, parsed)
  <2>1. /\ after.current = x /\ after.withdrawn = y
        /\ after.exact = e - t /\ after.spent = s + t /\ after.refused = FALSE
    BY <1>1, <1>13 DEF Booked, Pay, Rows, t, parsed, e, s
  <2>2. x >= 0 /\ Off(x, e - t) <= 10 * (off + u)
    BY <1>4, <1>9, <1>13 DEF Off, p
  <2>3. y >= 0 /\ Off(y, s + t) <= 10 * (off + u)
    BY <1>4, <1>8 DEF Off, p
  <2>4. e - t <= booked + t /\ s + t <= booked + t
    BY <1>1, <1>2
  <2> HIDE DEF after, x, y
  <2>5. Kept(after, booked + t, off + u)
    BY <1>10, <2>1, <2>2, <2>3, <2>4 DEF Kept
  <2>6. Refused(after, t, off + u)
    BY <2>1 DEF Refused
  <2> QED
    BY <2>5, <2>6 DEF after, t, u
<1> QED
  BY <1>11, <1>12, <1>13

\* The row after the bookings.
Bounded(bookings) ==
  LET row == Row(bookings)
      off == 10 * Drift(bookings)
  IN  /\ row.current >= 0
      /\ Off(row.current, row.exact) <= off
      /\ Off(row.withdrawn, row.spent) <= off
      /\ row.refused => (row.exact - Last(bookings).tenths) * 2 ^ Fraction <= off

\* After any bookings, up to 2^(Bits - 1) of them, the balance is not negative, it
\* and the sum withdrawn are off the exact ones by one last place for each booking
\* at most, and what was refused last the exact balance did not exceed by more.
THEOREM RoundedIsNear ==
  ASSUME NEW bookings \in Seq(Bookings), Len(bookings) <= 2 ^ (Bits - 1)
  PROVE  Bounded(bookings)
<1> DEFINE n == Len(bookings)
           tenths == [i \in 1 .. n |-> bookings[i].tenths]
<1>1. /\ n \in Nat /\ bookings \in [1 .. n -> Bookings] /\ DOMAIN bookings = 1 .. n
      /\ tenths \in [1 .. n -> Nat] /\ tenths \in [1 .. n -> Int]
      /\ Total(bookings) = SumOf(tenths)
  <2>1. n \in Nat /\ bookings \in [1 .. n -> Bookings] /\ DOMAIN bookings = 1 .. n
    OBVIOUS
  <2> HIDE DEF n
  <2>2. tenths \in [1 .. n -> Nat] /\ tenths \in [1 .. n -> Int]
    BY <2>1 DEF Bookings
  <2>3. [i \in DOMAIN bookings |-> bookings[i].tenths] = tenths
    BY <2>1
  <2>4. Total(bookings) = SumOf(tenths)
    BY <2>3 DEF Total
  <2> QED
    BY <2>1, <2>2, <2>4
<1>2. ASSUME NEW i \in 1 .. n
      PROVE  tenths[i] = bookings[i].tenths /\ bookings[i] \in Bookings
  BY <1>1
<1> HIDE DEF n, tenths
<1>3. PICK rows : RowByRow(n, bookings, rows)
  BY <1>1, BookedRowByRow
<1>4. PICK total :
        /\ total[n + 1] = 0
        /\ \A i \in 1 .. n : total[i] = tenths[i] + total[i + 1]
        /\ SumOf(tenths) = total[1]
  BY <1>1, TotalByTerms
\* What is left to book is not negative, so neither is all of it.
<1>5. \A k \in 0 .. n : total[n + 1 - k] \in Nat
  <2> DEFINE T == {k \in Nat : k <= n => total[n + 1 - k] \in Nat}
  <2>1. 0 \in T
    <3>1. n + 1 - 0 = n + 1
      BY <1>1
    <3> QED
      BY <1>4, <3>1
  <2>2. ASSUME NEW k \in Nat, k \in T, k + 1 <= n PROVE total[n + 1 - (k + 1)] \in Nat
    <3> DEFINE i == n + 1 - (k + 1)
    <3>1. i \in 1 .. n /\ i + 1 = n + 1 - k /\ k <= n
      BY <1>1, <2>2
    <3> HIDE DEF i
    <3>2. total[i + 1] \in Nat /\ tenths[i] \in Nat /\ total[i] = tenths[i] + total[i + 1]
      BY <1>1, <1>4, <2>2, <3>1
    <3>3. total[i] \in Nat
      BY <3>2
    <3> QED
      BY <3>3 DEF i
  <2>3. Nat \subseteq T
    <3>1. \A k \in Nat : k \in T => k + 1 \in T
      BY <2>2
    <3> HIDE DEF T
    <3> QED
      BY <2>1, <3>1, AllNaturals
  <2> QED
    BY <1>1, <2>3
<1>6. ASSUME NEW i \in 1 .. n + 1 PROVE total[i] \in Nat
  <2>1. n + 1 - i \in 0 .. n /\ n + 1 - (n + 1 - i) = i
    BY <1>1
  <2> QED
    BY <1>5, <2>1
<1> DEFINE all == total[1]
           p == 2 ^ Fraction
<1>7. all \in Nat /\ p \in Nat /\ Total(bookings) = all /\ all * p \in Nat
  <2>1. 1 \in 1 .. n + 1
    BY <1>1
  <2>2. all \in Nat
    BY <1>6, <2>1
  <2>3. p \in Nat
    BY PowersGrow, BitsAssumption
  <2> HIDE DEF all, p
  <2>4. all * p \in Nat
    BY <2>2, <2>3
  <2> QED
    BY <1>1, <1>4, <2>2, <2>3, <2>4 DEF all
<1> HIDE DEF all, p
<1>8. PICK bound \in Nat :
        Ulp(2 * all * p, 10) = 2 ^ bound /\ IsLast(2 * all * p, 10, bound)
  <2> DEFINE twice == 2 * all * p
  <2>1. twice \in Nat
    BY <1>7
  <2> DEFINE ten == 10
  <2>3. ten \in Nat \ {0}
    OBVIOUS
  <2> HIDE DEF twice, ten
  <2>2. \E e \in Nat : Ulp(twice, ten) = 2 ^ e /\ IsLast(twice, ten, e)
    BY <2>1, <2>3, UlpIsLast, Zenon
  <2> QED
    BY <2>2 DEF twice, ten
<1> DEFINE u == 2 ^ bound
           v == 2 ^ bound * 2 ^ Bits
<1>9. u \in Nat /\ v \in Nat /\ 2 * (all * p) < 10 * v
  <2>1. u \in Nat /\ 2 ^ Bits \in Nat
    BY PowersGrow, BitsAssumption
  <2>2. 2 * all * p < 10 * u * 2 ^ Bits
    BY <1>8 DEF IsLast
  <2> HIDE DEF u
  <2>3. v \in Nat /\ 10 * u * 2 ^ Bits = 10 * v
    BY <2>1 DEF u
  <2>4. 2 * all * p = 2 * (all * p)
    BY <1>7
  <2> QED
    BY <2>1, <2>2, <2>3, <2>4
<1>10. ASSUME NEW k \in Nat, k + 1 <= n PROVE 2 * (k * u + u) <= v
  <2> DEFINE w == 2 ^ Bits
             half == 2 ^ (Bits - 1)
  <2>1. half \in Nat /\ w = 2 * half /\ n <= half
    <3>1. Bits - 1 \in Nat /\ (Bits - 1) + 1 = Bits
      BY BitsAssumption
    <3>2. half \in Nat /\ 2 ^ ((Bits - 1) + 1) = 2 * half
      BY <3>1, PowersGrow
    <3> QED
      BY <3>1, <3>2 DEF n
  <2>2. v = u * w
    OBVIOUS
  <2> HIDE DEF w, half, u, v
  <2>3. 2 * (k + 1) <= w /\ 2 * (k + 1) \in Nat /\ w \in Nat
    BY <1>1, <1>10, <2>1
  <2>4. u * (2 * (k + 1)) <= u * w
    BY <1>9, <2>3
  <2>5. u * (2 * (k + 1)) = 2 * (k * u + u)
    BY <1>9
  <2> QED
    BY <2>2, <2>4, <2>5
<1> HIDE DEF u, v
<1> DEFINE Claim(k) == /\ all - total[k + 1] \in Nat
                       /\ Kept(rows[k + 1], all - total[k + 1], k * u)
                       /\ k > 0 => Refused(rows[k + 1], bookings[k].tenths, k * u)
                       /\ k = 0 => rows[k + 1].refused = FALSE
           T == {k \in Nat : k <= n => Claim(k)}
<1>11. 0 \in T
  <2>1. /\ 0 + 1 = 1 /\ 0 * u = 0 /\ all - total[0 + 1] = 0
        /\ rows[1] = Opened
    BY <1>3, <1>7, <1>9 DEF RowByRow, all
  <2>2. Off(0, 0) = 0
    <3>1. 0 * 2 ^ Fraction = 0
      BY <1>7 DEF p
    <3> QED
      BY <3>1 DEF Off, Abs
  <2>3. Kept(Opened, 0, 0)
    BY <2>2 DEF Kept, Opened, Rows
  <2>4. Opened.refused = FALSE
    BY DEF Opened
  <2> HIDE DEF u
  <2>5. Kept(rows[0 + 1], all - total[0 + 1], 0 * u) /\ rows[0 + 1].refused = FALSE
    BY <2>1, <2>3, <2>4
  <2> QED
    BY <2>1, <2>5
<1>12. ASSUME NEW k \in Nat, k \in T, k + 1 <= n PROVE Claim(k + 1)
  <2> DEFINE r == rows[k + 1]
             b == bookings[k + 1]
             booked == all - total[k + 1]
             off == k * u
  <2>1. Kept(r, booked, off)
    BY <1>1, <1>12
  <2>2. k + 1 \in 1 .. n
    BY <1>1, <1>12
  <2>3. /\ b \in Bookings /\ b.tenths \in Nat
        /\ total[k + 1] = b.tenths + total[(k + 1) + 1]
        /\ rows[(k + 1) + 1] = Booked(r, b)
    BY <1>1, <1>2, <1>3, <1>4, <2>2 DEF RowByRow
  <2>4. /\ total[k + 1] \in Nat /\ total[(k + 1) + 1] \in Nat
    <3>1. k + 1 \in 1 .. n + 1 /\ (k + 1) + 1 \in 1 .. n + 1
      BY <1>1, <2>2
    <3> QED
      BY <1>6, <3>1
  <2>5. off \in Nat /\ (k + 1) * u = off + u /\ 2 * (off + u) <= v
    BY <1>9, <1>10, <1>12
  <2>6. booked \in Nat
    BY <1>1, <1>12
  <2>7. /\ all - total[(k + 1) + 1] = booked + b.tenths
        /\ booked + b.tenths \in Nat /\ booked + b.tenths <= all
    <3> DEFINE t == b.tenths
               left == total[k + 1]
               later == total[(k + 1) + 1]
    <3>1. t \in Nat /\ left = t + later
      BY <2>3
    <3>2. booked = all - left
      OBVIOUS
    <3>3. left \in Nat /\ later \in Nat
      BY <2>4
    <3> HIDE DEF t, left, later, booked
    <3>4. all - later = booked + t /\ booked + t \in Nat /\ booked + t <= all
      BY <1>7, <2>6, <3>1, <3>2, <3>3
    <3> QED
      BY <3>4 DEF t, later
  <2> HIDE DEF r, b, booked, off
  <2>8. /\ Kept(Booked(r, b), booked + b.tenths, off + u)
        /\ Refused(Booked(r, b), b.tenths, off + u)
    BY <1>7, <1>9, <2>1, <2>3, <2>5, <2>6, <2>7, BookedIsKept DEF u, v, p
  <2>9. k + 1 > 0 /\ k + 1 # 0
    OBVIOUS
  <2> QED
    BY <2>3, <2>5, <2>7, <2>8, <2>9 DEF b
<1>13. Claim(n)
  <2> HIDE DEF Claim
  <2>1. \A k \in Nat : k \in T => k + 1 \in T
    BY <1>12
  <2> HIDE DEF T
  <2>2. n \in T
    BY <1>1, <1>11, <2>1, AllNaturals
  <2> QED
    BY <1>1, <2>2 DEF T
<1> DEFINE row == Row(bookings)
           off == n * u
<1>14. /\ Kept(row, all - total[n + 1], off)
       /\ n > 0 => Refused(row, bookings[n].tenths, off)
       /\ n = 0 => row.refused = FALSE
  BY <1>3, <1>13 DEF RowByRow
<1>15. Drift(bookings) = off
  BY <1>7, <1>8 DEF Drift, n, p, u
<1> HIDE DEF row, off, Claim, T
<1>16. row.refused => (row.exact - Last(bookings).tenths) * 2 ^ Fraction <= 10 * off
  <2>1. CASE n = 0
    BY <1>14, <2>1
  <2>2. CASE n > 0
    <3>1. Last(bookings) = bookings[n]
      BY DEF Last, n
    <3> QED
      BY <1>14, <2>2, <3>1 DEF Refused
  <2> QED
    BY <1>1, <2>1, <2>2
<1> QED
  BY <1>14, <1>15, <1>16 DEF Bounded, Kept, row

\* The bookings are amounts, and not too many.
LedgerInv == part = "ledger" => input \in Seq(Bookings) /\ Len(input) <= MaxBookings

\* So what the run checks of a few bookings and amounts holds of any, at any
\* precision.
THEOREM RoundingCorrect == Spec => []RoundingIsBounded
<1>1. Init => LedgerInv
  BY BookingsAssumption DEF Init, LedgerInv
<1>2. LedgerInv /\ [Next]_<<part, input>> => LedgerInv'
  <2> SUFFICES ASSUME LedgerInv, [Next]_<<part, input>> PROVE LedgerInv'
    OBVIOUS
  <2>1. CASE Type
    BY <2>1 DEF Type, Grows, LedgerInv
  <2>2. CASE Book
    <3>1. PICK b \in Bookings : Grows("ledger", MaxBookings, b)
      BY <2>2 DEF Book, Bookings
    <3>2. /\ part = "ledger" /\ Len(input) < MaxBookings
          /\ input' = Append(input, b) /\ input \in Seq(Bookings)
      BY <3>1 DEF Grows, LedgerInv
    <3>3. input' \in Seq(Bookings) /\ Len(input') = Len(input) + 1 /\ Len(input) \in Nat
      BY <3>2
    <3>4. Len(input') <= MaxBookings
      BY <3>2, <3>3, BookingsAssumption
    <3> QED
      BY <3>3, <3>4 DEF LedgerInv
  <2>3. CASE Configure
    BY <2>3 DEF Configure, Grows, LedgerInv
  <2>4. CASE Answer
    <3>1. part' = "answer"
      BY <2>4 DEF Answer, Grows
    <3> QED
      BY <3>1 DEF LedgerInv
  <2>5. CASE Store
    BY <2>5 DEF Store, Grows, LedgerInv
  <2>6. CASE UNCHANGED <<part, input>>
    BY <2>6 DEF LedgerInv
  <2> QED
    BY <2>1, <2>2, <2>3, <2>4, <2>5, <2>6 DEF Next
<1>3. LedgerInv => RoundingIsBounded
  <2> SUFFICES ASSUME LedgerInv, part = "ledger" PROVE RoundingIsBounded
    BY DEF RoundingIsBounded
  <2>1. input \in Seq(Bookings) /\ Len(input) <= 2 ^ (Bits - 1)
    <3>1. Len(input) \in Nat /\ Bits - 1 \in Nat
      BY BitsAssumption DEF LedgerInv
    <3>2. 2 ^ (Bits - 1) \in Nat
      BY <3>1, PowersGrow
    <3> QED
      BY <3>1, <3>2, BookingsAssumption DEF LedgerInv
  <2>2. Bounded(input)
    BY <2>1, RoundedIsNear
  <2> QED
    BY <2>2 DEF RoundingIsBounded, Bounded
<1> QED
  BY <1>1, <1>2, <1>3, PTL DEF Spec

-----------------------------------------------------------------------------
(* The configuration *)

Sides == {"flag", "env"}

TextsOf(side) ==
  [from : {side}, empty : BOOLEAN, spaces : BOOLEAN, schemes : 0 .. 1,
   complete : BOOLEAN]

\* What a side may give a parameter.
Givable(side, p) ==
  IF p \in C!Texts THEN TextsOf(side)
  ELSE IF p \in C!Numbers THEN Int \cup {Malformed}
  ELSE BOOLEAN \cup {Malformed}

Given(side, source) ==
  \A p \in C!Parameters : source[p] # Unset => source[p] \in Givable(side, p)

\* The text that a parameter has before it is normalized.
Chosen(flags, env, p) ==
  IF env[p] # Unset THEN C!TrimSpace(env[p])
  ELSE IF flags[p] # Unset THEN flags[p] ELSE C!defaultConfig[p]

\* Every text of the configuration is what was chosen, normalized.
LEMMA TextIsNormalized ==
  ASSUME NEW flags, NEW env, NEW p \in C!Texts
  PROVE  C!Sourced(flags, env)[p] =
           IF p = "AccrualSystemAddress"
             THEN C!normalizeHTTPAddress(C!TrimSpace(Chosen(flags, env, p)))
             ELSE C!TrimSpace(Chosen(flags, env, p))
<1>1. p \in C!Parameters
  BY DEF C!Parameters
<1> DEFINE parsed == C!parseFlags(C!defaultConfig, flags)
           applied == C!applyEnv(parsed, env)
<1>2. applied[p] = Chosen(flags, env, p)
  BY <1>1 DEF C!parseFlags, C!applyEnv, Chosen
<1> HIDE DEF applied
<1>3. C!normalize(applied)[p] =
        IF p = "AccrualSystemAddress" THEN C!normalizeHTTPAddress(C!TrimSpace(applied[p]))
        ELSE C!TrimSpace(applied[p])
  BY <1>1 DEF C!normalize
<1> QED
  BY <1>2, <1>3 DEF C!Sourced, applied

\* A number of the configuration is what was chosen.
LEMMA NumberIsChosen ==
  ASSUME NEW flags, NEW env, NEW p \in C!Numbers
  PROVE  C!Sourced(flags, env)[p] =
           IF env[p] # Unset THEN env[p]
           ELSE IF flags[p] # Unset THEN flags[p] ELSE 5
<1>1. /\ p \in C!Parameters /\ p \notin C!Texts
      /\ p # "AccrualSystemAddress" /\ p # "Local"
      /\ p \notin {"DatabaseURI", "AccrualSystemAddress", "LogFilename"}
  BY DEF C!Parameters, C!Numbers, C!Durations, C!Texts
<1> DEFINE parsed == C!parseFlags(C!defaultConfig, flags)
           applied == C!applyEnv(parsed, env)
<1>2. C!defaultConfig[p] = 5
  BY <1>1 DEF C!defaultConfig
<1>3. parsed[p] = IF flags[p] # Unset THEN flags[p] ELSE 5
  BY <1>1, <1>2 DEF C!parseFlags
<1> HIDE DEF parsed
<1>4. applied[p] = IF env[p] # Unset THEN env[p] ELSE parsed[p]
  BY <1>1 DEF C!applyEnv
<1> HIDE DEF applied
<1>5. C!normalize(applied)[p] = applied[p]
  BY <1>1 DEF C!normalize
<1> QED
  BY <1>3, <1>4, <1>5 DEF C!Sourced, applied, parsed

\* What was chosen comes from the environment, the flags or the defaults, in this
\* order, and has a scheme at most once.
LEMMA ChosenIsText ==
  ASSUME NEW flags, Given("flag", flags), NEW env, Given("env", env),
         NEW p \in C!Texts
  PROVE  Chosen(flags, env, p) \in
           TextsOf(IF env[p] # Unset THEN "env"
                   ELSE IF flags[p] # Unset THEN "flag" ELSE "default")
<1>1. p \in C!Parameters
  BY DEF C!Parameters
<1>2. CASE env[p] # Unset
  <2>1. env[p] \in TextsOf("env")
    BY <1>1, <1>2 DEF Given, Givable
  <2> QED
    BY <1>2, <2>1 DEF Chosen, TextsOf, C!TrimSpace
<1>3. CASE env[p] = Unset /\ flags[p] # Unset
  BY <1>1, <1>3 DEF Given, Givable, Chosen
<1>4. CASE env[p] = Unset /\ flags[p] = Unset
  <2>1. C!defaultConfig[p] \in TextsOf("default")
    <3>1. CASE p \in {"DatabaseURI", "AccrualSystemAddress", "LogFilename"}
      <4>1. C!defaultConfig[p] = C!NoText
        BY <1>1, <3>1 DEF C!defaultConfig, C!Texts, C!Numbers, C!Durations
      <4> QED
        BY <4>1 DEF C!NoText, C!Text, TextsOf
    <3>2. CASE p \notin {"DatabaseURI", "AccrualSystemAddress", "LogFilename"}
      <4>1. C!defaultConfig[p] = C!Text("default", FALSE, FALSE, 0, FALSE)
        BY <1>1, <3>2 DEF C!defaultConfig, C!Texts, C!Numbers, C!Durations
      <4> QED
        BY <4>1 DEF C!Text, TextsOf
    <3> QED
      BY <3>1, <3>2
  <2> QED
    BY <1>4, <2>1 DEF Chosen
<1> QED
  BY <1>2, <1>3, <1>4

\* Every text has its spaces trimmed and keeps who set it; an address that is not
\* empty has exactly one scheme.
LEMMA NormalizedText ==
  ASSUME NEW side, NEW text \in TextsOf(side)
  PROVE  /\ C!TrimSpace(text).from = side /\ ~C!TrimSpace(text).spaces
         /\ C!normalizeHTTPAddress(C!TrimSpace(text)).from = side
         /\ ~C!normalizeHTTPAddress(C!TrimSpace(text)).spaces
         /\ ~C!normalizeHTTPAddress(C!TrimSpace(text)).empty =>
              C!normalizeHTTPAddress(C!TrimSpace(text)).schemes = 1
<1> DEFINE t == C!TrimSpace(text)
<1>1. t \in TextsOf(side) /\ ~t.spaces
  BY DEF TextsOf, C!TrimSpace
<1> HIDE DEF t
<1> QED
  BY <1>1 DEF TextsOf, C!normalizeHTTPAddress, C!HasScheme, t

\* A program that starts on any settings of the two sides is usable, and has each
\* value from the environment if it is set there, else from the flags, else by
\* default.
THEOREM StartedIsUsable ==
  ASSUME NEW flags, Given("flag", flags), NEW env, Given("env", env),
         C!Accepts(flags, env)
  PROVE  /\ Usable(C!Sourced(flags, env))
         /\ \A p \in C!Texts :
              C!Sourced(flags, env)[p].from =
                IF env[p] # Unset THEN "env"
                ELSE IF flags[p] # Unset THEN "flag" ELSE "default"
         /\ \A p \in C!Numbers :
              C!Sourced(flags, env)[p] =
                IF env[p] # Unset THEN env[p]
                ELSE IF flags[p] # Unset THEN flags[p] ELSE 5
<1> DEFINE c == C!Sourced(flags, env)
           from(p) == IF env[p] # Unset THEN "env"
                      ELSE IF flags[p] # Unset THEN "flag" ELSE "default"
<1> HIDE DEF c
<1>1. C!validate(c)
  BY DEF C!Accepts, c
<1>2. ASSUME NEW p \in C!Texts
      PROVE  /\ c[p].from = from(p) /\ ~c[p].spaces
             /\ p = "AccrualSystemAddress" /\ ~c[p].empty => c[p].schemes = 1
  <2>1. Chosen(flags, env, p) \in TextsOf(from(p))
    BY ChosenIsText
  <2> HIDE DEF from
  <2> QED
    BY <2>1, TextIsNormalized, NormalizedText DEF c
<1>3. Usable(c)
  <2>1. \A p \in {"TokenTTL", "PollInterval", "ShutdownTimeout", "AccrualConcurrency"} :
          c[p] > 0
    BY <1>1 DEF C!validate, C!Numbers, C!Durations
  <2>2. \A p \in C!Texts : ~c[p].spaces
    BY <1>2
  <2>3. /\ ~c["JWTSecret"].empty /\ ~c["RunAddress"].empty
        /\ ~c["AccrualSystemAddress"].empty
        /\ ~c["DatabaseURI"].empty /\ c["DatabaseURI"].complete
    BY <1>1 DEF C!validate, C!Texts
  <2>4. c["AccrualSystemAddress"].schemes = 1
    <3>1. "AccrualSystemAddress" \in C!Texts
      BY DEF C!Texts
    <3> QED
      BY <1>2, <2>3, <3>1
  <2> QED
    BY <2>1, <2>2, <2>3, <2>4 DEF Usable
<1>4. \A p \in C!Numbers : c[p] = IF env[p] # Unset THEN env[p]
                                  ELSE IF flags[p] # Unset THEN flags[p] ELSE 5
  BY NumberIsChosen DEF c
<1> QED
  BY <1>2, <1>3, <1>4 DEF c

\* The settings that the run gives.
Settings ==
  {x \in [source : {"flag", "env"}, name : C!Parameters,
          value : UNION {SomeValues(side, p) : side \in {"flag", "env"}, p \in C!Parameters}] :
     x.value \in SomeValues(x.source, x.name)}

ConfigurationInv == part = "configuration" => input \in Seq(Settings)

\* They are such settings, a number of a flag being one and of a variable two.
LEMMA SourceIsGiven ==
  ASSUME NEW side \in {"flag", "env"}, input \in Seq(Settings)
  PROVE  /\ Given(side, Source(side))
         /\ \A p \in C!Numbers :
              Source(side)[p] \in {Unset, Malformed, -1, 0, IF side = "flag" THEN 1 ELSE 2}
<1> SUFFICES ASSUME NEW p \in C!Parameters
             PROVE  /\ Source(side)[p] # Unset => Source(side)[p] \in Givable(side, p)
                    /\ p \in C!Numbers =>
                         Source(side)[p] \in {Unset, Malformed, -1, 0,
                                              IF side = "flag" THEN 1 ELSE 2}
  BY DEF Given, C!Parameters
<1> DEFINE given == {i \in DOMAIN input : input[i].source = side /\ input[i].name = p}
<1>1. CASE given # {}
  <2>1. Source(side)[p] = input[Max(given)].value
    BY <1>1 DEF Source
  <2>2. Max(given) \in given
    <3>1. Len(input) \in Nat /\ given \in SUBSET (1 .. Len(input))
      OBVIOUS
    <3> HIDE DEF given
    <3> QED
      BY <1>1, <3>1, MaxIsGreatest
  <2>3. input[Max(given)] \in Settings /\ input[Max(given)].source = side
        /\ input[Max(given)].name = p
    BY <2>2
  <2>4. Source(side)[p] \in SomeValues(side, p)
    BY <2>1, <2>3 DEF Settings
  <2> HIDE DEF given
  <2>5. CASE p \in C!Texts
    <3>1. Source(side)[p] \in SomeTexts(side)
      BY <2>4, <2>5 DEF SomeValues
    <3>2. \A empty, spaces, complete \in BOOLEAN, schemes \in 0 .. 1 :
            C!Text(side, empty, spaces, schemes, complete) \in TextsOf(side)
      BY DEF C!Text, TextsOf
    <3>3. SomeTexts(side) \subseteq TextsOf(side)
      <4>1. 0 \in 0 .. 1 /\ 1 \in 0 .. 1
        OBVIOUS
      <4>2. /\ C!Text(side, TRUE, TRUE, 0, FALSE) \in TextsOf(side)
            /\ C!Text(side, FALSE, FALSE, 0, TRUE) \in TextsOf(side)
            /\ C!Text(side, FALSE, TRUE, 1, TRUE) \in TextsOf(side)
            /\ C!Text(side, FALSE, FALSE, 1, FALSE) \in TextsOf(side)
        BY <3>2, <4>1, Zenon
      <4> QED
        BY <4>2, Zenon DEF SomeTexts
    <3>4. Source(side)[p] \in TextsOf(side)
      BY <3>1, <3>3
    <3>5. p \notin C!Numbers
      BY <2>5 DEF C!Numbers, C!Durations, C!Texts
    <3> QED
      BY <2>5, <3>4, <3>5 DEF Givable
  <2>6. CASE p \in C!Numbers
    <3>1. p \notin C!Texts
      BY <2>6 DEF C!Numbers, C!Durations, C!Texts
    <3> QED
      BY <2>4, <2>6, <3>1 DEF SomeValues, Givable
  <2>7. CASE p \notin C!Texts /\ p \notin C!Numbers
    BY <2>4, <2>7 DEF SomeValues, Givable
  <2> QED
    BY <2>5, <2>6, <2>7
<1>2. CASE given = {}
  <2>1. Source(side)[p] =
          IF side = "flag" /\ p \in {"DatabaseURI", "AccrualSystemAddress"}
            THEN C!Text("flag", FALSE, FALSE, 0, TRUE) ELSE Unset
    BY <1>2 DEF Source
  <2>2. CASE side = "flag" /\ p \in {"DatabaseURI", "AccrualSystemAddress"}
    <3>1. p \in C!Texts /\ p \notin C!Numbers
      BY <2>2 DEF C!Numbers, C!Durations, C!Texts
    <3> QED
      BY <2>1, <2>2, <3>1 DEF Givable, TextsOf, C!Text
  <2>3. CASE ~(side = "flag" /\ p \in {"DatabaseURI", "AccrualSystemAddress"})
    BY <2>1, <2>3
  <2> QED
    BY <2>2, <2>3
<1> QED
  BY <1>1, <1>2

\* So what the run checks of some settings holds of any number of them.
THEOREM ConfigurationCorrect == Spec => []StartIsUsable
<1>1. Init => ConfigurationInv
  BY DEF Init, ConfigurationInv
<1>2. ASSUME ConfigurationInv, [Next]_<<part, input>>
      PROVE  ConfigurationInv'
  <2>1. CASE Type
    BY <2>1 DEF Type, Grows, ConfigurationInv
  <2>2. CASE Book
    BY <2>2 DEF Book, Grows, ConfigurationInv
  <2>3. CASE Configure
    <3>1. PICK side \in {"flag", "env"}, p \in C!Parameters :
            \E value \in SomeValues(side, p) :
              Grows("configuration", MaxSettings,
                    [source |-> side, name |-> p, value |-> value])
      BY <2>3 DEF Configure
    <3>2. PICK value \in SomeValues(side, p) :
            Grows("configuration", MaxSettings,
                  [source |-> side, name |-> p, value |-> value])
      BY <3>1
    <3>3. [source |-> side, name |-> p, value |-> value] \in Settings
      BY DEF Settings
    <3> QED
      BY <1>2, <3>2, <3>3 DEF Grows, ConfigurationInv
  <2>4. CASE Answer
    BY <2>4 DEF Answer, Grows, ConfigurationInv
  <2>5. CASE Store
    BY <2>5 DEF Store, Grows, ConfigurationInv
  <2>6. CASE UNCHANGED <<part, input>>
    BY <1>2, <2>6 DEF ConfigurationInv
  <2> QED
    BY <1>2, <2>1, <2>2, <2>3, <2>4, <2>5, <2>6 DEF Next
<1>3. ConfigurationInv => StartIsUsable
  <2> SUFFICES ASSUME input \in Seq(Settings), C!Accepts(Source("flag"), Source("env"))
               PROVE  LET flags == Source("flag")
                          env == Source("env")
                          c == C!Sourced(flags, env)
                          from(p) == IF env[p] # Unset THEN "env"
                                     ELSE IF flags[p] # Unset THEN "flag" ELSE "default"
                      IN  /\ Usable(c)
                          /\ \A p \in C!Texts : c[p].from = from(p)
                          /\ \A p \in C!Numbers :
                               c[p] = IF env[p] # Unset THEN 2
                                      ELSE IF flags[p] # Unset THEN 1 ELSE 5
    BY DEF ConfigurationInv, StartIsUsable
  <2> DEFINE flags == Source("flag")
             env == Source("env")
             c == C!Sourced(flags, env)
  <2>1. Given("flag", flags) /\ Given("env", env)
    BY SourceIsGiven
  <2>2. ASSUME NEW p \in C!Numbers
        PROVE  /\ flags[p] \in {Unset, Malformed, -1, 0, 1}
               /\ env[p] \in {Unset, Malformed, -1, 0, 2}
    BY SourceIsGiven
  <2> HIDE DEF flags, env
  <2>3. /\ Usable(c)
        /\ \A p \in C!Texts : c[p].from = IF env[p] # Unset THEN "env"
                                          ELSE IF flags[p] # Unset THEN "flag" ELSE "default"
        /\ \A p \in C!Numbers : c[p] = IF env[p] # Unset THEN env[p]
                                       ELSE IF flags[p] # Unset THEN flags[p] ELSE 5
    BY <2>1, StartedIsUsable DEF flags, env
  <2>4. ASSUME NEW p \in C!Numbers
        PROVE  c[p] = IF env[p] # Unset THEN 2 ELSE IF flags[p] # Unset THEN 1 ELSE 5
    <3>1. p \in C!Parameters
      BY DEF C!Parameters
    <3>2. env[p] # Malformed /\ flags[p] # Malformed
      BY <3>1 DEF C!Accepts, C!Parsable, flags, env
    <3>3. c[p] > 0
      BY DEF C!Accepts, C!validate, flags, env
    <3> HIDE DEF c
    <3> QED
      BY <2>2, <2>3, <3>2, <3>3
  <2> QED
    BY <2>3, <2>4 DEF flags, env
<1> QED
  BY <1>1, <1>2, <1>3, PTL DEF Spec

-----------------------------------------------------------------------------
(* The answer *)

Calls(Chunks) ==
  [call : {"WriteHeader"}, status : Nat \ {0}] \cup [call : {"Write"}, chunk : Chunks]

Pieces(Chunks) == Chunks \cup {GzipHeader, GzipTrailer}

Writers(Chunks) ==
  [status : Nat, encoding : {"identity", "gzip"}, sent : {"identity", "gzip"},
   body : Seq(Pieces(Chunks)), logged : Nat, size : Nat, headerWriten : BOOLEAN,
   started : BOOLEAN]

\* What net/http does to a writer leaves it one.
LEMMA NetKeepsWriter ==
  ASSUME NEW Chunks, NEW w \in Writers(Chunks)
  PROVE  /\ \A status \in Nat : NetHeader(w, status) \in Writers(Chunks)
         /\ \A status \in Nat : LoggedHeader(w, status) \in Writers(Chunks)
         /\ \A chunk \in Pieces(Chunks) : NetWrite(w, chunk) \in Writers(Chunks)
<1>1. ASSUME NEW v \in Writers(Chunks), NEW status \in Nat
      PROVE  NetHeader(v, status) \in Writers(Chunks)
  BY DEF NetHeader, Writers
<1>2. ASSUME NEW status \in Nat PROVE LoggedHeader(w, status) \in Writers(Chunks)
  <2>1. NetHeader(w, status) \in Writers(Chunks)
    BY <1>1
  <2> QED
    BY <2>1 DEF LoggedHeader, Writers
<1>3. ASSUME NEW chunk \in Pieces(Chunks) PROVE NetWrite(w, chunk) \in Writers(Chunks)
  <2> DEFINE v == NetHeader(w, 200)
  <2>1. v \in Writers(Chunks)
    BY <1>1
  <2> HIDE DEF v
  <2>2. [v EXCEPT !.body = Append(@, chunk), !.size = @ + 1] \in Writers(Chunks)
    <3>1. Append(v.body, chunk) \in Seq(Pieces(Chunks)) /\ v.size + 1 \in Nat
      <4>1. v.body \in Seq(Pieces(Chunks)) /\ v.size \in Nat
        BY <2>1 DEF Writers
      <4> QED
        BY <4>1
    <3> QED
      BY <2>1, <3>1 DEF Writers
  <2> QED
    BY <2>1, <2>2 DEF NetWrite, v
<1> QED
  BY <1>1, <1>2, <1>3

\* So does a call of the handler, whichever writer it is made on.
LEMMA CallKeepsWriter ==
  ASSUME NEW Chunks, NEW zipped \in BOOLEAN, NEW w \in Writers(Chunks),
         NEW c \in Calls(Chunks)
  PROVE  Called(zipped, w, c) \in Writers(Chunks)
<1>1. ASSUME NEW v \in Writers(Chunks), NEW chunk \in Pieces(Chunks)
      PROVE  ZipWrite(v, chunk) \in Writers(Chunks)
  <2>1. [v EXCEPT !.started = TRUE] \in Writers(Chunks)
    BY DEF Writers
  <2>2. GzipHeader \in Pieces(Chunks)
    BY DEF Pieces
  <2>3. NetWrite([v EXCEPT !.started = TRUE], GzipHeader) \in Writers(Chunks)
    BY <2>1, <2>2, NetKeepsWriter
  <2> QED
    BY <2>3, NetKeepsWriter DEF ZipWrite
<1>2. ASSUME NEW v \in Writers(Chunks), NEW status \in Nat
      PROVE  WriterHeader(v, status) \in Writers(Chunks)
  <2>1. [v EXCEPT !.headerWriten = TRUE, !.encoding = "gzip"] \in Writers(Chunks)
    BY DEF Writers
  <2> QED
    BY <2>1, NetKeepsWriter DEF WriterHeader
<1>3. CASE c \in [call : {"WriteHeader"}, status : Nat \ {0}]
  BY <1>2, <1>3, NetKeepsWriter DEF Called
<1>4. CASE c \in [call : {"Write"}, chunk : Chunks]
  <2>1. c.call # "WriteHeader" /\ c.chunk \in Pieces(Chunks)
    BY <1>4 DEF Pieces
  <2>2. WriterWrite(w, c.chunk) \in Writers(Chunks)
    BY <1>1, <1>2, <2>1 DEF WriterWrite
  <2> QED
    BY <2>1, <2>2, NetKeepsWriter DEF Called
<1> QED
  BY <1>3, <1>4 DEF Calls

\* w[i + 1] is the writer after i calls.
CallByCall(zipped, n, calls, w) ==
  /\ w[1] = Unwritten
  /\ \A i \in 1 .. n : w[i + 1] = Called(zipped, w[i], calls[i])
  /\ Answered(zipped, calls) = w[n + 1]

\* The calls are made one by one.
LEMMA AnsweredByCalls ==
  ASSUME NEW Chunks, NEW zipped \in BOOLEAN, NEW n \in Nat,
         NEW calls \in [1 .. n -> Calls(Chunks)]
  PROVE  \E w : CallByCall(zipped, n, calls, w)
<1> DEFINE D == 1 .. n
           After(g, s) == IF s = {} THEN Unwritten
                          ELSE Called(zipped, g[s \ {Max(s)}], calls[Max(s)])
           IsFold(g) == g = [s \in SUBSET D |-> After(g, s)]
           c == CHOOSE g : IsFold(g)
<1>1. Answered(zipped, calls) = c[D]
  <2>1. DOMAIN calls = D
    OBVIOUS
  <2> QED
    BY <2>1 DEF Answered, FoldLeft, MapThenFoldSet
<1>2. \E g : IsFold(g)
  <2> DEFINE step == [p \in D \X Writers(Chunks) |-> Called(zipped, p[2], calls[p[1]])]
  <2>1. Unwritten \in Writers(Chunks)
    <3>1. <<>> \in Seq(Pieces(Chunks)) /\ 0 \in Nat
      OBVIOUS
    <3> QED
      BY <3>1 DEF Unwritten, Writers
  <2>2. ASSUME NEW i \in D, NEW y \in Writers(Chunks)
        PROVE  /\ step[<<i, y>>] = Called(zipped, y, calls[i])
               /\ Called(zipped, y, calls[i]) \in Writers(Chunks)
    BY CallKeepsWriter
  <2>3. \A i \in D, y \in Writers(Chunks) : step[<<i, y>>] \in Writers(Chunks)
    BY <2>2
  <2> HIDE DEF step
  <2>4. PICK g : InOrder(n, Greatest(n), Writers(Chunks), Unwritten, step, g)
    BY <2>1, <2>3, FoldInOrder, Zenon
  <2>5. ASSUME NEW s \in SUBSET D PROVE g[s] = After(g, s)
    BY <2>2, <2>4 DEF InOrder, Greatest
  <2>6. g \in [SUBSET D -> Writers(Chunks)]
    BY <2>4 DEF InOrder
  <2> HIDE DEF After
  <2> QED
    BY <2>5, <2>6
<1>3. ASSUME NEW s \in SUBSET D PROVE c[s] = After(c, s)
  <2>1. IsFold(c)
    BY <1>2
  <2> HIDE DEF c
  <2> QED
    BY <2>1
<1> HIDE DEF c
<1> DEFINE w == [i \in 1 .. n + 1 |-> c[1 .. i - 1]]
<1>4. w[1] = Unwritten
  <2>1. 1 .. (1 - 1) = {}
    OBVIOUS
  <2>2. w[1] = c[{}]
    BY <2>1
  <2> HIDE DEF w
  <2> QED
    BY <1>3, <2>2
<1>5. ASSUME NEW i \in 1 .. n PROVE w[i + 1] = Called(zipped, w[i], calls[i])
  <2>1. c[1 .. i] = After(c, 1 .. i)
    BY <1>3, FirstIndices
  <2>2. After(c, 1 .. i) = Called(zipped, c[1 .. i - 1], calls[i])
    BY FirstIndices
  <2>3. w[i + 1] = c[1 .. i] /\ w[i] = c[1 .. i - 1]
    OBVIOUS
  <2> HIDE DEF w, After
  <2> QED
    BY <2>1, <2>2, <2>3
<1>6. Answered(zipped, calls) = w[n + 1]
  BY <1>1
<1> HIDE DEF w
<1> QED
  BY <1>4, <1>5, <1>6 DEF CallByCall

\* What a writer has taken when the status and these chunks were written to it.
Plain(w, status, logged, chunks) ==
  /\ w.status = status /\ w.sent = "identity" /\ w.logged = logged
  /\ w.body = IF status = 204 THEN <<>> ELSE chunks
  /\ w.size = Len(w.body)

Zipped(w, status, chunks) ==
  /\ w.status = status /\ w.sent = "gzip" /\ w.logged = status /\ w.headerWriten
  /\ w.started <=> chunks # <<>>
  /\ w.body = IF status = 204 \/ chunks = <<>> THEN <<>> ELSE <<GzipHeader>> \o chunks
  /\ w.size = Len(w.body)

\* When the status has gone, a write adds to the body, or nothing for 204.
LEMMA WriteAdds ==
  ASSUME NEW Chunks, NEW w \in Writers(Chunks), w.status # 0, NEW chunk \in Pieces(Chunks)
  PROVE  LET v == NetWrite(w, chunk)
         IN  /\ v.status = w.status /\ v.sent = w.sent /\ v.logged = w.logged
             /\ v.headerWriten = w.headerWriten /\ v.started = w.started
             /\ v.body = IF w.status = 204 THEN w.body ELSE Append(w.body, chunk)
             /\ v.size = IF w.status = 204 THEN w.size ELSE w.size + 1
<1>1. NetHeader(w, 200) = w
  BY DEF NetHeader
<1>2. CASE w.status = 204
  BY <1>1, <1>2 DEF NetWrite
<1>3. CASE w.status # 204
  <2>1. NetWrite(w, chunk) = [w EXCEPT !.body = Append(@, chunk), !.size = @ + 1]
    BY <1>1, <1>3 DEF NetWrite
  <2> QED
    BY <1>3, <2>1 DEF Writers
<1> QED
  BY <1>2, <1>3

\* A write keeps a plain answer plain and adds the chunk to it.
LEMMA PlainWrite ==
  ASSUME NEW Chunks, NEW w \in Writers(Chunks), NEW status \in Nat \ {0}, NEW logged,
         NEW chunks \in Seq(Chunks), Plain(w, status, logged, chunks),
         NEW chunk \in Chunks
  PROVE  Plain(NetWrite(w, chunk), status, logged, Append(chunks, chunk))
<1> DEFINE v == NetWrite(w, chunk)
<1>1. /\ v.status = status /\ v.sent = "identity" /\ v.logged = logged
      /\ v.body = IF status = 204 THEN w.body ELSE Append(w.body, chunk)
      /\ v.size = IF status = 204 THEN w.size ELSE w.size + 1
  BY WriteAdds DEF Plain, Pieces
<1>2. w.body \in Seq(Pieces(Chunks)) /\ w.size = Len(w.body)
  BY DEF Writers, Plain
<1>3. w.body = IF status = 204 THEN <<>> ELSE chunks
  BY DEF Plain
<1>4. v.size = Len(v.body)
  <2> HIDE DEF v
  <2>1. chunk \in Pieces(Chunks)
    BY DEF Pieces
  <2>2. Len(Append(w.body, chunk)) = Len(w.body) + 1
    BY <1>2, <2>1
  <2> QED
    BY <1>1, <1>2, <2>2
<1> HIDE DEF v
<1>5. Plain(v, status, logged, Append(chunks, chunk))
  BY <1>1, <1>3, <1>4 DEF Plain
<1> QED
  BY <1>5 DEF v

\* The header of the stream goes before the first chunk.
LEMMA ZippedWrite ==
  ASSUME NEW Chunks, NEW w \in Writers(Chunks), NEW status \in Nat \ {0},
         NEW chunks \in Seq(Chunks), Zipped(w, status, chunks),
         NEW chunk \in Pieces(Chunks)
  PROVE  LET v == ZipWrite(w, chunk)
         IN  /\ v.status = status /\ v.sent = "gzip" /\ v.logged = status
             /\ v.headerWriten /\ v.started
             /\ v.body = IF status = 204 THEN <<>>
                         ELSE Append(<<GzipHeader>> \o chunks, chunk)
             /\ v.size = Len(v.body)
<1> DEFINE u == NetWrite([w EXCEPT !.started = TRUE], GzipHeader)
           v == ZipWrite(w, chunk)
<1>1. GzipHeader \in Pieces(Chunks) /\ chunks \in Seq(Pieces(Chunks))
  BY DEF Pieces
<1>2. w.body \in Seq(Pieces(Chunks)) /\ w.size = Len(w.body) /\ w.status = status
  BY DEF Writers, Zipped
<1>3. CASE chunks # <<>>
  <2>1. w.started /\ v = NetWrite(w, chunk)
    BY <1>3 DEF Zipped, ZipWrite
  <2>2. w.body = IF status = 204 THEN <<>> ELSE <<GzipHeader>> \o chunks
    BY <1>3 DEF Zipped
  <2> HIDE DEF v
  <2>3. /\ v.status = status /\ v.sent = "gzip" /\ v.logged = status
        /\ v.headerWriten /\ v.started
        /\ v.body = IF status = 204 THEN w.body ELSE Append(w.body, chunk)
        /\ v.size = IF status = 204 THEN w.size ELSE w.size + 1
    BY <2>1, WriteAdds DEF Zipped
  <2>4. Len(Append(w.body, chunk)) = Len(w.body) + 1
    BY <1>2
  <2>5. v.size = Len(v.body)
    BY <1>2, <2>3, <2>4
  <2>6. v.body = IF status = 204 THEN <<>> ELSE Append(<<GzipHeader>> \o chunks, chunk)
    BY <2>2, <2>3
  <2> QED
    BY <2>3, <2>5, <2>6 DEF v
<1>4. CASE chunks = <<>>
  <2> DEFINE x == [w EXCEPT !.started = TRUE]
  <2>1. /\ x \in Writers(Chunks) /\ x.status = status /\ x.sent = "gzip"
        /\ x.logged = status /\ x.headerWriten /\ x.started /\ x.body = <<>> /\ x.size = 0
    BY <1>4 DEF Writers, Zipped
  <2>2. ~w.started
    BY <1>4 DEF Zipped
  <2>3. v = NetWrite(u, chunk) /\ u = NetWrite(x, GzipHeader)
    BY <2>2 DEF ZipWrite
  <2> HIDE DEF u, v, x
  <2>4. u \in Writers(Chunks)
    BY <1>1, <2>1, <2>3, NetKeepsWriter
  <2>5. /\ u.status = status /\ u.sent = "gzip" /\ u.logged = status
        /\ u.headerWriten /\ u.started
        /\ u.body = IF status = 204 THEN <<>> ELSE Append(<<>>, GzipHeader)
        /\ u.size = IF status = 204 THEN 0 ELSE 1
    <3>1. /\ u.status = x.status /\ u.sent = x.sent /\ u.logged = x.logged
          /\ u.headerWriten = x.headerWriten /\ u.started = x.started
          /\ u.body = IF x.status = 204 THEN x.body ELSE Append(x.body, GzipHeader)
          /\ u.size = IF x.status = 204 THEN x.size ELSE x.size + 1
      <4>1. x \in Writers(Chunks) /\ x.status # 0 /\ GzipHeader \in Pieces(Chunks)
        BY <1>1, <2>1
      <4> QED
        BY <2>3, <4>1, WriteAdds
    <3> QED
      BY <2>1, <3>1
  <2>6. /\ v.status = status /\ v.sent = "gzip" /\ v.logged = status
        /\ v.headerWriten /\ v.started
        /\ v.body = IF status = 204 THEN u.body ELSE Append(u.body, chunk)
        /\ v.size = IF status = 204 THEN u.size ELSE u.size + 1
    BY <2>3, <2>4, <2>5, WriteAdds
  <2>7. Append(<<>>, GzipHeader) = <<GzipHeader>> \o chunks
    BY <1>4
  <2>8. v.body = IF status = 204 THEN <<>> ELSE Append(<<GzipHeader>> \o chunks, chunk)
    <3>1. CASE status = 204
      BY <2>5, <2>6, <3>1
    <3>2. CASE status # 204
      <4>1. v.body = Append(u.body, chunk) /\ u.body = Append(<<>>, GzipHeader)
        BY <2>5, <2>6, <3>2
      <4> QED
        BY <2>7, <3>2, <4>1, Zenon
    <3> QED
      BY <3>1, <3>2
  <2>9. v.size = Len(v.body)
    <3>1. CASE status = 204
      <4>1. v.size = 0 /\ v.body = <<>>
        BY <2>5, <2>6, <3>1
      <4> QED
        BY <4>1
    <3>2. CASE status # 204
      <4>1. v.size = 2 /\ v.body = Append(Append(<<>>, GzipHeader), chunk)
        BY <2>5, <2>6, <3>2
      <4> QED
        BY <4>1
    <3> QED
      BY <3>1, <3>2
  <2> QED
    BY <2>6, <2>8, <2>9 DEF v
<1> QED
  BY <1>3, <1>4

\* A write keeps a compressed answer compressed and adds the chunk to it.
LEMMA ZippedKeeps ==
  ASSUME NEW Chunks, NEW w \in Writers(Chunks), NEW status \in Nat \ {0},
         NEW chunks \in Seq(Chunks), Zipped(w, status, chunks),
         NEW chunk \in Chunks
  PROVE  Zipped(ZipWrite(w, chunk), status, Append(chunks, chunk))
<1> DEFINE v == ZipWrite(w, chunk)
<1>1. /\ v.status = status /\ v.sent = "gzip" /\ v.logged = status
      /\ v.headerWriten /\ v.started
      /\ v.body = IF status = 204 THEN <<>> ELSE Append(<<GzipHeader>> \o chunks, chunk)
      /\ v.size = Len(v.body)
  <2>1. chunk \in Pieces(Chunks)
    BY DEF Pieces
  <2> QED
    BY <2>1, ZippedWrite
<1> HIDE DEF v
<1>2. Append(<<GzipHeader>> \o chunks, chunk) = <<GzipHeader>> \o Append(chunks, chunk)
  <2>1. chunks \in Seq(Pieces(Chunks)) /\ chunk \in Pieces(Chunks)
        /\ GzipHeader \in Pieces(Chunks)
    BY DEF Pieces
  <2> QED
    BY <2>1
<1>3. Append(chunks, chunk) # <<>>
  OBVIOUS
<1>4. Zipped(v, status, Append(chunks, chunk))
  BY <1>1, <1>2, <1>3 DEF Zipped
<1> QED
  BY <1>4 DEF v

\* The status of a handler's calls and the chunks of the first i of them.
Headed(calls) == calls[1].call = "WriteHeader"
StatusOf(calls) == IF Headed(calls) THEN calls[1].status ELSE 200
Chunked(calls, i) ==
  IF Headed(calls) THEN [j \in 1 .. i - 1 |-> calls[j + 1].chunk]
                   ELSE [j \in 1 .. i |-> calls[j].chunk]

\* A handler's calls: the status, if it is given, and then the body.
IsScript(Chunks, n, calls) ==
  /\ calls \in [1 .. n -> Calls(Chunks)]
  /\ \A i \in 2 .. n : calls[i].call = "Write"

\* A call has a status or a chunk.
LEMMA CallIsEither ==
  ASSUME NEW Chunks, NEW c \in Calls(Chunks)
  PROVE  IF c.call = "WriteHeader" THEN c.status \in Nat \ {0}
                                   ELSE c.call = "Write" /\ c.chunk \in Chunks
BY DEF Calls

\* The chunks of the first calls are written one by one after the status.
LEMMA ChunkedGrows ==
  ASSUME NEW Chunks, NEW n \in Nat \ {0}, NEW calls, IsScript(Chunks, n, calls)
  PROVE  /\ StatusOf(calls) \in Nat \ {0}
         /\ Chunked(calls, 1) = IF Headed(calls) THEN <<>> ELSE Append(<<>>, calls[1].chunk)
         /\ \A i \in 1 .. n : Chunked(calls, i) \in Seq(Chunks)
         /\ \A i \in 1 .. n - 1 :
              /\ calls[i + 1].call = "Write" /\ calls[i + 1].chunk \in Chunks
              /\ Chunked(calls, i + 1) = Append(Chunked(calls, i), calls[i + 1].chunk)
<1>1. \A i \in 1 .. n : calls[i] \in Calls(Chunks)
  BY DEF IsScript
<1>2. StatusOf(calls) \in Nat \ {0}
  BY <1>1, CallIsEither DEF StatusOf, Headed
<1>3. ASSUME NEW i \in 2 .. n PROVE calls[i].call = "Write" /\ calls[i].chunk \in Chunks
  <2>1. calls[i].call = "Write" /\ i \in 1 .. n
    BY DEF IsScript
  <2> QED
    BY <1>1, <2>1, CallIsEither
<1>4. ~Headed(calls) => calls[1].chunk \in Chunks
  BY <1>1, CallIsEither DEF Headed
<1>5. Chunked(calls, 1) = IF Headed(calls) THEN <<>> ELSE Append(<<>>, calls[1].chunk)
  <2>1. CASE Headed(calls)
    BY <2>1 DEF Chunked
  <2>2. CASE ~Headed(calls)
    BY <1>4, <2>2 DEF Chunked
  <2> QED
    BY <2>1, <2>2
<1>6. ASSUME NEW i \in 1 .. n PROVE Chunked(calls, i) \in Seq(Chunks)
  <2>1. CASE Headed(calls)
    <3>1. \A j \in 1 .. i - 1 : calls[j + 1].chunk \in Chunks
      BY <1>3
    <3> QED
      BY <2>1, <3>1 DEF Chunked
  <2>2. CASE ~Headed(calls)
    <3>1. \A j \in 1 .. i : calls[j].chunk \in Chunks
      <4> TAKE j \in 1 .. i
      <4>1. j = 1 \/ j \in 2 .. n
        OBVIOUS
      <4> QED
        BY <1>3, <1>4, <2>2, <4>1
    <3> QED
      BY <2>2, <3>1 DEF Chunked
  <2> QED
    BY <2>1, <2>2
<1>7. ASSUME NEW i \in 1 .. n - 1
      PROVE  Chunked(calls, i + 1) = Append(Chunked(calls, i), calls[i + 1].chunk)
  <2>1. Chunked(calls, i) \in Seq(Chunks) /\ Chunked(calls, i + 1) \in Seq(Chunks)
    BY <1>6
  <2>2. CASE Headed(calls)
    <3>1. (i + 1) - 1 = i /\ i - 1 \in Nat
      OBVIOUS
    <3> QED
      BY <2>1, <2>2, <3>1 DEF Chunked
  <2>3. CASE ~Headed(calls)
    BY <2>1, <2>3 DEF Chunked
  <2> QED
    BY <2>2, <2>3
<1>8. ASSUME NEW i \in 1 .. n - 1
      PROVE  calls[i + 1].call = "Write" /\ calls[i + 1].chunk \in Chunks
  BY <1>3
<1> QED
  BY <1>2, <1>5, <1>6, <1>7, <1>8

\* What a writer has taken, on either path.
Taken(zipped, w, calls, chunks) ==
  IF zipped THEN Zipped(w, StatusOf(calls), chunks)
  ELSE Plain(w, StatusOf(calls), IF Headed(calls) THEN StatusOf(calls) ELSE 0, chunks)

\* The first call sends the status, and the encoding before it.
LEMMA FirstCall ==
  ASSUME NEW Chunks, NEW zipped \in BOOLEAN, NEW n \in Nat \ {0}, NEW calls,
         IsScript(Chunks, n, calls)
  PROVE  Taken(zipped, Called(zipped, Unwritten, calls[1]), calls, Chunked(calls, 1))
<1> DEFINE status == StatusOf(calls)
<1>1. /\ status \in Nat \ {0}
      /\ Chunked(calls, 1) = IF Headed(calls) THEN <<>> ELSE Append(<<>>, calls[1].chunk)
  BY ChunkedGrows
<1>2. calls[1] \in Calls(Chunks)
  BY DEF IsScript
<1>3. ~Headed(calls) => status = 200 /\ calls[1].chunk \in Chunks
  BY <1>2, CallIsEither DEF StatusOf, Headed
<1>4. Headed(calls) => calls[1].status = status
  BY DEF StatusOf
<1> DEFINE plain == NetHeader(Unwritten, status)
           zip == WriterHeader(Unwritten, status)
<1>5. Unwritten \in Writers(Chunks)
  <2>1. <<>> \in Seq(Pieces(Chunks)) /\ 0 \in Nat
    OBVIOUS
  <2> QED
    BY <2>1 DEF Unwritten, Writers
<1>6. /\ plain \in Writers(Chunks) /\ Plain(plain, status, 0, <<>>)
      /\ Plain(LoggedHeader(Unwritten, status), status, status, <<>>)
  <2>1. plain \in Writers(Chunks)
    BY <1>1, <1>5, NetKeepsWriter
  <2> HIDE DEF status
  <2>2. plain = [Unwritten EXCEPT !.status = status, !.sent = "identity"]
    BY DEF NetHeader, Unwritten
  <2>3. Plain(plain, status, 0, <<>>)
    BY <2>2 DEF Plain, Unwritten
  <2>4. LoggedHeader(Unwritten, status) = [plain EXCEPT !.logged = status]
    BY DEF LoggedHeader
  <2>5. Plain(LoggedHeader(Unwritten, status), status, status, <<>>)
    <3> HIDE DEF plain
    <3> QED
      BY <2>1, <2>3, <2>4 DEF Plain, Writers
  <2> QED
    BY <2>1, <2>3, <2>5
<1>7. zip \in Writers(Chunks) /\ Zipped(zip, status, <<>>)
  <2> DEFINE begun == [Unwritten EXCEPT !.headerWriten = TRUE, !.encoding = "gzip"]
  <2>1. begun \in Writers(Chunks)
    BY <1>5 DEF Writers
  <2> HIDE DEF status
  <2>2. zip = [NetHeader(begun, status) EXCEPT !.logged = status]
    BY DEF WriterHeader, LoggedHeader, Unwritten
  <2>3. NetHeader(begun, status) = [begun EXCEPT !.status = status, !.sent = "gzip"]
    BY DEF NetHeader, Unwritten
  <2>4. zip \in Writers(Chunks)
    <3>1. LoggedHeader(begun, status) \in Writers(Chunks)
      <4> HIDE DEF begun
      <4> QED
        BY <1>1, <2>1, NetKeepsWriter
    <3> QED
      BY <2>2, <3>1 DEF LoggedHeader
  <2>5. Zipped(zip, status, <<>>)
    <3> DEFINE sent == NetHeader(begun, status)
    <3>1. /\ sent.status = status /\ sent.sent = "gzip" /\ sent.headerWriten
          /\ ~sent.started /\ sent.body = <<>> /\ sent.size = 0
      BY <2>3 DEF Unwritten
    <3>2. sent \in Writers(Chunks)
      <4> HIDE DEF begun
      <4> QED
        BY <1>1, <2>1, NetKeepsWriter
    <3> HIDE DEF sent, begun
    <3>3. zip = [sent EXCEPT !.logged = status]
      BY <2>2 DEF sent
    <3> HIDE DEF zip
    <3>4. /\ zip.status = status /\ zip.sent = "gzip" /\ zip.headerWriten
          /\ ~zip.started /\ zip.body = <<>> /\ zip.size = 0 /\ zip.logged = status
      BY <3>1, <3>2, <3>3 DEF Writers
    <3> QED
      BY <3>4 DEF Zipped
  <2> QED
    BY <2>4, <2>5
<1>8. CASE Headed(calls)
  <2>1. Called(zipped, Unwritten, calls[1]) =
          IF zipped THEN zip ELSE LoggedHeader(Unwritten, status)
    BY <1>4, <1>8 DEF Called, Headed
  <2> HIDE DEF zip, plain
  <2> QED
    BY <1>1, <1>6, <1>7, <1>8, <2>1 DEF Taken
<1>9. CASE ~Headed(calls)
  <2> DEFINE chunk == calls[1].chunk
  <2>1. Called(zipped, Unwritten, calls[1]) =
          IF zipped THEN ZipWrite(zip, chunk) ELSE NetWrite(Unwritten, chunk)
    BY <1>3, <1>9 DEF Called, Headed, WriterWrite, Unwritten
  <2>2. NetWrite(Unwritten, chunk) = NetWrite(plain, chunk)
    <3>1. NetHeader(Unwritten, 200) = plain /\ NetHeader(plain, 200) = plain
      BY <1>3, <1>9 DEF NetHeader, Unwritten
    <3> DEFINE Sent(v) == IF v.status = 204 THEN v
                          ELSE [v EXCEPT !.body = Append(v.body, chunk),
                                         !.size = v.size + 1]
    <3> HIDE DEF plain, chunk
    <3>2. \A v : NetWrite(v, chunk) = Sent(NetHeader(v, 200))
      BY DEF NetWrite
    <3> HIDE DEF Sent
    <3> QED
      BY <3>1, <3>2
  <2>3. <<>> \in Seq(Chunks) /\ chunk \in Chunks
    BY <1>3, <1>9
  <2> HIDE DEF zip, plain, chunk
  <2>4. Plain(NetWrite(plain, chunk), status, 0, Append(<<>>, chunk))
    BY <1>1, <1>6, <2>3, PlainWrite
  <2>5. Zipped(ZipWrite(zip, chunk), status, Append(<<>>, chunk))
    BY <1>1, <1>7, <2>3, ZippedKeeps
  <2> QED
    BY <1>1, <1>9, <2>1, <2>2, <2>4, <2>5 DEF Taken, chunk
<1> QED
  BY <1>8, <1>9

\* After all of its calls the writer has taken the whole answer.
LEMMA AnsweredIsTaken ==
  ASSUME NEW Chunks, NEW zipped \in BOOLEAN, NEW n \in Nat \ {0}, NEW calls,
         IsScript(Chunks, n, calls)
  PROVE  /\ Answered(zipped, calls) \in Writers(Chunks)
         /\ Taken(zipped, Answered(zipped, calls), calls, Chunked(calls, n))
<1>1. calls \in [1 .. n -> Calls(Chunks)] /\ n \in Nat
  BY DEF IsScript
<1>2. PICK w : CallByCall(zipped, n, calls, w)
  BY <1>1, AnsweredByCalls, Zenon
<1> DEFINE Claim(i) == /\ w[i + 1] \in Writers(Chunks)
                       /\ Taken(zipped, w[i + 1], calls, Chunked(calls, i))
           T == {k \in Nat : k < n => Claim(k + 1)}
<1>3. Claim(1)
  <2>1. w[2] = Called(zipped, Unwritten, calls[1])
    BY <1>2 DEF CallByCall
  <2>2. Unwritten \in Writers(Chunks)
    <3>1. <<>> \in Seq(Pieces(Chunks)) /\ 0 \in Nat
      OBVIOUS
    <3> QED
      BY <3>1 DEF Unwritten, Writers
  <2>3. w[2] \in Writers(Chunks)
    BY <1>1, <2>1, <2>2, CallKeepsWriter
  <2>4. Taken(zipped, w[2], calls, Chunked(calls, 1))
    BY <2>1, FirstCall
  <2> QED
    BY <2>3, <2>4
<1>4. ASSUME NEW i \in 1 .. n - 1, Claim(i)
      PROVE  Claim(i + 1)
  <2> DEFINE u == w[i + 1]
             chunk == calls[i + 1].chunk
             chunks == Chunked(calls, i)
  <2>1. /\ StatusOf(calls) \in Nat \ {0} /\ chunks \in Seq(Chunks)
        /\ calls[i + 1].call = "Write" /\ chunk \in Chunks
        /\ Chunked(calls, i + 1) = Append(chunks, chunk)
    <3>1. i \in 1 .. n
      OBVIOUS
    <3> QED
      BY <3>1, ChunkedGrows
  <2>2. w[(i + 1) + 1] = Called(zipped, u, calls[i + 1]) /\ i + 1 \in 1 .. n
    <3>1. i + 1 \in 1 .. n
      OBVIOUS
    <3> QED
      BY <1>2, <3>1 DEF CallByCall
  <2>3. u \in Writers(Chunks) /\ Taken(zipped, u, calls, chunks)
    BY <1>4
  <2>4. w[(i + 1) + 1] \in Writers(Chunks)
    BY <1>1, <2>2, <2>3, CallKeepsWriter
  <2> HIDE DEF u, chunks, chunk
  <2>5. CASE zipped
    <3>1. Zipped(u, StatusOf(calls), chunks)
      BY <2>3, <2>5 DEF Taken
    <3>2. Called(zipped, u, calls[i + 1]) = ZipWrite(u, chunk)
      BY <2>1, <2>5, <3>1 DEF Called, WriterWrite, Zipped, chunk
    <3>3. Zipped(ZipWrite(u, chunk), StatusOf(calls), Append(chunks, chunk))
      BY <2>1, <2>3, <3>1, ZippedKeeps
    <3> QED
      BY <2>1, <2>2, <2>4, <2>5, <3>2, <3>3 DEF Taken
  <2>6. CASE ~zipped
    <3> DEFINE logged == IF Headed(calls) THEN StatusOf(calls) ELSE 0
    <3>1. Plain(u, StatusOf(calls), logged, chunks)
      BY <2>3, <2>6 DEF Taken
    <3>2. Called(zipped, u, calls[i + 1]) = NetWrite(u, chunk)
      BY <2>1, <2>6 DEF Called, chunk
    <3> HIDE DEF logged
    <3>3. Plain(NetWrite(u, chunk), StatusOf(calls), logged, Append(chunks, chunk))
      BY <2>1, <2>3, <3>1, PlainWrite
    <3> QED
      BY <2>1, <2>2, <2>4, <2>6, <3>2, <3>3 DEF Taken, logged
  <2> QED
    BY <2>5, <2>6
<1>5. 0 \in T
  <2> HIDE DEF Claim
  <2> QED
    BY <1>3
<1>6. ASSUME NEW k \in Nat, k \in T PROVE k + 1 \in T
  <2> HIDE DEF Claim
  <2>1. SUFFICES ASSUME k + 1 < n PROVE Claim((k + 1) + 1)
    OBVIOUS
  <2>2. k + 1 \in 1 .. n - 1 /\ Claim(k + 1)
    BY <1>6, <2>1
  <2> QED
    BY <1>4, <2>2
<1>7. Claim(n)
  <2> HIDE DEF T, Claim
  <2>1. Nat \subseteq T
    BY <1>5, <1>6, AllNaturals
  <2>2. n - 1 \in Nat /\ n - 1 < n /\ (n - 1) + 1 = n
    OBVIOUS
  <2>3. Claim((n - 1) + 1)
    BY <2>1, <2>2 DEF T
  <2> QED
    BY <2>2, <2>3
<1> QED
  BY <1>2, <1>7 DEF CallByCall

\* What is to arrive: the status, the chunks, and in the log what was sent.
Arrives(accepts, a, status, chunks) ==
  /\ a.status = status /\ a.logged = status
  /\ Decoded(a) = IF status = 204 THEN <<>> ELSE chunks
  /\ a.size = Len(a.body)
  /\ a.sent = "gzip" => accepts

\* The client gets back what stands between the header and the trailer.
LEMMA DecodedIsWritten ==
  ASSUME NEW Bytes, GzipHeader \in Bytes, GzipTrailer \in Bytes,
         NEW chunks \in Seq(Bytes), NEW body,
         body = Append(<<GzipHeader>> \o chunks, GzipTrailer)
  PROVE  /\ Len(body) >= 2 /\ Head(body) = GzipHeader /\ Last(body) = GzipTrailer
         /\ SubSeq(body, 2, Len(body) - 1) = chunks
<1>1. Len(body) = Len(chunks) + 2 /\ Len(chunks) \in Nat /\ body \in Seq(Bytes)
  OBVIOUS
<1>2. Len(body) >= 2
  BY <1>1
<1>3. Head(body) = GzipHeader
  OBVIOUS
<1>4. Last(body) = GzipTrailer
  <2>1. body[Len(chunks) + 2] = GzipTrailer
    OBVIOUS
  <2> QED
    BY <1>1, <2>1 DEF Last
<1>5. SubSeq(body, 2, Len(body) - 1) = chunks
  <2> DEFINE inner == SubSeq(body, 2, Len(body) - 1)
  <2>1. inner \in Seq(Bytes) /\ Len(inner) = Len(chunks)
    BY <1>1
  <2>2. ASSUME NEW i \in 1 .. Len(chunks) PROVE inner[i] = chunks[i]
    <3>1. inner[i] = body[i + 1]
      BY <1>1
    <3>2. body[i + 1] = (<<GzipHeader>> \o chunks)[i + 1]
      OBVIOUS
    <3>3. (<<GzipHeader>> \o chunks)[i + 1] = chunks[i]
      OBVIOUS
    <3> QED
      BY <3>1, <3>2, <3>3
  <2> HIDE DEF inner
  <2> QED
    BY <2>1, <2>2
<1> QED
  BY <1>2, <1>3, <1>4, <1>5

\* The stream is closed and the log written.
Finished(zipped, calls) ==
  LET w == Answered(zipped, calls)
      v == IF zipped THEN Close(w) ELSE w
  IN  [NetHeader(v, 200) EXCEPT !.logged = IF @ = 0 THEN 200 ELSE @]

\* Then the answer has arrived.
LEMMA FinishedArrives ==
  ASSUME NEW Chunks, NEW zipped \in BOOLEAN, NEW n \in Nat \ {0}, NEW calls,
         IsScript(Chunks, n, calls)
  PROVE  Arrives(zipped, Finished(zipped, calls), StatusOf(calls), Chunked(calls, n))
<1> DEFINE w == Answered(zipped, calls)
           v == IF zipped THEN Close(w) ELSE w
           status == StatusOf(calls)
           chunks == Chunked(calls, n)
           a == [NetHeader(v, 200) EXCEPT !.logged = IF @ = 0 THEN 200 ELSE @]
<1>1. /\ w \in Writers(Chunks) /\ Taken(zipped, w, calls, chunks)
      /\ status \in Nat \ {0} /\ chunks \in Seq(Chunks)
  <2>1. n \in 1 .. n
    OBVIOUS
  <2> QED
    BY <2>1, AnsweredIsTaken, ChunkedGrows
<1>2. ~Headed(calls) => status = 200
  BY DEF StatusOf
<1>3. GzipTrailer \in Pieces(Chunks) /\ GzipHeader \in Pieces(Chunks)
      /\ chunks \in Seq(Pieces(Chunks))
  BY <1>1 DEF Pieces
<1>0. Finished(zipped, calls) = a
  BY DEF Finished
<1> HIDE DEF w, status, chunks
<1>4. CASE zipped
  <2>1. Zipped(w, status, chunks)
    BY <1>1, <1>4 DEF Taken, status
  <2>2. v = ZipWrite(w, GzipTrailer)
    BY <1>4 DEF Close
  <2>3. /\ v.status = status /\ v.sent = "gzip" /\ v.logged = status
        /\ v.body = IF status = 204 THEN <<>>
                    ELSE Append(<<GzipHeader>> \o chunks, GzipTrailer)
        /\ v.size = Len(v.body)
    BY <1>1, <1>3, <2>1, <2>2, ZippedWrite
  <2> HIDE DEF v
  <2>4. NetHeader(v, 200) = v
    BY <1>1, <2>3 DEF NetHeader
  <2>5. a.status = status /\ a.sent = "gzip" /\ a.logged = status
        /\ a.body = v.body /\ a.size = v.size
    BY <1>1, <2>2, <2>3, <2>4
  <2> HIDE DEF a
  <2>6. Decoded(a) = IF status = 204 THEN <<>> ELSE chunks
    <3>1. CASE status = 204
      BY <2>3, <2>5, <3>1 DEF Decoded
    <3>2. CASE status # 204
      <4>1. a.body = Append(<<GzipHeader>> \o chunks, GzipTrailer)
        BY <2>3, <2>5, <3>2
      <4>2. /\ Len(a.body) >= 2 /\ Head(a.body) = GzipHeader /\ Last(a.body) = GzipTrailer
            /\ SubSeq(a.body, 2, Len(a.body) - 1) = chunks
        BY <1>3, <4>1, DecodedIsWritten
      <4>3. ~(a.sent = "identity" \/ a.status = 204)
        BY <2>5, <3>2
      <4> QED
        BY <3>2, <4>2, <4>3, Zenon DEF Decoded
    <3> QED
      BY <3>1, <3>2
  <2>7. Arrives(zipped, a, status, chunks)
    BY <1>4, <2>3, <2>5, <2>6 DEF Arrives
  <2> QED
    BY <1>0, <2>7 DEF a, status, chunks
<1>5. CASE ~zipped
  <2>1. Plain(w, status, IF Headed(calls) THEN status ELSE 0, chunks)
    BY <1>1, <1>5 DEF Taken, status
  <2>2. v = w /\ NetHeader(v, 200) = w
    BY <1>1, <1>5, <2>1 DEF NetHeader, Plain
  <2>3. a.status = status /\ a.sent = "identity" /\ a.logged = status
        /\ a.body = w.body /\ a.size = w.size
    BY <1>1, <1>2, <2>1, <2>2 DEF Plain, Writers
  <2> HIDE DEF a
  <2>4. Arrives(zipped, a, status, chunks)
    BY <2>1, <2>3 DEF Arrives, Decoded, Plain
  <2> QED
    BY <1>0, <2>4 DEF a, status, chunks
<1> QED
  BY <1>4, <1>5

Requests == [accepts : BOOLEAN, encoded : BOOLEAN, valid : BOOLEAN]

\* The calls of which the client sees the outcome.
Script(request, calls) ==
  IF request.encoded /\ ~request.valid THEN InvalidBody ELSE calls

\* What the middleware answers to a body that is no gzip stream is such calls.
LEMMA InvalidBodyIsScript ==
  ASSUME NEW Chunks, InvalidGzipBody \in Chunks
  PROVE  IsScript(Chunks, 2, InvalidBody)
<1> DEFINE header == WriteHeader(400)
           body == Write(InvalidGzipBody)
<1>1. header \in [call : {"WriteHeader"}, status : Nat \ {0}]
  <2>1. 400 \in Nat \ {0}
    OBVIOUS
  <2> QED
    BY <2>1, Zenon DEF WriteHeader
<1>2. body \in [call : {"Write"}, chunk : Chunks] /\ body.call = "Write"
  BY DEF Write
<1>3. InvalidBody = <<header, body>>
  BY DEF InvalidBody
<1> HIDE DEF header, body
<1>4. header \in Calls(Chunks) /\ body \in Calls(Chunks)
  BY <1>1, <1>2 DEF Calls
<1>5. InvalidBody \in [1 .. 2 -> Calls(Chunks)]
  <2>1. InvalidBody \in Seq(Calls(Chunks)) /\ Len(InvalidBody) = 2
    BY <1>3, <1>4
  <2> QED
    BY <2>1
<1>6. \A i \in 2 .. 2 : InvalidBody[i].call = "Write"
  <2>1. InvalidBody[2] = body
    BY <1>3
  <2>2. \A i \in 2 .. 2 : i = 2
    OBVIOUS
  <2> QED
    BY <1>2, <2>1, <2>2, Zenon
<1> QED
  BY <1>5, <1>6 DEF IsScript

\* Whatever a handler writes, in however many calls, arrives at the client and in
\* the log; for a body that is no gzip stream the middleware's answer does.
THEOREM AnswerIsServed ==
  ASSUME NEW Chunks, InvalidGzipBody \in Chunks, NEW request \in Requests,
         NEW n \in Nat \ {0}, NEW calls, IsScript(Chunks, n, calls)
  PROVE  LET script == Script(request, calls)
         IN  \E m \in Nat \ {0} :
               /\ IsScript(Chunks, m, script)
               /\ Arrives(request.accepts, Served(request, calls),
                          StatusOf(script), Chunked(script, m))
<1> DEFINE script == Script(request, calls)
<1>1. Served(request, calls) = Finished(request.accepts, script)
  BY DEF Served, Finished, Script
<1>2. PICK m \in Nat \ {0} : IsScript(Chunks, m, script)
  <2>1. CASE request.encoded /\ ~request.valid
    <3>1. script = InvalidBody
      BY <2>1 DEF Script
    <3>2. 2 \in Nat \ {0} /\ IsScript(Chunks, 2, script)
      BY <3>1, InvalidBodyIsScript
    <3> HIDE DEF script
    <3> QED
      BY <3>2
  <2>2. CASE ~(request.encoded /\ ~request.valid)
    BY <2>2 DEF Script
  <2> QED
    BY <2>1, <2>2
<1>3. request.accepts \in BOOLEAN
  BY DEF Requests
<1> HIDE DEF script
<1>4. Arrives(request.accepts, Finished(request.accepts, script),
              StatusOf(script), Chunked(script, m))
  BY <1>2, <1>3, FinishedArrives
<1>5. Arrives(request.accepts, Served(request, calls), StatusOf(script), Chunked(script, m))
  BY <1>1, <1>4, Zenon
<1> QED
  BY <1>2, <1>5 DEF script

RunChunks == {"a", "b", InvalidGzipBody}

\* A request, and a handler's calls.
AnswerInv ==
  part = "answer" =>
    /\ input \in Seq(Requests \cup Calls(RunChunks))
    /\ Len(input) > 0 => input[1] \in Requests
    /\ \A i \in 2 .. Len(input) : input[i] \in Calls(RunChunks)
    /\ \A i \in 3 .. Len(input) : input[i].call = "Write"

\* So what the run checks of some calls holds of any number of them.
THEOREM AnswerCorrect == Spec => []AnswerArrives
<1>1. Init => AnswerInv
  <2> SUFFICES ASSUME Init PROVE AnswerInv
    OBVIOUS
  <2>1. input = <<>>
    BY DEF Init
  <2> QED
    BY <2>1 DEF AnswerInv
<1>2. ASSUME AnswerInv, [Next]_<<part, input>>
      PROVE  AnswerInv'
  <2>1. CASE Type
    BY <2>1 DEF Type, Grows, AnswerInv
  <2>2. CASE Book
    BY <2>2 DEF Book, Grows, AnswerInv
  <2>3. CASE Configure
    BY <2>3 DEF Configure, Grows, AnswerInv
  <2>4. CASE Answer
    <3>1. part = "answer" /\ part' = "answer"
      BY <2>4 DEF Answer, Grows
    <3>2. CASE input = <<>> /\ \E accepts, encoded, valid \in BOOLEAN :
                 Grows("answer", 1,
                       [accepts |-> accepts, encoded |-> encoded, valid |-> valid])
      <4>1. PICK request \in Requests : input' = Append(input, request)
        BY <3>2 DEF Grows, Requests
      <4>2. input' = <<request>>
        BY <3>2, <4>1
      <4> QED
        BY <3>1, <4>2 DEF AnswerInv
    <3>3. ASSUME NEW c \in Calls(RunChunks), input' = Append(input, c),
                 Len(input) > 0, Len(input) = 1 \/ c.call = "Write"
          PROVE  AnswerInv'
      <4>1. /\ input \in Seq(Requests \cup Calls(RunChunks)) /\ Len(input) \in Nat \ {0}
            /\ input[1] \in Requests
            /\ \A i \in 2 .. Len(input) : input[i] \in Calls(RunChunks)
            /\ \A i \in 3 .. Len(input) : input[i].call = "Write"
        BY <1>2, <3>1, <3>3 DEF AnswerInv
      <4>2. /\ input' \in Seq(Requests \cup Calls(RunChunks))
            /\ Len(input') = Len(input) + 1 /\ input'[Len(input) + 1] = c
            /\ \A i \in 1 .. Len(input) : input'[i] = input[i]
        BY <3>3, <4>1
      <4>3. ASSUME NEW i \in 2 .. Len(input')
            PROVE  input'[i] \in Calls(RunChunks) /\ (i >= 3 => input'[i].call = "Write")
        <5>1. CASE i = Len(input) + 1
          BY <3>3, <4>1, <4>2, <5>1
        <5>2. CASE i # Len(input) + 1
          <6>1. i \in 2 .. Len(input) /\ i \in 1 .. Len(input)
            BY <4>1, <4>2, <5>2
          <6>2. input'[i] = input[i] /\ (i >= 3 => i \in 3 .. Len(input))
            BY <4>1, <4>2, <6>1
          <6> QED
            BY <4>1, <6>1, <6>2
        <5> QED
          BY <5>1, <5>2
      <4>4. input'[1] \in Requests
        BY <4>1, <4>2
      <4>5. \A i \in 3 .. Len(input') : i \in 2 .. Len(input') /\ i >= 3
        BY <4>1, <4>2
      <4> QED
        BY <4>2, <4>3, <4>4, <4>5 DEF AnswerInv
    <3>4. CASE Len(input) = 1 /\ \E status \in {200, 204, 400} :
                 Grows("answer", MaxCalls, WriteHeader(status))
      <4>1. PICK status \in {200, 204, 400} : input' = Append(input, WriteHeader(status))
        BY <3>4 DEF Grows
      <4> DEFINE header == WriteHeader(status)
      <4>2. header \in Calls(RunChunks)
        <5>1. status \in Nat \ {0}
          OBVIOUS
        <5> QED
          BY <5>1 DEF WriteHeader, Calls
      <4>3. Len(input) > 0 /\ Len(input) = 1 /\ input' = Append(input, header)
        BY <3>4, <4>1
      <4> HIDE DEF header
      <4> QED
        BY <3>3, <4>2, <4>3
    <3>5. CASE Len(input) > 0 /\ \E chunk \in {"a", "b"} :
                 Grows("answer", MaxCalls, Write(chunk))
      <4>1. PICK chunk \in {"a", "b"} : input' = Append(input, Write(chunk))
        BY <3>5 DEF Grows
      <4>2. Write(chunk) \in Calls(RunChunks) /\ Write(chunk).call = "Write"
        BY DEF Write, Calls, RunChunks
      <4> QED
        BY <3>3, <3>5, <4>1, <4>2
    <3> QED
      BY <2>4, <3>2, <3>4, <3>5 DEF Answer
  <2>5. CASE Store
    BY <2>5 DEF Store, Grows, AnswerInv
  <2>6. CASE UNCHANGED <<part, input>>
    BY <1>2, <2>6 DEF AnswerInv
  <2> QED
    BY <1>2, <2>1, <2>2, <2>3, <2>4, <2>5, <2>6 DEF Next
<1>3. AnswerInv => AnswerArrives
  <2> SUFFICES ASSUME AnswerInv, part = "answer", Len(input) > 1
               PROVE  AnswerArrives
    BY DEF AnswerArrives
  <2> DEFINE request == Head(input)
             given == Tail(input)
             calls == Script(request, given)
             status == IF Head(calls).call = "WriteHeader" THEN Head(calls).status ELSE 200
             writes == IF Head(calls).call = "WriteHeader" THEN Tail(calls) ELSE calls
             chunks == [i \in DOMAIN writes |-> writes[i].chunk]
             n == Len(input) - 1
  <2>1. request \in Requests /\ n \in Nat \ {0}
    BY DEF AnswerInv
  <2>2. IsScript(RunChunks, n, given)
    <3>0. /\ input \in Seq(Requests \cup Calls(RunChunks)) /\ Len(input) \in Nat
          /\ \A i \in 2 .. Len(input) : input[i] \in Calls(RunChunks)
          /\ \A i \in 3 .. Len(input) : input[i].call = "Write"
      BY DEF AnswerInv
    <3>9. Len(input) \in Nat
      BY <3>0
    <3>1. given = [i \in 1 .. n |-> input[i + 1]]
      <4>1. input # <<>> /\ Len(input) - 1 = n
        BY <3>9
      <4>2. given \in Seq(Requests \cup Calls(RunChunks)) /\ Len(given) = n
        BY <3>0, <4>1, HeadTailProperties
      <4>3. \A i \in 1 .. n : given[i] = input[i + 1]
        BY <3>0, <4>1, HeadTailProperties
      <4> HIDE DEF given, n
      <4> QED
        BY <4>2, <4>3
    <3> HIDE DEF given
    <3>2. ASSUME NEW i \in 1 .. n
          PROVE  given[i] \in Calls(RunChunks) /\ (i >= 2 => given[i].call = "Write")
      <4>1. i + 1 \in 2 .. Len(input) /\ (i >= 2 => i + 1 \in 3 .. Len(input))
        BY <3>9
      <4>2. given[i] = input[i + 1]
        BY <3>1
      <4> QED
        BY <3>0, <4>1, <4>2
    <3>3. \A i \in 2 .. n : i \in 1 .. n /\ i >= 2
      OBVIOUS
    <3> HIDE DEF n
    <3> QED
      BY <3>1, <3>2, <3>3 DEF IsScript
  <2> HIDE DEF request, given, n
  <2>3. PICK m \in Nat \ {0} :
          /\ IsScript(RunChunks, m, calls)
          /\ Arrives(request.accepts, Served(request, given), StatusOf(calls),
                     Chunked(calls, m))
    <3>1. InvalidGzipBody \in RunChunks
      BY DEF RunChunks
    <3> QED
      BY <2>1, <2>2, <3>1, AnswerIsServed
  <2> HIDE DEF calls
  <2>4. calls \in Seq(Calls(RunChunks)) /\ Len(calls) = m /\ Head(calls) = calls[1]
    BY <2>3 DEF IsScript
  <2>5. status = StatusOf(calls)
    BY <2>4 DEF StatusOf, Headed
  <2>6. chunks = Chunked(calls, m)
    <3>1. CASE Headed(calls)
      <4>1. writes = Tail(calls)
        BY <2>4, <3>1 DEF Headed
      <4>2. DOMAIN Tail(calls) = 1 .. m - 1
            /\ \A i \in 1 .. m - 1 : Tail(calls)[i] = calls[i + 1]
        BY <2>4
      <4> HIDE DEF writes
      <4> QED
        BY <3>1, <4>1, <4>2 DEF Chunked
    <3>2. CASE ~Headed(calls)
      <4>1. writes = calls /\ DOMAIN calls = 1 .. m
        BY <2>4, <3>2 DEF Headed
      <4> HIDE DEF writes
      <4> QED
        BY <3>2, <4>1 DEF Chunked
    <3> QED
      BY <3>1, <3>2
  <2> HIDE DEF status, chunks
  <2>7. Arrives(request.accepts, Served(request, given), status, chunks)
    BY <2>3, <2>5, <2>6
  <2> QED
    BY <2>7
    DEF AnswerArrives, Arrives, status, chunks, writes, calls, Script, request, given
<1> QED
  BY <1>1, <1>2, <1>3, PTL DEF Spec

-----------------------------------------------------------------------------
(* The password *)

\* The codes of a block, each of which is the code of the one before.
IsChain(password, seed, n, u) ==
  u = [j \in 1 .. n |-> Secret!hmacSHA256(password, IF j = 1 THEN seed ELSE u[j - 1])]

\* There is such a sequence of codes of any length.
LEMMA ChainExists ==
  ASSUME NEW password, NEW seed, NEW n \in Nat
  PROVE  \E u : IsChain(password, seed, n, u)
<1> DEFINE T == {k \in Nat : \E u : IsChain(password, seed, k, u)}
<1>1. 0 \in T
  <2> DEFINE u == [j \in 1 .. 0 |-> 0]
  <2>1. IsChain(password, seed, 0, u)
    BY DEF IsChain
  <2> QED
    BY <2>1
<1>2. ASSUME NEW k \in Nat, k \in T PROVE k + 1 \in T
  <2>1. PICK u : IsChain(password, seed, k, u)
    BY <1>2
  <2> DEFINE v == [j \in 1 .. k + 1 |->
                     IF j \in 1 .. k THEN u[j]
                     ELSE Secret!hmacSHA256(password, IF j = 1 THEN seed ELSE u[j - 1])]
  <2>2. ASSUME NEW j \in 1 .. k + 1
        PROVE  v[j] = Secret!hmacSHA256(password, IF j = 1 THEN seed ELSE v[j - 1])
    <3>1. j # 1 => j - 1 \in 1 .. k /\ v[j - 1] = u[j - 1]
      OBVIOUS
    <3>2. v[j] = Secret!hmacSHA256(password, IF j = 1 THEN seed ELSE u[j - 1])
      BY <2>1 DEF IsChain
    <3> HIDE DEF v
    <3> QED
      BY <3>1, <3>2
  <2>3. v = [j \in 1 .. k + 1 |->
               Secret!hmacSHA256(password, IF j = 1 THEN seed ELSE v[j - 1])]
    BY <2>2
  <2>4. IsChain(password, seed, k + 1, v)
    <3> HIDE DEF v
    <3> QED
      BY <2>3 DEF IsChain
  <2> QED
    BY <2>4
<1> HIDE DEF T
<1>3. Nat \subseteq T
  BY <1>1, <1>2, AllNaturals
<1> QED
  BY <1>3 DEF T

\* No code of a block occurs in it twice: going back from two equal ones to the
\* first, a code would be a salt with a block's index.
LEMMA ChainIsDistinct ==
  ASSUME NEW password, NEW salt, NEW block, NEW n \in Nat, NEW u,
         IsChain(password, Secret!appendBlockIndex(salt, block), n, u),
         NEW i \in 1 .. n, NEW k \in 1 .. n, i < k
  PROVE  u[i] # u[k]
<1> DEFINE seed == Secret!appendBlockIndex(salt, block)
           T == {d \in Nat : \A m \in 1 .. n : d + 1 < m => u[d + 1] # u[m]}
<1> HIDE DEF seed
<1>1. ASSUME NEW j \in 1 .. n
      PROVE  \E of : /\ of = IF j = 1 THEN seed ELSE u[j - 1]
                     /\ u[j] = [hmac |-> password, of |-> of]
  BY DEF IsChain, Secret!hmacSHA256, seed
<1>2. ASSUME NEW j \in 1 .. n PROVE u[j] # seed
  <2>1. PICK of : u[j] = [hmac |-> password, of |-> of]
    BY <1>1
  <2>2. "hmac" \in DOMAIN [hmac |-> password, of |-> of]
    OBVIOUS
  <2>3. "hmac" \notin DOMAIN seed
    BY DEF Secret!appendBlockIndex, seed
  <2> QED
    BY <2>1, <2>2, <2>3
<1>3. ASSUME NEW j \in 1 .. n
      PROVE  u[j].of = IF j = 1 THEN seed ELSE u[j - 1]
  <2>1. PICK of : /\ of = IF j = 1 THEN seed ELSE u[j - 1]
                  /\ u[j] = [hmac |-> password, of |-> of]
    BY <1>1
  <2>2. [hmac |-> password, of |-> of].of = of
    OBVIOUS
  <2> QED
    BY <2>1, <2>2
<1>4. 0 \in T
  <2>1. ASSUME NEW m \in 1 .. n, 1 < m PROVE u[1] # u[m]
    <3>1. m - 1 \in 1 .. n /\ 1 \in 1 .. n /\ m # 1
      BY <2>1
    <3>2. u[1].of = seed /\ u[m].of = u[m - 1]
      BY <1>3, <3>1
    <3> QED
      BY <1>2, <3>1, <3>2
  <2> QED
    BY <2>1
<1>5. ASSUME NEW d \in Nat, d \in T PROVE d + 1 \in T
  <2>1. ASSUME NEW m \in 1 .. n, (d + 1) + 1 < m PROVE u[(d + 1) + 1] # u[m]
    <3>1. /\ m - 1 \in 1 .. n /\ (d + 1) + 1 \in 1 .. n /\ m # 1 /\ (d + 1) + 1 # 1
          /\ d + 1 < m - 1 /\ ((d + 1) + 1) - 1 = d + 1
      BY <2>1
    <3>2. u[(d + 1) + 1].of = u[d + 1] /\ u[m].of = u[m - 1]
      BY <1>3, <3>1
    <3>3. u[d + 1] # u[m - 1]
      BY <1>5, <3>1
    <3> QED
      BY <3>2, <3>3
  <2> QED
    BY <2>1
<1> HIDE DEF T
<1>6. Nat \subseteq T
  BY <1>4, <1>5, AllNaturals
<1>7. i - 1 \in Nat /\ (i - 1) + 1 = i
  OBVIOUS
<1> QED
  BY <1>6, <1>7 DEF T

\* The loop's state after the first k codes.
State(u, k) == [u |-> u[k], t |-> {u[j] : j \in 1 .. k}]

\* A turn adds the next code: it is not one of those before, so it cancels none.
LEMMA TurnAddsCode ==
  ASSUME NEW password, NEW salt, NEW block, NEW n \in Nat, NEW u,
         IsChain(password, Secret!appendBlockIndex(salt, block), n + 1, u),
         NEW k \in 1 .. n
  PROVE  Secret!Iterated(password, State(u, k)) = State(u, k + 1)
<1>1. u[k + 1] = Secret!hmacSHA256(password, u[k])
  <2>1. k + 1 \in 1 .. n + 1 /\ k + 1 # 1 /\ (k + 1) - 1 = k
    OBVIOUS
  <2> QED
    BY <2>1 DEF IsChain
<1> DEFINE codes == {u[j] : j \in 1 .. k}
<1>2. u[k + 1] \notin codes
  <2>1. ASSUME NEW j \in 1 .. k PROVE u[j] # u[k + 1]
    <3>1. n + 1 \in Nat /\ j \in 1 .. n + 1 /\ k + 1 \in 1 .. n + 1 /\ j < k + 1
      OBVIOUS
    <3> QED
      BY <3>1, ChainIsDistinct
  <2> QED
    BY <2>1
<1>3. {u[j] : j \in 1 .. k + 1} = codes \cup {u[k + 1]}
  <2>1. 1 .. k + 1 = (1 .. k) \cup {k + 1}
    OBVIOUS
  <2> QED
    BY <2>1
<1>4. Secret!Xor(codes, {u[k + 1]}) = codes \cup {u[k + 1]}
  BY <1>2 DEF Secret!Xor
<1> HIDE DEF codes
<1>5. Secret!Iterated(password, [u |-> u[k], t |-> codes])
        = [u |-> u[k + 1], t |-> Secret!Xor(codes, {u[k + 1]})]
  BY <1>1 DEF Secret!Iterated
<1> QED
  BY <1>3, <1>4, <1>5 DEF State, codes

\* h is a fold whose step goes from the first codes to one more of them, ...
Turning(n, u, first, h) ==
  /\ h[{}] = State(u, 1)
  /\ \A s \in SUBSET (1 .. n), k \in 1 .. n :
       s # {} /\ h[s \ {first[s]}] = State(u, k) => h[s] = State(u, k + 1)

\* ... and h has as many codes as it has made turns, and the first one.
Counted(n, u, h) ==
  \A s \in SUBSET (1 .. n) :
    Cardinality(s) \in 0 .. n /\ h[s] = State(u, Cardinality(s) + 1)

\* So it has, in whichever order the fold numbers the turns.
LEMMA FoldCounts ==
  ASSUME NEW n \in Nat, NEW u, NEW first, Picks(1 .. n, first), NEW h,
         Turning(n, u, first, h)
  PROVE  Counted(n, u, h)
<1>1. IsFiniteSet(1 .. n) /\ Cardinality(1 .. n) = n
  BY FS_Interval
<1>2. ASSUME NEW s \in SUBSET (1 .. n)
      PROVE  IsFiniteSet(s) /\ Cardinality(s) \in Nat /\ Cardinality(s) <= n
  BY <1>1, FS_Subset, FS_CardinalityType
<1> DEFINE T == {k \in Nat : \A s \in SUBSET (1 .. n) :
                   Cardinality(s) = k => h[s] = State(u, k + 1)}
<1>3. 0 \in T
  <2>1. ASSUME NEW s \in SUBSET (1 .. n), Cardinality(s) = 0
        PROVE  h[s] = State(u, 0 + 1)
    <3>1. s = {}
      BY <1>2, <2>1, FS_EmptySet
    <3> QED
      BY <3>1 DEF Turning
  <2> QED
    BY <2>1
<1>4. ASSUME NEW k \in Nat, k \in T PROVE k + 1 \in T
  <2>1. ASSUME NEW s \in SUBSET (1 .. n), Cardinality(s) = k + 1
        PROVE  h[s] = State(u, (k + 1) + 1)
    <3>1. s # {}
      <4>1. Cardinality({}) = 0
        BY FS_EmptySet
      <4>2. ASSUME s = {} PROVE FALSE
        BY <2>1, <4>1, <4>2
      <4> QED
        BY <4>2
    <3>2. first[s] \in s /\ s \ {first[s]} \in SUBSET (1 .. n)
      BY <3>1 DEF Picks
    <3>3. Cardinality(s \ {first[s]}) = k
      BY <1>2, <2>1, <3>2, FS_RemoveElement
    <3>4. h[s \ {first[s]}] = State(u, k + 1)
      BY <1>4, <3>2, <3>3
    <3>5. k + 1 \in 1 .. n
      BY <1>2, <2>1
    <3> QED
      BY <3>1, <3>4, <3>5 DEF Turning
  <2> QED
    BY <2>1
<1> HIDE DEF T
<1>5. Nat \subseteq T
  BY <1>3, <1>4, AllNaturals
<1> QED
  BY <1>2, <1>5 DEF T, Counted

\* The inner loop of derivePBKDF2SHA256 ends with the last code and all of them.
LEMMA LoopHasCodes ==
  ASSUME NEW password, NEW salt, NEW block, NEW n \in Nat, NEW u,
         IsChain(password, Secret!appendBlockIndex(salt, block), n + 1, u)
  PROVE  Secret!Chained(password, u[1], n) = State(u, n + 1)
<1> DEFINE D == 1 .. n
           first == [s \in SUBSET D |-> CHOOSE x \in s : TRUE]
           After(h, s) == IF s = {} THEN [u |-> u[1], t |-> {u[1]}]
                          ELSE Secret!Iterated(password, h[s \ {CHOOSE x \in s : TRUE}])
           IsFold(h) == h = [s \in SUBSET D |-> After(h, s)]
           c == CHOOSE h : IsFold(h)
<1>1. Secret!Chained(password, u[1], n) = c[D]
  BY DEF Secret!Chained, Secret!FoldSet, Secret!MapThenFoldSet
<1>2. State(u, 1) = [u |-> u[1], t |-> {u[1]}]
  <2>1. {u[j] : j \in 1 .. 1} = {u[1]}
    OBVIOUS
  <2> QED
    BY <2>1 DEF State
<1>3. Picks(D, first)
  BY DEF Picks
<1> DEFINE L == {State(u, k) : k \in 1 .. n + 1}
           step == [p \in D \X L |->
                      IF Secret!Iterated(password, p[2]) \in L
                        THEN Secret!Iterated(password, p[2]) ELSE State(u, 1)]
<1>4. State(u, 1) \in L
  OBVIOUS
<1>5. ASSUME NEW k \in 1 .. n, NEW x \in D
      PROVE  /\ State(u, k) \in L
             /\ step[<<x, State(u, k)>>] = State(u, k + 1)
             /\ Secret!Iterated(password, State(u, k)) = State(u, k + 1)
  <2>1. Secret!Iterated(password, State(u, k)) = State(u, k + 1)
    BY TurnAddsCode
  <2>2. State(u, k) \in L /\ State(u, k + 1) \in L
    OBVIOUS
  <2> HIDE DEF L
  <2> QED
    BY <2>1, <2>2
<1>6. \A x \in D, y \in L : step[<<x, y>>] \in L
  <2> HIDE DEF L
  <2> QED
    BY <1>4
<1>7. PICK g \in [SUBSET D -> L] :
        \A s \in SUBSET D : Folded(D, first, State(u, 1), step, g, s)
  <2>1. IsFiniteSet(D)
    BY FS_Interval
  <2> HIDE DEF D, first, L, step
  <2> QED
    BY <1>3, <1>4, <1>6, <2>1, FoldExists, Zenon
<1>8. Counted(n, u, g)
  <2>1. g[{}] = State(u, 1)
    BY <1>7 DEF Folded
  <2>2. ASSUME NEW s \in SUBSET D, NEW k \in 1 .. n,
               s # {}, g[s \ {first[s]}] = State(u, k)
        PROVE  g[s] = State(u, k + 1)
    <3>1. first[s] \in D
      BY <1>3, <2>2 DEF Picks
    <3> HIDE DEF D, first, step
    <3>2. g[s] = step[<<first[s], State(u, k)>>]
      BY <1>7, <2>2 DEF Folded
    <3> QED
      BY <1>5, <3>1, <3>2
  <2>3. Turning(n, u, first, g)
    <3> HIDE DEF first
    <3> QED
      BY <2>1, <2>2 DEF Turning
  <2> HIDE DEF first
  <2> QED
    BY <1>3, <2>3, FoldCounts, Zenon
<1>9. ASSUME NEW s \in SUBSET D PROVE g[s] = After(g, s)
  <2>1. CASE s = {}
    BY <1>2, <1>7, <2>1 DEF Folded
  <2>2. CASE s # {}
    <3>1. first[s] = (CHOOSE x \in s : TRUE) /\ first[s] \in s
          /\ s \ {first[s]} \in SUBSET D
      BY <1>3, <2>2 DEF Picks
    <3> HIDE DEF first, step
    <3> DEFINE k == Cardinality(s \ {first[s]}) + 1
    <3>2. g[s \ {first[s]}] = State(u, k)
      BY <1>8, <3>1 DEF Counted
    <3>3. k \in 1 .. n
      <4>1. Cardinality(s) \in 0 .. n
        BY <1>8 DEF Counted
      <4>2. IsFiniteSet(s)
        <5>1. IsFiniteSet(D)
          BY FS_Interval
        <5> QED
          BY <5>1, FS_Subset
      <4>3. /\ Cardinality(s \ {first[s]}) = Cardinality(s) - 1
            /\ Cardinality(s \ {first[s]}) \in 0 .. n
        BY <1>8, <3>1, <4>2, FS_RemoveElement DEF Counted
      <4> QED
        BY <4>1, <4>3
    <3> HIDE DEF k
    <3>4. first[s] \in D
      BY <3>1
    <3>5. g[s] = step[<<first[s], g[s \ {first[s]}]>>]
      BY <1>7, <2>2 DEF Folded
    <3>6. g[s] = Secret!Iterated(password, g[s \ {first[s]}])
      BY <1>5, <3>2, <3>3, <3>4, <3>5
    <3> QED
      BY <2>2, <3>1, <3>6
  <2> QED
    BY <2>1, <2>2
<1>10. IsFold(c)
  <2>1. IsFold(g)
    <3> HIDE DEF After
    <3> QED
      BY <1>9
  <2> HIDE DEF IsFold
  <2> QED
    BY <2>1
<1>11. ASSUME NEW s \in SUBSET D PROVE c[s] = After(c, s)
  <2> HIDE DEF c, After
  <2> QED
    BY <1>10
<1> HIDE DEF c
<1>12. Counted(n, u, c)
  <2>1. c[{}] = State(u, 1)
    BY <1>2, <1>11
  <2>2. ASSUME NEW s \in SUBSET D, NEW k \in 1 .. n,
               s # {}, c[s \ {first[s]}] = State(u, k)
        PROVE  c[s] = State(u, k + 1)
    <3>1. first[s] = (CHOOSE x \in s : TRUE) /\ first[s] \in D
      BY <1>3, <2>2 DEF Picks
    <3>2. c[s] = Secret!Iterated(password, c[s \ {first[s]}])
      BY <1>11, <2>2, <3>1
    <3> QED
      BY <1>5, <2>2, <3>1, <3>2
  <2>3. Turning(n, u, first, c)
    <3> HIDE DEF first
    <3> QED
      BY <2>1, <2>2 DEF Turning
  <2> HIDE DEF first
  <2> QED
    BY <1>3, <2>3, FoldCounts, Zenon
<1>13. Cardinality(D) = n /\ D \in SUBSET D
  BY FS_Interval
<1> QED
  BY <1>1, <1>12, <1>13 DEF Counted

\* A block is the codes of the definition, and its chain begins with the code of
\* the salt and the block's index.
LEMMA BlockIsCodes ==
  ASSUME NEW password, NEW salt, NEW block, NEW iterations \in Nat \ {0}
  PROVE  \E u : /\ IsChain(password, Secret!appendBlockIndex(salt, block), iterations, u)
               /\ Codes(password, salt, iterations, block) = {u[j] : j \in 1 .. iterations}
               /\ Secret!Block(password, salt, iterations, block)
                    = Codes(password, salt, iterations, block)
<1> DEFINE seed == Secret!appendBlockIndex(salt, block)
           n == iterations - 1
           chain == CHOOSE u : IsChain(password, seed, iterations, u)
<1>1. n \in Nat /\ n + 1 = iterations
  OBVIOUS
<1>2. IsChain(password, seed, iterations, chain)
  BY ChainExists
<1>3. Codes(password, salt, iterations, block) = {chain[j] : j \in 1 .. iterations}
  BY DEF Codes, IsChain
<1> HIDE DEF chain, n
<1>4. chain[1] = Secret!hmacSHA256(password, seed)
  BY <1>2 DEF IsChain
<1>5. Secret!Chained(password, chain[1], n) = State(chain, n + 1)
  <2>1. IsChain(password, Secret!appendBlockIndex(salt, block), n + 1, chain)
    BY <1>1, <1>2
  <2> QED
    BY <1>1, <2>1, LoopHasCodes
<1>6. Secret!Block(password, salt, iterations, block)
        = Secret!Chained(password, chain[1], n).t
  BY <1>4 DEF Secret!Block, n
<1>7. Secret!Block(password, salt, iterations, block) = {chain[j] : j \in 1 .. iterations}
  BY <1>1, <1>5, <1>6 DEF State
<1> QED
  BY <1>2, <1>3, <1>7

\* Every code names its key, so the blocks of two passwords differ.
LEMMA BlocksDiffer ==
  ASSUME NEW stored, NEW given, given # stored, NEW salt, NEW block,
         NEW iterations \in Nat \ {0}
  PROVE  Secret!Block(given, salt, iterations, block)
           # Secret!Block(stored, salt, iterations, block)
<1>1. ASSUME NEW password
      PROVE  /\ \A code \in Secret!Block(password, salt, iterations, block) :
                  code.hmac = password
             /\ Secret!Block(password, salt, iterations, block) # {}
  <2>1. PICK u :
          /\ IsChain(password, Secret!appendBlockIndex(salt, block), iterations, u)
          /\ Secret!Block(password, salt, iterations, block) = {u[j] : j \in 1 .. iterations}
    BY BlockIsCodes
  <2>2. ASSUME NEW j \in 1 .. iterations PROVE u[j].hmac = password
    BY <2>1 DEF IsChain, Secret!hmacSHA256
  <2>3. 1 \in 1 .. iterations
    OBVIOUS
  <2> QED
    BY <2>1, <2>2, <2>3
<1> QED
  BY <1>1

\* The stored password is accepted and no other is, and each byte of the stored key
\* is PBKDF2's.
Known(manager, own, salt, stored, given) ==
  LET encoded == Secret!Hash(manager, salt, stored)
  IN  /\ Secret!Compare(own, encoded, given) <=> given = stored
      /\ Len(encoded[5]) = manager.keyLength
      /\ \A i \in 1 .. manager.keyLength :
           encoded[5][i].block =
             Codes(stored, salt, manager.iterations, 1 + (i - 1) \div 2)

\* Whatever parameters a password was stored with, and whichever the program that
\* compares has (Hash and Compare of the password manager).
THEOREM StoredIsKnown ==
  ASSUME NEW manager, manager.iterations \in Nat \ {0}, manager.keyLength \in Nat \ {0},
         NEW own, NEW salt, NEW stored, stored # Secret!Blank, NEW given
  PROVE  Known(manager, own, salt, stored, given)
<1> DEFINE n == manager.iterations
           length == manager.keyLength
           Key(password) == Secret!derivePBKDF2SHA256(password, salt, n, length)
           encoded == Secret!Hash(manager, salt, stored)
<1>1. encoded = <<"pbkdf2", "sha256", n, salt, Key(stored)>>
  BY DEF Secret!Hash
<1>2. ASSUME NEW password
      PROVE  /\ Len(Key(password)) = length
             /\ \A i \in 1 .. length :
                  Key(password)[i].block
                    = Secret!Block(password, salt, n, 1 + (i - 1) \div 2)
  <2> DEFINE Byte(i) ==
               [block |-> Secret!Block(password, salt, n, 1 + (i - 1) \div 2),
                byte |-> (i - 1) % 2]
  <2>1. Key(password) = [i \in 1 .. length |-> Byte(i)]
    BY DEF Secret!derivePBKDF2SHA256
  <2>2. ASSUME NEW i
        PROVE  Byte(i).block = Secret!Block(password, salt, n, 1 + (i - 1) \div 2)
    OBVIOUS
  <2>3. length \in Nat
    OBVIOUS
  <2> HIDE DEF Byte, Key, length
  <2>4. Len([i \in 1 .. length |-> Byte(i)]) = length
    BY <2>3
  <2> QED
    BY <2>1, <2>2, <2>4
<1> HIDE DEF Key, n, length, encoded
<1>3. /\ Len(encoded) = 5 /\ encoded[1] = "pbkdf2" /\ encoded[2] = "sha256"
      /\ encoded[3] = n /\ encoded[4] = salt /\ encoded[5] = Key(stored)
  BY <1>1
<1>4. Secret!Compare(own, encoded, given) <=> Key(given) = Key(stored)
  BY <1>2, <1>3 DEF Secret!Compare, Key, n, length
<1>5. ASSUME given # stored PROVE Key(given) # Key(stored)
  <2>1. 1 \in 1 .. length /\ 1 + (1 - 1) \div 2 = 1
    BY DEF length
  <2>2. /\ Key(given)[1].block = Secret!Block(given, salt, n, 1)
        /\ Key(stored)[1].block = Secret!Block(stored, salt, n, 1)
    BY <1>2, <2>1
  <2> QED
    BY <1>5, <2>2, BlocksDiffer DEF n
<1>6. ASSUME NEW i \in 1 .. length
      PROVE  Key(stored)[i].block = Codes(stored, salt, n, 1 + (i - 1) \div 2)
  <2>1. Secret!Block(stored, salt, n, 1 + (i - 1) \div 2)
          = Codes(stored, salt, n, 1 + (i - 1) \div 2)
    BY BlockIsCodes DEF n
  <2> QED
    BY <1>2, <2>1
<1> QED
  BY <1>2, <1>3, <1>4, <1>5, <1>6 DEF Known, encoded, n, length

\* A case of the run.
Cases ==
  [stored : {Secret!Blank, "x", "y"}, given : {Secret!Blank, "x", "y"},
   salt : {"s", "t"}, own : [iterations : Nat, keyLength : Nat],
   manager : [iterations : Nat \ {0}, keyLength : Nat \ {0}]]

PasswordInv ==
  part = "password" => input = <<>> \/ \E case \in Cases : input = <<case>>

\* So what the run checks of some parameters holds of any.
THEOREM PasswordCorrect == Spec => []StoredPasswordIsKnown
<1>1. Init => PasswordInv
  BY DEF Init, PasswordInv
<1>2. PasswordInv /\ [Next]_<<part, input>> => PasswordInv'
  <2> SUFFICES ASSUME PasswordInv, [Next]_<<part, input>> PROVE PasswordInv'
    OBVIOUS
  <2>1. CASE Type
    BY <2>1 DEF Type, Grows, PasswordInv
  <2>2. CASE Book
    BY <2>2 DEF Book, Grows, PasswordInv
  <2>3. CASE Configure
    BY <2>3 DEF Configure, Grows, PasswordInv
  <2>4. CASE Answer
    <3>1. part' = "answer"
      BY <2>4 DEF Answer, Grows
    <3> QED
      BY <3>1 DEF PasswordInv
  <2>5. CASE Store
    <3>1. PICK case \in Cases : Grows("password", 1, case)
      BY <2>5 DEF Store, Cases
    <3>2. part = "password" /\ Len(input) < 1 /\ input' = Append(input, case)
      BY <3>1 DEF Grows
    <3>3. input = <<>>
      BY <3>2 DEF PasswordInv
    <3> QED
      BY <3>2, <3>3 DEF PasswordInv
  <2>6. CASE UNCHANGED <<part, input>>
    BY <2>6 DEF PasswordInv
  <2> QED
    BY <2>1, <2>2, <2>3, <2>4, <2>5, <2>6 DEF Next
<1>3. PasswordInv => StoredPasswordIsKnown
  <2> SUFFICES ASSUME PasswordInv, part = "password", input # <<>>
               PROVE  StoredPasswordIsKnown
    BY DEF StoredPasswordIsKnown
  <2>1. PICK case \in Cases : input = <<case>>
    BY DEF PasswordInv
  <2>2. Head(input) = case
    BY <2>1
  <2>3. case.manager.iterations \in Nat \ {0} /\ case.manager.keyLength \in Nat \ {0}
    BY DEF Cases
  <2>4. CASE case.stored = Secret!Blank
    BY <2>2, <2>4 DEF StoredPasswordIsKnown, Secret!Hash
  <2>5. CASE case.stored # Secret!Blank
    <3>1. Known(case.manager, case.own, case.salt, case.stored, case.given)
      BY <2>3, <2>5, StoredIsKnown
    <3> QED
      BY <2>2, <2>5, <3>1 DEF StoredPasswordIsKnown, Known
  <2> QED
    BY <2>4, <2>5
<1> QED
  BY <1>1, <1>2, <1>3, PTL DEF Spec
=============================================================================
