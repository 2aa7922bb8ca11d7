---------------------------- MODULE LedgerProofs ----------------------------
(***************************************************************************)
(* The books of the ledger balance, for any users, order numbers and       *)
(* amounts, finitely many or not: Conservation is an invariant of Ledger.  *)
(* Books is inductive, with one lemma per operation; the sums of a user    *)
(* change by one term or not at all.  StoreProofs carries the result over  *)
(* to the transactions that implement the operations.                      *)
(*                                                                         *)
(* What a sum over a finite set is comes first: SumFunctionOnSet of module *)
(* Functions, on which the balances rest.  That its recursive definition   *)
(* defines anything has to be shown.  Every induction is over the finite   *)
(* subsets of a set: of those that violate the claim, a smallest one is    *)
(* taken (SmallestOf).                                                     *)
(***************************************************************************)
EXTENDS Ledger, FiniteSetTheorems, TLAPS

-----------------------------------------------------------------------------
(* Sums over finite sets. *)

\* The element that the sum takes out of a set first, and what is left to add.
Choice(s) == CHOOSE x \in s : TRUE

Unfolded(f, g, s) ==
  IF s = {} THEN 0 ELSE f[Choice(s)] + g[s \ {Choice(s)}]

\* g is the sum of f on every subset of D.
Unfolds(f, D, g) == g = [s \in SUBSET D |-> Unfolded(f, g, s)]

\* The definition of the sum, in these terms.
LEMMA SumIsUnfolding ==
  ASSUME NEW f, NEW S
  PROVE  SumFunctionOnSet(f, S) = (CHOOSE g : Unfolds(f, S, g))[S]
BY DEF SumFunctionOnSet, FoldFunctionOnSet, MapThenFoldSet, Unfolds, Unfolded, Choice

\* A collection of finite sets has a member with no other member inside it.
LEMMA SmallestOf ==
  ASSUME NEW S, NEW Violating, Violating \subseteq FiniteSubsetsOf(S), Violating # {}
  PROVE  \E T \in Violating : \A t \in SUBSET T : t # T => t \notin Violating
<1>1. PICK T \in Violating : \A t \in Violating : <<t, T>> \notin StrictSubsetOrdering(S)
  BY WFMin, FS_StrictSubsetOrderingWellFounded
<1>2. ASSUME NEW t \in SUBSET T, t # T
      PROVE  t \notin Violating
  BY <1>1, <1>2 DEF FiniteSubsetsOf, StrictSubsetOrdering
<1> QED
  BY <1>2

\* Two such functions agree wherever both are defined.
LEMMA UnfoldingsAgree ==
  ASSUME NEW f, NEW D, NEW E, NEW g, NEW h,
         Unfolds(f, D, g), Unfolds(f, E, h),
         NEW T, T \subseteq D, T \subseteq E, IsFiniteSet(T)
  PROVE  g[T] = h[T]
<1> DEFINE Violating == {s \in FiniteSubsetsOf(T) : g[s] # h[s]}
<1>1. SUFFICES ASSUME Violating # {} PROVE FALSE
  BY DEF FiniteSubsetsOf
<1>2. Violating \subseteq FiniteSubsetsOf(T)
  OBVIOUS
<1>3. PICK s \in Violating : \A t \in SUBSET s : t # s => t \notin Violating
  <2> HIDE DEF Violating
  <2> QED
    BY <1>1, <1>2, SmallestOf
<1>4. /\ s \in SUBSET T /\ IsFiniteSet(s) /\ g[s] # h[s]
      /\ g[s] = Unfolded(f, g, s) /\ h[s] = Unfolded(f, h, s)
  BY <1>3 DEF FiniteSubsetsOf, Unfolds
<1>5. s # {}
  BY <1>4 DEF Unfolded
<1>6. Choice(s) \in s
  BY <1>5 DEF Choice
<1> DEFINE t == s \ {Choice(s)}
<1>7. t \in FiniteSubsetsOf(T) /\ t \in SUBSET s /\ t # s
  BY <1>4, <1>6, FS_RemoveElement DEF FiniteSubsetsOf
<1>8. g[t] = h[t]
  BY <1>3, <1>7
<1> QED
  BY <1>4, <1>5, <1>8 DEF Unfolded

\* There is such a function on every finite set.
LEMMA UnfoldingExists ==
  ASSUME NEW f, NEW S, IsFiniteSet(S)
  PROVE  \E g : Unfolds(f, S, g)
<1> DEFINE Violating == {s \in FiniteSubsetsOf(S) : ~ \E g : Unfolds(f, s, g)}
<1>1. SUFFICES ASSUME Violating # {} PROVE FALSE
  BY DEF FiniteSubsetsOf
<1>2. PICK T \in Violating : \A t \in SUBSET T : t # T => t \notin Violating
  <2>1. Violating \subseteq FiniteSubsetsOf(S)
    OBVIOUS
  <2> HIDE DEF Violating
  <2> QED
    BY <1>1, <2>1, SmallestOf
<1>3. T \in SUBSET S /\ IsFiniteSet(T) /\ ~ \E g : Unfolds(f, T, g)
  BY <1>2 DEF FiniteSubsetsOf
<1>4. ASSUME NEW t \in SUBSET T, t # T
      PROVE  \E g : Unfolds(f, t, g)
  <2>1. t \in FiniteSubsetsOf(S)
    BY <1>3, FS_Subset DEF FiniteSubsetsOf
  <2> QED
    BY <1>2, <1>4, <2>1
<1> DEFINE Of(t) == CHOOSE g : Unfolds(f, t, g)
           h == [s \in SUBSET T |->
                   IF s = {} THEN 0
                   ELSE f[Choice(s)] + Of(s \ {Choice(s)})[s \ {Choice(s)}]]
<1>5. ASSUME NEW t \in SUBSET T, t # T
      PROVE  Unfolds(f, t, Of(t))
  BY <1>4, <1>5
<1>6. ASSUME NEW t \in SUBSET T, t # T
      PROVE  h[t] = Of(t)[t]
  <2>1. Of(t)[t] = Unfolded(f, Of(t), t)
    <3>1. Unfolds(f, t, Of(t))
      BY <1>5, <1>6
    <3> HIDE DEF Of
    <3> QED
      BY <3>1 DEF Unfolds
  <2>2. CASE t = {}
    BY <2>1, <2>2 DEF Unfolded
  <2>3. CASE t # {}
    <3> DEFINE u == t \ {Choice(t)}
    <3>1. Choice(t) \in t
      BY <2>3 DEF Choice
    <3>2. u \in SUBSET T /\ u # T /\ u \subseteq t /\ IsFiniteSet(u)
      BY <1>3, <1>6, <3>1, FS_Subset
    <3>3. Of(u)[u] = Of(t)[u]
      <4>1. Unfolds(f, u, Of(u)) /\ Unfolds(f, t, Of(t))
        BY <1>5, <1>6, <3>2
      <4> HIDE DEF Of, u
      <4> QED
        BY <3>2, <4>1, UnfoldingsAgree
    <3>4. h[t] = f[Choice(t)] + Of(u)[u]
      BY <2>3
    <3> QED
      BY <2>1, <2>3, <3>3, <3>4 DEF Unfolded
  <2> QED
    BY <2>2, <2>3
<1>7. Unfolds(f, T, h)
  <2> SUFFICES ASSUME NEW s \in SUBSET T
               PROVE  h[s] = Unfolded(f, h, s)
    BY DEF Unfolds
  <2>1. CASE s = {}
    BY <2>1 DEF Unfolded
  <2>2. CASE s # {}
    <3> DEFINE u == s \ {Choice(s)}
    <3>1. Choice(s) \in s
      BY <2>2 DEF Choice
    <3>2. u \in SUBSET T /\ u # T
      BY <3>1
    <3>3. h[u] = Of(u)[u]
      BY <1>6, <3>2
    <3>4. h[s] = f[Choice(s)] + Of(u)[u]
      BY <2>2
    <3> HIDE DEF h, Of
    <3> QED
      BY <2>2, <3>3, <3>4 DEF Unfolded
  <2> QED
    BY <2>1, <2>2
<1> QED
  BY <1>3, <1>7

\* So the sum satisfies its recursive equation.
LEMMA SumSatisfiesEquation ==
  ASSUME NEW f, NEW S, IsFiniteSet(S)
  PROVE  /\ SumFunctionOnSet(f, {}) = 0
         /\ S # {} => SumFunctionOnSet(f, S) =
                        f[Choice(S)] + SumFunctionOnSet(f, S \ {Choice(S)})
<1> DEFINE Of(t) == CHOOSE g : Unfolds(f, t, g)
<1>1. ASSUME NEW T, IsFiniteSet(T)
      PROVE  /\ Unfolds(f, T, Of(T))
             /\ SumFunctionOnSet(f, T) = Of(T)[T]
             /\ SumFunctionOnSet(f, T) = Unfolded(f, Of(T), T)
  <2>1. Unfolds(f, T, Of(T))
    BY <1>1, UnfoldingExists
  <2>2. SumFunctionOnSet(f, T) = Of(T)[T]
    BY SumIsUnfolding
  <2> HIDE DEF Of
  <2> QED
    BY <2>1, <2>2 DEF Unfolds
<1>2. SumFunctionOnSet(f, {}) = 0
  <2> HIDE DEF Of
  <2> QED
    BY <1>1, FS_EmptySet DEF Unfolded
<1>3. ASSUME S # {}
      PROVE  SumFunctionOnSet(f, S) =
               f[Choice(S)] + SumFunctionOnSet(f, S \ {Choice(S)})
  <2> DEFINE t == S \ {Choice(S)}
  <2>1. IsFiniteSet(t) /\ t \subseteq S
    BY FS_RemoveElement
  <2> HIDE DEF Of, t
  <2>2. Of(S)[t] = Of(t)[t]
    BY <1>1, <2>1, UnfoldingsAgree
  <2>3. SumFunctionOnSet(f, S) = f[Choice(S)] + Of(S)[t]
    BY <1>1, <1>3 DEF Unfolded, t
  <2>4. SumFunctionOnSet(f, t) = Of(t)[t]
    BY <1>1, <2>1
  <2> QED
    BY <2>2, <2>3, <2>4 DEF t
<1> QED
  BY <1>2, <1>3

\* A sum of integers is an integer.
LEMMA SumIsInteger ==
  ASSUME NEW f, NEW S, IsFiniteSet(S), \A x \in S : f[x] \in Int
  PROVE  SumFunctionOnSet(f, S) \in Int
<1> DEFINE Violating == {s \in FiniteSubsetsOf(S) : SumFunctionOnSet(f, s) \notin Int}
<1>1. SUFFICES ASSUME Violating # {} PROVE FALSE
  BY DEF FiniteSubsetsOf
<1>2. PICK T \in Violating : \A t \in SUBSET T : t # T => t \notin Violating
  <2>1. Violating \subseteq FiniteSubsetsOf(S)
    OBVIOUS
  <2> HIDE DEF Violating
  <2> QED
    BY <1>1, <2>1, SmallestOf
<1>3. T \in SUBSET S /\ IsFiniteSet(T) /\ SumFunctionOnSet(f, T) \notin Int
  BY <1>2 DEF FiniteSubsetsOf
<1>4. T # {} /\ Choice(T) \in T
  <2>1. SumFunctionOnSet(f, {}) = 0
    BY FS_EmptySet, SumSatisfiesEquation
  <2> QED
    BY <1>3, <2>1 DEF Choice
<1> DEFINE t == T \ {Choice(T)}
<1>5. t \in FiniteSubsetsOf(S) /\ t \in SUBSET T /\ t # T
  BY <1>3, <1>4, FS_RemoveElement DEF FiniteSubsetsOf
<1>6. SumFunctionOnSet(f, t) \in Int /\ f[Choice(T)] \in Int
  BY <1>2, <1>3, <1>4, <1>5
<1>7. SumFunctionOnSet(f, T) = f[Choice(T)] + SumFunctionOnSet(f, t)
  BY <1>3, <1>4, SumSatisfiesEquation
<1> QED
  BY <1>3, <1>6, <1>7

\* Any element can be taken out of a sum, not only the chosen one.
THEOREM SumTakesOut ==
  ASSUME NEW f, NEW S, IsFiniteSet(S), \A x \in S : f[x] \in Int, NEW e \in S
  PROVE  SumFunctionOnSet(f, S) = f[e] + SumFunctionOnSet(f, S \ {e})
<1> DEFINE Violating == {s \in FiniteSubsetsOf(S) :
                     \E x \in s : SumFunctionOnSet(f, s) #
                                    f[x] + SumFunctionOnSet(f, s \ {x})}
<1>1. SUFFICES ASSUME Violating # {} PROVE FALSE
  BY DEF FiniteSubsetsOf
<1>2. PICK T \in Violating : \A t \in SUBSET T : t # T => t \notin Violating
  <2>1. Violating \subseteq FiniteSubsetsOf(S)
    OBVIOUS
  <2> HIDE DEF Violating
  <2> QED
    BY <1>1, <2>1, SmallestOf
<1>3. PICK x \in T : SumFunctionOnSet(f, T) # f[x] + SumFunctionOnSet(f, T \ {x})
  BY <1>2
<1>4. T \in SUBSET S /\ IsFiniteSet(T) /\ Choice(T) \in T
  BY <1>2, <1>3 DEF FiniteSubsetsOf, Choice
<1> DEFINE c == Choice(T)
<1>5. SumFunctionOnSet(f, T) = f[c] + SumFunctionOnSet(f, T \ {c})
  BY <1>4, SumSatisfiesEquation
<1>6. c # x
  BY <1>3, <1>5
<1>7. ASSUME NEW y \in T
      PROVE  \A z \in T \ {y} : SumFunctionOnSet(f, T \ {y}) =
                                   f[z] + SumFunctionOnSet(f, (T \ {y}) \ {z})
  <2>1. T \ {y} \in FiniteSubsetsOf(S) /\ T \ {y} # T
    BY <1>4, FS_RemoveElement DEF FiniteSubsetsOf
  <2> QED
    BY <1>2, <2>1
<1>8. /\ SumFunctionOnSet(f, T \ {c}) = f[x] + SumFunctionOnSet(f, (T \ {c}) \ {x})
      /\ SumFunctionOnSet(f, T \ {x}) = f[c] + SumFunctionOnSet(f, (T \ {x}) \ {c})
  BY <1>4, <1>6, <1>7
<1>9. SumFunctionOnSet(f, (T \ {c}) \ {x}) = SumFunctionOnSet(f, (T \ {x}) \ {c})
  <2>1. (T \ {c}) \ {x} = (T \ {x}) \ {c}
    OBVIOUS
  <2> QED
    BY <2>1, Zenon
<1>10. /\ f[x] \in Int /\ f[c] \in Int
       /\ SumFunctionOnSet(f, (T \ {c}) \ {x}) \in Int
  <2>1. IsFiniteSet((T \ {c}) \ {x}) /\ (T \ {c}) \ {x} \subseteq S
    BY <1>4, FS_RemoveElement
  <2> QED
    BY <1>4, <2>1, SumIsInteger
<1>11. SumFunctionOnSet(f, T) = f[x] + SumFunctionOnSet(f, T \ {x})
  <2> HIDE DEF c
  <2> QED
    BY <1>5, <1>8, <1>9, <1>10
<1> QED
  BY <1>3, <1>11

\* A sum depends on the terms only.
THEOREM SumIsOfItsTerms ==
  ASSUME NEW f, NEW g, NEW S, IsFiniteSet(S), \A x \in S : f[x] = g[x]
  PROVE  SumFunctionOnSet(f, S) = SumFunctionOnSet(g, S)
<1> DEFINE Violating == {s \in FiniteSubsetsOf(S) :
                     SumFunctionOnSet(f, s) # SumFunctionOnSet(g, s)}
<1>1. SUFFICES ASSUME Violating # {} PROVE FALSE
  BY DEF FiniteSubsetsOf
<1>2. PICK T \in Violating : \A t \in SUBSET T : t # T => t \notin Violating
  <2>1. Violating \subseteq FiniteSubsetsOf(S)
    OBVIOUS
  <2> HIDE DEF Violating
  <2> QED
    BY <1>1, <2>1, SmallestOf
<1>3. /\ T \in SUBSET S /\ IsFiniteSet(T)
      /\ SumFunctionOnSet(f, T) # SumFunctionOnSet(g, T)
  BY <1>2 DEF FiniteSubsetsOf
<1>4. T # {} /\ Choice(T) \in T
  <2>1. SumFunctionOnSet(f, {}) = 0 /\ SumFunctionOnSet(g, {}) = 0
    BY FS_EmptySet, SumSatisfiesEquation
  <2> QED
    BY <1>3, <2>1 DEF Choice
<1> DEFINE t == T \ {Choice(T)}
<1>5. t \in FiniteSubsetsOf(S) /\ t \in SUBSET T /\ t # T
  BY <1>3, <1>4, FS_RemoveElement DEF FiniteSubsetsOf
<1>6. SumFunctionOnSet(f, t) = SumFunctionOnSet(g, t)
  BY <1>2, <1>5
<1>7. /\ SumFunctionOnSet(f, T) = f[Choice(T)] + SumFunctionOnSet(f, t)
      /\ SumFunctionOnSet(g, T) = g[Choice(T)] + SumFunctionOnSet(g, t)
  BY <1>3, <1>4, SumSatisfiesEquation
<1>8. f[Choice(T)] = g[Choice(T)]
  BY <1>3, <1>4
<1> QED
  BY <1>3, <1>6, <1>7, <1>8

\* A sum over one element more is larger by that element's term.
THEOREM SumWithOneMore ==
  ASSUME NEW f, NEW g, NEW S, IsFiniteSet(S), NEW e, e \notin S,
         \A x \in S : f[x] \in Int /\ g[x] = f[x], g[e] \in Int
  PROVE  SumFunctionOnSet(g, S \cup {e}) = SumFunctionOnSet(f, S) + g[e]
<1>1. IsFiniteSet(S \cup {e}) /\ (S \cup {e}) \ {e} = S
  BY FS_AddElement
<1>2. \A x \in S \cup {e} : g[x] \in Int
  OBVIOUS
<1>3. SumFunctionOnSet(g, S \cup {e}) = g[e] + SumFunctionOnSet(g, (S \cup {e}) \ {e})
  BY <1>1, <1>2, SumTakesOut
<1>4. SumFunctionOnSet(g, S) = SumFunctionOnSet(f, S)
  BY SumIsOfItsTerms
<1>5. SumFunctionOnSet(f, S) \in Int
  BY SumIsInteger
<1>6. SumFunctionOnSet(g, S \cup {e}) = g[e] + SumFunctionOnSet(f, S)
  BY <1>1, <1>3, <1>4, Zenon
<1> QED
  BY <1>5, <1>6

\* A sum of natural numbers is at least the sum of a part of them.
THEOREM SumOfPart ==
  ASSUME NEW f, NEW S, IsFiniteSet(S), \A x \in S : f[x] \in Nat, NEW T \in SUBSET S
  PROVE  SumFunctionOnSet(f, T) <= SumFunctionOnSet(f, S)
<1> DEFINE Violating == {s \in FiniteSubsetsOf(S) :
                     ~(SumFunctionOnSet(f, T \cap s) <= SumFunctionOnSet(f, s))}
<1>1. SUFFICES ASSUME Violating # {} PROVE FALSE
  <2>1. S \in FiniteSubsetsOf(S) /\ T \cap S = T
    BY DEF FiniteSubsetsOf
  <2> QED
    BY <2>1
<1>2. PICK s \in Violating : \A t \in SUBSET s : t # s => t \notin Violating
  <2>1. Violating \subseteq FiniteSubsetsOf(S)
    OBVIOUS
  <2> HIDE DEF Violating
  <2> QED
    BY <1>1, <2>1, SmallestOf
<1>3. /\ s \in SUBSET S /\ IsFiniteSet(s)
      /\ ~(SumFunctionOnSet(f, T \cap s) <= SumFunctionOnSet(f, s))
  BY <1>2 DEF FiniteSubsetsOf
<1>4. s # {} /\ Choice(s) \in s
  <2>1. SumFunctionOnSet(f, {}) = 0
    BY FS_EmptySet, SumSatisfiesEquation
  <2>2. T \cap {} = {}
    OBVIOUS
  <2>3. s # {}
    BY <1>3, <2>1, <2>2
  <2> QED
    BY <2>3 DEF Choice
<1> DEFINE t == s \ {Choice(s)}
<1>5. t \in FiniteSubsetsOf(S) /\ t \in SUBSET s /\ t # s
  BY <1>3, <1>4, FS_RemoveElement DEF FiniteSubsetsOf
<1>6. SumFunctionOnSet(f, T \cap t) <= SumFunctionOnSet(f, t)
  BY <1>2, <1>5
<1>7. SumFunctionOnSet(f, s) = f[Choice(s)] + SumFunctionOnSet(f, t)
  BY <1>3, <1>4, SumSatisfiesEquation
<1>8. /\ SumFunctionOnSet(f, t) \in Int /\ SumFunctionOnSet(f, T \cap t) \in Int
      /\ f[Choice(s)] \in Nat
  <2>1. IsFiniteSet(t) /\ IsFiniteSet(T \cap t)
    BY <1>3, FS_Subset
  <2>2. \A x \in t : f[x] \in Int
    BY <1>3
  <2>3. \A x \in T \cap t : f[x] \in Int
    BY <1>3
  <2> HIDE DEF t
  <2> QED
    BY <1>3, <1>4, <2>1, <2>2, <2>3, SumIsInteger
<1>9. SumFunctionOnSet(f, T \cap s) \in
        {SumFunctionOnSet(f, T \cap t), f[Choice(s)] + SumFunctionOnSet(f, T \cap t)}
  <2>1. CASE Choice(s) \in T
    <3>1. (T \cap s) \ {Choice(s)} = T \cap t /\ Choice(s) \in T \cap s
      BY <1>4, <2>1
    <3>2. IsFiniteSet(T \cap s) /\ \A x \in T \cap s : f[x] \in Int
      BY <1>3, FS_Subset
    <3>3. SumFunctionOnSet(f, T \cap s)
            = f[Choice(s)] + SumFunctionOnSet(f, (T \cap s) \ {Choice(s)})
      BY <3>1, <3>2, SumTakesOut
    <3> HIDE DEF t
    <3> QED
      BY <3>1, <3>3
  <2>2. CASE Choice(s) \notin T
    <3>1. T \cap s = T \cap t
      BY <2>2
    <3> HIDE DEF t
    <3> QED
      BY <3>1
  <2> QED
    BY <2>1, <2>2
<1> HIDE DEF t
<1> QED
  BY <1>3, <1>6, <1>7, <1>8, <1>9

\* A sum is the same when each element is replaced by another of its own.
THEOREM SumOverImage ==
  ASSUME NEW f, NEW g, NEW h, NEW S, IsFiniteSet(S),
         \A x, y \in S : h[x] = h[y] => x = y,
         \A x \in S : g[x] \in Int /\ f[h[x]] = g[x]
  PROVE  SumFunctionOnSet(f, {h[x] : x \in S}) = SumFunctionOnSet(g, S)
<1> DEFINE Image(s) == {h[x] : x \in s}
           Violating == {s \in FiniteSubsetsOf(S) :
                     SumFunctionOnSet(f, Image(s)) # SumFunctionOnSet(g, s)}
<1>1. SUFFICES ASSUME Violating # {} PROVE FALSE
  BY DEF FiniteSubsetsOf
<1>2. PICK s \in Violating : \A t \in SUBSET s : t # s => t \notin Violating
  <2>1. Violating \subseteq FiniteSubsetsOf(S)
    OBVIOUS
  <2> HIDE DEF Violating
  <2> QED
    BY <1>1, <2>1, SmallestOf
<1>3. /\ s \in SUBSET S /\ IsFiniteSet(s)
      /\ SumFunctionOnSet(f, Image(s)) # SumFunctionOnSet(g, s)
  BY <1>2 DEF FiniteSubsetsOf
<1>4. s # {} /\ Choice(s) \in s
  <2>1. /\ SumFunctionOnSet(f, {}) = 0
        /\ SumFunctionOnSet(g, {}) = 0
    BY FS_EmptySet, SumSatisfiesEquation
  <2>2. Image({}) = {}
    OBVIOUS
  <2> HIDE DEF Image
  <2>3. s # {}
    BY <1>3, <2>1, <2>2
  <2> QED
    BY <2>3 DEF Choice
<1> DEFINE t == s \ {Choice(s)}
<1>5. t \in FiniteSubsetsOf(S) /\ t \in SUBSET s /\ t # s
  BY <1>3, <1>4, FS_RemoveElement DEF FiniteSubsetsOf
<1>6. SumFunctionOnSet(f, Image(t)) = SumFunctionOnSet(g, t)
  <2> HIDE DEF t, Image
  <2> QED
    BY <1>2, <1>5
<1>7. SumFunctionOnSet(g, s) = g[Choice(s)] + SumFunctionOnSet(g, t)
  BY <1>3, <1>4, SumSatisfiesEquation
<1>8. Image(s) \ {h[Choice(s)]} = Image(t) /\ h[Choice(s)] \in Image(s)
  BY <1>3, <1>4
<1>9. IsFiniteSet(Image(s))
  <2> DEFINE k == [x \in s |-> h[x]]
  <2>1. k \in Surjection(s, Image(s))
    BY DEF Surjection
  <2> HIDE DEF k, Image
  <2> QED
    BY <1>3, <2>1, FS_Surjection
<1>10. \A y \in Image(s) : f[y] \in Int
  BY <1>3
<1>11. SumFunctionOnSet(f, Image(s))
         = f[h[Choice(s)]] + SumFunctionOnSet(f, Image(s) \ {h[Choice(s)]})
  <2> HIDE DEF Image
  <2> QED
    BY <1>8, <1>9, <1>10, SumTakesOut
<1>12. f[h[Choice(s)]] = g[Choice(s)]
  BY <1>3, <1>4
<1> HIDE DEF t, Image
<1> QED
  BY <1>3, <1>6, <1>7, <1>8, <1>11, <1>12

-----------------------------------------------------------------------------
(* The invariant. *)

\* An order and a withdrawal belong to a registered user (the foreign keys).
RowsHaveOwners ==
  /\ \A n \in Numbers : Uploaded(n) => Registered(orders[n].user)
  /\ \A n \in Numbers : withdrawals[n] # NoRow => Registered(withdrawals[n].user)

\* A table has finitely many rows, so their amounts have a sum.
FinitelyManyRows ==
  /\ IsFiniteSet({n \in Numbers : Uploaded(n)})
  /\ IsFiniteSet({n \in Numbers : withdrawals[n] # NoRow})

\* The inductive invariant.
Books ==
  /\ TablesTypeOK
  /\ RowsHaveOwners
  /\ FinitelyManyRows
  /\ NonNegative
  /\ Conservation

-----------------------------------------------------------------------------
(* The sums of a user. *)

\* A user has finitely many rows, each with an integer in it.
LEMMA RowsOfAUser ==
  ASSUME TablesTypeOK, FinitelyManyRows, NEW u
  PROVE  /\ IsFiniteSet(PaidOrdersOf(u)) /\ IsFiniteSet(WithdrawalsOf(u))
         /\ \A n \in PaidOrdersOf(u) : AccrualValue(orders[n].accrual) \in Int
         /\ \A n \in WithdrawalsOf(u) : withdrawals[n].sum \in Int
<1>1. IsFiniteSet(PaidOrdersOf(u))
  BY FS_Subset DEF PaidOrdersOf, OrdersOf, FinitelyManyRows
<1>2. IsFiniteSet(WithdrawalsOf(u))
  BY FS_Subset DEF WithdrawalsOf, FinitelyManyRows
<1>3. ASSUME NEW n \in PaidOrdersOf(u)
      PROVE  AccrualValue(orders[n].accrual) \in Int
  <2>1. orders[n] \in OrderRow
    BY DEF PaidOrdersOf, OrdersOf, Uploaded, TablesTypeOK
  <2>2. orders[n].accrual \in Amounts \cup {NoAccrual}
    BY <2>1 DEF OrderRow, Accruals
  <2>3. \A accrual \in Amounts \cup {NoAccrual} : AccrualValue(accrual) \in Int
    BY AmountsAssumption DEF AccrualValue
  <2> QED
    BY <2>2, <2>3
<1>4. ASSUME NEW n \in WithdrawalsOf(u)
      PROVE  withdrawals[n].sum \in Int
  <2>1. withdrawals[n] \in WithdrawalRow
    BY DEF WithdrawalsOf, TablesTypeOK
  <2>2. withdrawals[n].sum \in Amounts
    BY <2>1 DEF WithdrawalRow, Sums
  <2>3. \A sum \in Amounts : sum \in Int
    BY AmountsAssumption
  <2> QED
    BY <2>2, <2>3
<1> QED
  BY <1>1, <1>2, <1>3, <1>4

\* Earned and Spent as sums over the rows of a user.
LEMMA EarnedIsTheSum ==
  ASSUME NEW u
  PROVE  Earned(u) = SumFunctionOnSet(
                       [n \in PaidOrdersOf(u) |-> AccrualValue(orders[n].accrual)],
                       PaidOrdersOf(u))
BY DEF Earned, SumFunction

LEMMA SpentIsTheSum ==
  ASSUME NEW u
  PROVE  Spent(u) = SumFunctionOnSet([n \in WithdrawalsOf(u) |-> withdrawals[n].sum],
                                     WithdrawalsOf(u))
BY DEF Spent, SumFunction

\* Both are integers.
LEMMA SumsAreIntegers ==
  ASSUME TablesTypeOK, FinitelyManyRows, NEW u
  PROVE  Earned(u) \in Int /\ Spent(u) \in Int
<1>1. Earned(u) \in Int
  <2> DEFINE f == [n \in PaidOrdersOf(u) |-> AccrualValue(orders[n].accrual)]
  <2>1. \A n \in PaidOrdersOf(u) : f[n] \in Int
    BY RowsOfAUser
  <2> HIDE DEF f
  <2>2. SumFunctionOnSet(f, PaidOrdersOf(u)) \in Int
    BY <2>1, RowsOfAUser, SumIsInteger
  <2> QED
    BY <2>2, EarnedIsTheSum DEF f
<1>2. Spent(u) \in Int
  <2> DEFINE f == [n \in WithdrawalsOf(u) |-> withdrawals[n].sum]
  <2>1. \A n \in WithdrawalsOf(u) : f[n] \in Int
    BY RowsOfAUser
  <2> HIDE DEF f
  <2>2. SumFunctionOnSet(f, WithdrawalsOf(u)) \in Int
    BY <2>1, RowsOfAUser, SumIsInteger
  <2> QED
    BY <2>2, SpentIsTheSum DEF f
<1> QED
  BY <1>1, <1>2

\* What a user has spent covers each of its withdrawals.
LEMMA SpentCoversEach ==
  ASSUME TablesTypeOK, FinitelyManyRows, NEW u, NEW n \in WithdrawalsOf(u)
  PROVE  withdrawals[n].sum <= Spent(u)
<1> DEFINE W == WithdrawalsOf(u)
           f == [m \in W |-> withdrawals[m].sum]
<1>1. \A m \in W : f[m] \in Nat
  <2>1. \A m \in W : withdrawals[m].sum \in Sums
    BY DEF WithdrawalsOf, TablesTypeOK, WithdrawalRow
  <2>2. \A sum \in Sums : sum \in Nat
    BY AmountsAssumption DEF Sums
  <2> QED
    BY <2>1, <2>2
<1>2. f[n] = withdrawals[n].sum /\ n \in W
  OBVIOUS
<1>3. IsFiniteSet(W)
  BY RowsOfAUser
<1>4. Spent(u) = SumFunctionOnSet(f, W)
  BY SpentIsTheSum
<1> HIDE DEF f, W
<1>5. SumFunctionOnSet(f, W) = f[n] + SumFunctionOnSet(f, W \ {n})
  BY <1>1, <1>2, <1>3, SumTakesOut
<1>6. IsFiniteSet(W \ {n}) /\ \A m \in W \ {n} : f[m] \in Nat
  BY <1>1, <1>3, FS_RemoveElement
<1>7. SumFunctionOnSet(f, {}) <= SumFunctionOnSet(f, W \ {n})
  BY <1>6, SumOfPart
<1>8. SumFunctionOnSet(f, W \ {n}) \in Int
  <2>1. \A m \in W \ {n} : f[m] \in Int
    BY <1>6
  <2> QED
    BY <1>6, <2>1, SumIsInteger
<1>9. SumFunctionOnSet(f, {}) = 0
  BY <1>3, SumSatisfiesEquation
<1> QED
  BY <1>1, <1>2, <1>4, <1>5, <1>7, <1>8, <1>9

\* A list of the withdrawals of a user adds up to what the user has spent, and a
\* part of it to no more than that.
LEMMA ListAddsUp ==
  ASSUME TablesTypeOK, FinitelyManyRows, NEW u
  PROVE  LET list == {[order |-> n, sum |-> withdrawals[n].sum] : n \in WithdrawalsOf(u)}
         IN  /\ SumFunction([row \in list |-> row.sum]) = Spent(u)
             /\ \A part \in SUBSET list :
                  SumFunction([row \in part |-> row.sum]) <= Spent(u)
<1> DEFINE W == WithdrawalsOf(u)
           h == [n \in W |-> [order |-> n, sum |-> withdrawals[n].sum]]
           g == [n \in W |-> withdrawals[n].sum]
           list == {h[n] : n \in W}
           f == [row \in list |-> row.sum]
<1>1. list = {[order |-> n, sum |-> withdrawals[n].sum] : n \in W}
  OBVIOUS
<1>2. \A n \in W : g[n] \in Nat /\ f[h[n]] = g[n]
  <2>1. \A n \in W : withdrawals[n].sum \in Sums
    BY DEF WithdrawalsOf, TablesTypeOK, WithdrawalRow
  <2>2. \A sum \in Sums : sum \in Nat
    BY AmountsAssumption DEF Sums
  <2> QED
    BY <2>1, <2>2
<1>3. \A m, n \in W : h[m] = h[n] => m = n
  OBVIOUS
<1>4. IsFiniteSet(W)
  BY RowsOfAUser
<1>5. IsFiniteSet(list)
  <2>1. h \in Surjection(W, list)
    BY DEF Surjection
  <2> HIDE DEF W, h, list
  <2> QED
    BY <1>4, <2>1, FS_Surjection
<1>6. SumFunctionOnSet(f, list) = SumFunctionOnSet(g, W)
  <2>1. \A n \in W : g[n] \in Int /\ f[h[n]] = g[n]
    <3> HIDE DEF f, g, h
    <3> QED
      BY <1>2
  <2> HIDE DEF W, h, g, f
  <2> QED
    BY <1>3, <1>4, <2>1, SumOverImage
<1>7. SumFunctionOnSet(g, W) = Spent(u)
  BY SpentIsTheSum
<1>8. \A row \in list : f[row] \in Nat
  BY <1>2
<1>9. SumFunction(f) = SumFunctionOnSet(f, list)
  BY DEF SumFunction
<1>10. ASSUME NEW part \in SUBSET list
       PROVE  SumFunction([row \in part |-> row.sum]) <= SumFunctionOnSet(f, list)
  <2> DEFINE k == [row \in part |-> row.sum]
  <2>1. SumFunction(k) = SumFunctionOnSet(k, part)
    BY DEF SumFunction
  <2>2. \A row \in part : k[row] = f[row]
    OBVIOUS
  <2>3. IsFiniteSet(part)
    <3> HIDE DEF list
    <3> QED
      BY <1>5, FS_Subset
  <2> HIDE DEF f, k, list
  <2>4. SumFunctionOnSet(k, part) = SumFunctionOnSet(f, part)
    BY <2>2, <2>3, SumIsOfItsTerms
  <2>5. SumFunctionOnSet(f, part) <= SumFunctionOnSet(f, list)
    BY <1>5, <1>8, SumOfPart
  <2> QED
    BY <2>1, <2>4, <2>5 DEF k
<1> HIDE DEF W, g
<1> QED
  BY <1>1, <1>6, <1>7, <1>9, <1>10 DEF W

\* A user without rows has earned and spent nothing.
LEMMA NothingEarnedOrSpent ==
  ASSUME NEW u, PaidOrdersOf(u) = {}, WithdrawalsOf(u) = {}
  PROVE  Earned(u) = 0 /\ Spent(u) = 0
BY EarnedIsTheSum, SpentIsTheSum, SumSatisfiesEquation, FS_EmptySet

\* What is earned and spent stays while the rows of the user do.
LEMMA SameEarned ==
  ASSUME TablesTypeOK, FinitelyManyRows, NEW u, PaidOrdersOf(u)' = PaidOrdersOf(u),
         \A n \in PaidOrdersOf(u) : orders'[n] = orders[n]
  PROVE  Earned(u)' = Earned(u)
<1> DEFINE f == [n \in PaidOrdersOf(u) |-> AccrualValue(orders[n].accrual)]
<1>1. f = [n \in PaidOrdersOf(u)' |-> AccrualValue(orders'[n].accrual)]
  OBVIOUS
<1>2. Earned(u)' = SumFunctionOnSet(f, PaidOrdersOf(u))
  BY <1>1 DEF Earned, SumFunction
<1> QED
  BY <1>2, EarnedIsTheSum

LEMMA SameSpent ==
  ASSUME TablesTypeOK, FinitelyManyRows, NEW u, WithdrawalsOf(u)' = WithdrawalsOf(u),
         \A n \in WithdrawalsOf(u) : withdrawals'[n] = withdrawals[n]
  PROVE  Spent(u)' = Spent(u)
<1> DEFINE f == [n \in WithdrawalsOf(u) |-> withdrawals[n].sum]
<1>1. f = [n \in WithdrawalsOf(u)' |-> withdrawals'[n].sum]
  OBVIOUS
<1>2. Spent(u)' = SumFunctionOnSet(f, WithdrawalsOf(u))
  BY <1>1 DEF Spent, SumFunction
<1> QED
  BY <1>2, SpentIsTheSum

\* One more paid order, or one more withdrawal, adds its amount.
LEMMA OneMoreEarned ==
  ASSUME TablesTypeOK, FinitelyManyRows, NEW u, NEW n, n \notin PaidOrdersOf(u),
         PaidOrdersOf(u)' = PaidOrdersOf(u) \cup {n},
         \A m \in PaidOrdersOf(u) : orders'[m] = orders[m],
         AccrualValue(orders'[n].accrual) \in Int
  PROVE  Earned(u)' = Earned(u) + AccrualValue(orders'[n].accrual)
<1> DEFINE f == [m \in PaidOrdersOf(u) |-> AccrualValue(orders[m].accrual)]
           g == [m \in PaidOrdersOf(u) \cup {n} |-> AccrualValue(orders'[m].accrual)]
<1>1. \A m \in PaidOrdersOf(u) : f[m] \in Int /\ g[m] = f[m]
  BY RowsOfAUser
<1>2. g[n] = AccrualValue(orders'[n].accrual)
  OBVIOUS
<1>3. Earned(u)' = SumFunctionOnSet(g, PaidOrdersOf(u) \cup {n})
  BY DEF Earned, SumFunction
<1>4. Earned(u) = SumFunctionOnSet(f, PaidOrdersOf(u))
  BY EarnedIsTheSum
<1> HIDE DEF f, g
<1>5. SumFunctionOnSet(g, PaidOrdersOf(u) \cup {n}) = SumFunctionOnSet(f, PaidOrdersOf(u)) + g[n]
  BY <1>1, <1>2, RowsOfAUser, SumWithOneMore
<1> QED
  BY <1>2, <1>3, <1>4, <1>5

LEMMA OneMoreSpent ==
  ASSUME TablesTypeOK, FinitelyManyRows, NEW u, NEW n, n \notin WithdrawalsOf(u),
         WithdrawalsOf(u)' = WithdrawalsOf(u) \cup {n},
         \A m \in WithdrawalsOf(u) : withdrawals'[m] = withdrawals[m],
         withdrawals'[n].sum \in Int
  PROVE  Spent(u)' = Spent(u) + withdrawals'[n].sum
<1> DEFINE f == [m \in WithdrawalsOf(u) |-> withdrawals[m].sum]
           g == [m \in WithdrawalsOf(u) \cup {n} |-> withdrawals'[m].sum]
<1>1. \A m \in WithdrawalsOf(u) : f[m] \in Int /\ g[m] = f[m]
  BY RowsOfAUser
<1>2. g[n] = withdrawals'[n].sum
  OBVIOUS
<1>3. Spent(u)' = SumFunctionOnSet(g, WithdrawalsOf(u) \cup {n})
  BY DEF Spent, SumFunction
<1>4. Spent(u) = SumFunctionOnSet(f, WithdrawalsOf(u))
  BY SpentIsTheSum
<1> HIDE DEF f, g
<1>5. SumFunctionOnSet(g, WithdrawalsOf(u) \cup {n}) = SumFunctionOnSet(f, WithdrawalsOf(u)) + g[n]
  BY <1>1, <1>2, RowsOfAUser, SumWithOneMore
<1> QED
  BY <1>2, <1>3, <1>4, <1>5

-----------------------------------------------------------------------------
(* The operations. *)

\* A new user owns no row: rows have registered owners.
LEMMA CreateUserKeepsBooks ==
  ASSUME Books, NEW u \in Users, CreateUser(u)
  PROVE  Books'
<1> USE DEF Books
<1> DEFINE row == [current |-> 0, withdrawn |-> 0]
<1>1. /\ users[u] = NoRow /\ users' = [users EXCEPT ![u] = row]
      /\ UNCHANGED <<orders, withdrawals>>
      /\ row \in UserRow /\ row # NoRow
  BY NullsAssumption DEF CreateUser, UserCreated, Registered, UserRow
<1>2. TablesTypeOK'
  BY <1>1 DEF TablesTypeOK
<1>3. RowsHaveOwners'
  BY <1>1 DEF RowsHaveOwners, Registered, Uploaded, TablesTypeOK
<1>4. FinitelyManyRows'
  BY <1>1 DEF FinitelyManyRows, Uploaded
<1>5. NonNegative'
  BY <1>1 DEF NonNegative, Registered, TablesTypeOK
<1>6. ASSUME NEW v
      PROVE  Earned(v)' = Earned(v) /\ Spent(v)' = Spent(v)
  BY <1>1 DEF Earned, Spent, PaidOrdersOf, OrdersOf, WithdrawalsOf, Uploaded
<1>7. Earned(u) = 0 /\ Spent(u) = 0
  <2>1. PaidOrdersOf(u) = {} /\ WithdrawalsOf(u) = {}
    BY <1>1 DEF RowsHaveOwners, PaidOrdersOf, OrdersOf, WithdrawalsOf, Registered
  <2> QED
    BY <2>1, NothingEarnedOrSpent
<1>8. Conservation'
  BY <1>1, <1>6, <1>7 DEF Conservation, Registered, TablesTypeOK
<1> QED
  BY <1>2, <1>3, <1>4, <1>5, <1>8

\* A new order is not paid yet.
LEMMA CreateOrderKeepsBooks ==
  ASSUME Books, NEW u \in Users, NEW n \in Numbers, CreateOrder(u, n)
  PROVE  Books'
<1> USE DEF Books
<1> DEFINE row == [user |-> u, status |-> "NEW", accrual |-> NoAccrual]
<1>1. /\ orders[n] = NoRow /\ orders' = [orders EXCEPT ![n] = row]
      /\ UNCHANGED <<users, withdrawals>> /\ users[u] # NoRow
      /\ row \in OrderRow /\ row # NoRow /\ row.user = u /\ row.status = "NEW"
  BY NullsAssumption DEF CreateOrder, OrderCreated, Registered, Uploaded, OrderRow,
                         Statuses, Accruals
<1> HIDE DEF row
<1>2. TablesTypeOK'
  BY <1>1 DEF TablesTypeOK
<1>3. RowsHaveOwners'
  BY <1>1 DEF RowsHaveOwners, Registered, Uploaded, TablesTypeOK
<1>4. FinitelyManyRows'
  <2>1. {m \in Numbers : Uploaded(m)}' = {m \in Numbers : Uploaded(m)} \cup {n}
    BY <1>1 DEF Uploaded, TablesTypeOK
  <2> QED
    BY <1>1, <2>1, FS_AddElement DEF FinitelyManyRows
<1>5. NonNegative'
  BY <1>1 DEF NonNegative, Registered
<1>6. ASSUME NEW v
      PROVE  Earned(v)' = Earned(v) /\ Spent(v)' = Spent(v)
  <2>1. PaidOrdersOf(v)' = PaidOrdersOf(v) /\ n \notin PaidOrdersOf(v)
    BY <1>1 DEF PaidOrdersOf, OrdersOf, Uploaded, TablesTypeOK
  <2>2. \A m \in PaidOrdersOf(v) : orders'[m] = orders[m]
    BY <1>1, <2>1 DEF TablesTypeOK, PaidOrdersOf, OrdersOf
  <2>3. Spent(v)' = Spent(v)
    BY <1>1 DEF Spent, WithdrawalsOf
  <2> QED
    BY <2>1, <2>2, <2>3, SameEarned
<1>7. Conservation'
  BY <1>1, <1>6 DEF Conservation, Registered
<1> QED
  BY <1>2, <1>3, <1>4, <1>5, <1>7

\* An order is paid in the step that credits its owner, and was not paid before.
LEMMA ApplyAccrualResultKeepsBooks ==
  ASSUME Books, NEW n \in Numbers, NEW status \in Statuses, NEW accrual \in Accruals,
         ApplyAccrualResult(n, status, accrual)
  PROVE  Books'
<1> USE DEF Books
<1>0. PICK owner \in Users : owner = orders[n].user
  BY DEF ApplyAccrualResult, Uploaded, TablesTypeOK, OrderRow
<1> DEFINE row == [user |-> owner, status |-> status, accrual |-> accrual]
           paid == AccrualValue(accrual)
           richer == Credited(users[owner], paid)
<1>1. /\ orders[n] \in OrderRow /\ orders[n] # NoRow
      /\ orders[n].status # "PROCESSED"
      /\ orders' = [orders EXCEPT ![n] = row] /\ UNCHANGED withdrawals
      /\ users' = IF status = "PROCESSED" THEN [users EXCEPT ![owner] = richer] ELSE users
      /\ users[owner] \in UserRow /\ users[owner] # NoRow
  BY <1>0 DEF ApplyAccrualResult, AccrualApplied, Uploaded, TablesTypeOK, IsFinal,
              RowsHaveOwners, Registered
<1>2. /\ row \in OrderRow /\ row # NoRow /\ row.user = owner /\ row.status = status
      /\ row.accrual = accrual
  BY <1>1, NullsAssumption DEF OrderRow
<1>3. paid \in Nat
  BY AmountsAssumption DEF AccrualValue, Accruals
<1>4. /\ richer \in UserRow /\ richer # NoRow
      /\ richer.current = users[owner].current + paid
      /\ richer.withdrawn = users[owner].withdrawn
  BY <1>1, <1>3, NullsAssumption DEF UserRow, Credited
<1> HIDE DEF row, paid, richer
<1>5. TablesTypeOK'
  BY <1>1, <1>2, <1>4 DEF TablesTypeOK
<1>6. RowsHaveOwners'
  BY <1>1, <1>2, <1>4 DEF RowsHaveOwners, Registered, Uploaded, TablesTypeOK
<1>7. FinitelyManyRows'
  <2>1. {m \in Numbers : Uploaded(m)}' = {m \in Numbers : Uploaded(m)}
    BY <1>1, <1>2 DEF Uploaded, TablesTypeOK
  <2> QED
    BY <1>1, <2>1 DEF FinitelyManyRows
<1>8. NonNegative'
  <2>1. users[owner].current \in Int /\ users[owner].current >= 0
    BY <1>1 DEF UserRow, NonNegative, Registered
  <2>2. richer.current >= 0
    BY <1>3, <1>4, <2>1
  <2> QED
    BY <1>1, <2>2 DEF NonNegative, Registered, TablesTypeOK
<1>9. ASSUME NEW v
      PROVE  Spent(v)' = Spent(v)
  BY <1>1 DEF Spent, WithdrawalsOf
<1>10. ASSUME NEW v
       PROVE  /\ n \notin PaidOrdersOf(v)
              /\ \A m \in PaidOrdersOf(v) : orders'[m] = orders[m]
              /\ PaidOrdersOf(v)' = IF status = "PROCESSED" /\ v = owner
                                      THEN PaidOrdersOf(v) \cup {n} ELSE PaidOrdersOf(v)
  BY <1>0, <1>1, <1>2 DEF PaidOrdersOf, OrdersOf, Uploaded, TablesTypeOK
<1>11. ASSUME NEW v, ~(status = "PROCESSED" /\ v = owner)
       PROVE  Earned(v)' = Earned(v)
  BY <1>10, <1>11, SameEarned
<1>12. ASSUME status = "PROCESSED"
       PROVE  Earned(owner)' = Earned(owner) + paid
  <2>1. AccrualValue(orders'[n].accrual) = paid
    BY <1>1, <1>2 DEF paid, TablesTypeOK
  <2>2. /\ n \notin PaidOrdersOf(owner)
        /\ PaidOrdersOf(owner)' = PaidOrdersOf(owner) \cup {n}
        /\ \A m \in PaidOrdersOf(owner) : orders'[m] = orders[m]
    BY <1>10, <1>12
  <2>3. AccrualValue(orders'[n].accrual) \in Int
    BY <1>3, <2>1
  <2>4. Earned(owner)' = Earned(owner) + AccrualValue(orders'[n].accrual)
    BY <2>2, <2>3, OneMoreEarned
  <2> QED
    BY <2>1, <2>4
<1>13. Conservation'
  <2> SUFFICES ASSUME NEW v \in Users, users'[v] # NoRow
               PROVE  /\ users'[v].current = Earned(v)' - Spent(v)'
                      /\ users'[v].withdrawn = Spent(v)'
    BY DEF Conservation, Registered
  <2>1. Earned(v) \in Int /\ Spent(v) \in Int
    BY SumsAreIntegers
  <2>2. CASE status = "PROCESSED" /\ v = owner
    <3>1. users'[v] = richer
      BY <1>1, <2>2 DEF TablesTypeOK
    <3>2. users[v].current = Earned(v) - Spent(v) /\ users[v].withdrawn = Spent(v)
      BY <1>1, <2>2 DEF Conservation, Registered
    <3> QED
      BY <1>3, <1>4, <1>9, <1>12, <2>1, <2>2, <3>1, <3>2
  <2>3. CASE ~(status = "PROCESSED" /\ v = owner)
    <3>1. users'[v] = users[v]
      BY <1>1, <2>3 DEF TablesTypeOK
    <3> QED
      BY <1>9, <1>11, <2>3, <3>1 DEF Conservation, Registered
  <2> QED
    BY <2>2, <2>3
<1> QED
  BY <1>5, <1>6, <1>7, <1>8, <1>13

\* A withdrawal appears in the step that debits its user, who can afford it.
LEMMA CreateWithdrawalKeepsBooks ==
  ASSUME Books, NEW u \in Users, NEW n \in Numbers, NEW sum \in Sums,
         CreateWithdrawal(u, n, sum)
  PROVE  Books'
<1> USE DEF Books
<1> DEFINE row == [user |-> u, sum |-> sum]
           poorer == Debited(users[u], sum)
<1>1. /\ users[u] \in UserRow /\ users[u] # NoRow /\ users[u].current >= sum
      /\ withdrawals[n] = NoRow /\ withdrawals' = [withdrawals EXCEPT ![n] = row]
      /\ users' = [users EXCEPT ![u] = poorer] /\ UNCHANGED orders
  BY DEF CreateWithdrawal, WithdrawalCreated, Registered, TablesTypeOK
<1>2. row \in WithdrawalRow /\ row # NoRow /\ row.user = u /\ row.sum = sum
  BY NullsAssumption DEF WithdrawalRow
<1>3. sum \in Nat
  BY AmountsAssumption DEF Sums
<1>4. /\ poorer \in UserRow /\ poorer # NoRow
      /\ poorer.current = users[u].current - sum
      /\ poorer.withdrawn = users[u].withdrawn + sum
      /\ users[u].current \in Int
  BY <1>1, <1>3, NullsAssumption DEF UserRow, Debited
<1> HIDE DEF row, poorer
<1>5. TablesTypeOK'
  BY <1>1, <1>2, <1>4 DEF TablesTypeOK
<1>6. RowsHaveOwners'
  BY <1>1, <1>2, <1>4 DEF RowsHaveOwners, Registered, Uploaded, TablesTypeOK
<1>7. FinitelyManyRows'
  <2>1. {m \in Numbers : withdrawals[m] # NoRow}'
          = {m \in Numbers : withdrawals[m] # NoRow} \cup {n}
    BY <1>1, <1>2 DEF TablesTypeOK
  <2> QED
    BY <1>1, <2>1, FS_AddElement DEF FinitelyManyRows, Uploaded
<1>8. NonNegative'
  <2>1. poorer.current >= 0
    BY <1>1, <1>3, <1>4
  <2> QED
    BY <1>1, <2>1 DEF NonNegative, Registered, TablesTypeOK
<1>9. ASSUME NEW v
      PROVE  Earned(v)' = Earned(v)
  BY <1>1 DEF Earned, PaidOrdersOf, OrdersOf, Uploaded
<1>10. ASSUME NEW v
       PROVE  /\ n \notin WithdrawalsOf(v)
              /\ \A m \in WithdrawalsOf(v) : withdrawals'[m] = withdrawals[m]
              /\ WithdrawalsOf(v)' = IF v = u THEN WithdrawalsOf(v) \cup {n}
                                      ELSE WithdrawalsOf(v)
  BY <1>1, <1>2 DEF WithdrawalsOf, TablesTypeOK
<1>11. ASSUME NEW v, v # u
       PROVE  Spent(v)' = Spent(v)
  BY <1>10, <1>11, SameSpent
<1>12. Spent(u)' = Spent(u) + sum
  <2>1. withdrawals'[n].sum = sum
    BY <1>1, <1>2 DEF TablesTypeOK
  <2> QED
    BY <1>3, <1>10, <2>1, OneMoreSpent
<1>13. Conservation'
  <2> SUFFICES ASSUME NEW v \in Users, users'[v] # NoRow
               PROVE  /\ users'[v].current = Earned(v)' - Spent(v)'
                      /\ users'[v].withdrawn = Spent(v)'
    BY DEF Conservation, Registered
  <2>1. Earned(v) \in Int /\ Spent(v) \in Int
    BY SumsAreIntegers
  <2>2. CASE v = u
    <3>1. users'[v] = poorer
      BY <1>1, <2>2 DEF TablesTypeOK
    <3>2. users[v].current = Earned(v) - Spent(v) /\ users[v].withdrawn = Spent(v)
      BY <1>1, <2>2 DEF Conservation, Registered
    <3> QED
      BY <1>3, <1>4, <1>9, <1>12, <2>1, <2>2, <3>1, <3>2
  <2>3. CASE v # u
    <3>1. users'[v] = users[v]
      BY <1>1, <2>3 DEF TablesTypeOK
    <3> QED
      BY <1>9, <1>11, <2>3, <3>1 DEF Conservation, Registered
  <2> QED
    BY <2>2, <2>3
<1> QED
  BY <1>5, <1>6, <1>7, <1>8, <1>13

\* So every step keeps the books,
LEMMA NextKeepsBooks == ASSUME Books, [Next]_tables PROVE Books'
<1>1. CASE UNCHANGED tables
  <2>1. \A v : Earned(v)' = Earned(v) /\ Spent(v)' = Spent(v)
    BY <1>1 DEF tables, Earned, Spent, PaidOrdersOf, OrdersOf, WithdrawalsOf, Uploaded
  <2> QED
    BY <1>1, <2>1 DEF tables, Books, TablesTypeOK, RowsHaveOwners, FinitelyManyRows,
                      NonNegative, Conservation, Registered, Uploaded
<1> QED
  BY <1>1, CreateUserKeepsBooks, CreateOrderKeepsBooks, ApplyAccrualResultKeepsBooks,
     CreateWithdrawalKeepsBooks DEF Next

\* and empty tables balance.
LEMMA InitBooks == TablesInit => Books
<1> SUFFICES ASSUME TablesInit PROVE Books
  OBVIOUS
<1>1. TablesTypeOK /\ RowsHaveOwners /\ NonNegative /\ Conservation
  BY DEF TablesInit, TablesTypeOK, RowsHaveOwners, NonNegative, Conservation, Registered,
         Uploaded
<1>2. FinitelyManyRows
  <2>1. /\ {n \in Numbers : Uploaded(n)} = {}
        /\ {n \in Numbers : withdrawals[n] # NoRow} = {}
    BY DEF TablesInit, Uploaded
  <2> QED
    BY <2>1, FS_EmptySet DEF FinitelyManyRows
<1> QED
  BY <1>1, <1>2 DEF Books

\* No step takes back a row, an owner, a final result or a debit.
LEMMA RowsAreKept ==
  ASSUME Books, [Next]_tables
  PROVE  /\ \A u \in Users : Registered(u) =>
              Registered(u)' /\ users[u].withdrawn <= users'[u].withdrawn
         /\ \A n \in Numbers : Uploaded(n) =>
              /\ Uploaded(n)' /\ orders'[n].user = orders[n].user
              /\ IsFinal(orders[n].status) => orders'[n] = orders[n]
         /\ \A n \in Numbers : withdrawals[n] # NoRow => withdrawals'[n] = withdrawals[n]
<1> USE DEF Books, TablesTypeOK, Registered, Uploaded
<1>1. \A u \in Users : users[u] # NoRow => users[u].withdrawn \in Int
  BY DEF UserRow
<1>2. CASE UNCHANGED tables
  BY <1>1, <1>2 DEF tables
<1>3. ASSUME NEW u \in Users, CreateUser(u)
      PROVE  users[u] = NoRow /\ users'[u] # NoRow /\ UNCHANGED <<orders, withdrawals>>
             /\ \A v \in Users \ {u} : users'[v] = users[v]
  BY <1>3, CreateUserKeepsBooks, NullsAssumption DEF CreateUser, UserCreated, UserRow
<1>4. ASSUME NEW u \in Users, NEW n \in Numbers, CreateOrder(u, n)
      PROVE  orders[n] = NoRow /\ UNCHANGED <<users, withdrawals>>
             /\ \A m \in Numbers \ {n} : orders'[m] = orders[m]
  BY <1>4 DEF CreateOrder, OrderCreated
<1>5. ASSUME NEW n \in Numbers, NEW status \in Statuses, NEW accrual \in Accruals,
             ApplyAccrualResult(n, status, accrual)
      PROVE  /\ UNCHANGED withdrawals
             /\ \A m \in Numbers \ {n} : orders'[m] = orders[m]
             /\ orders[n] # NoRow /\ ~IsFinal(orders[n].status) /\ orders'[n] # NoRow
             /\ orders'[n].user = orders[n].user
             /\ \A u \in Users : users[u] # NoRow =>
                  users'[u] # NoRow /\ users[u].withdrawn <= users'[u].withdrawn
  <2>1. PICK owner \in Users : owner = orders[n].user
    BY <1>5 DEF ApplyAccrualResult, OrderRow
  <2> DEFINE row == [user |-> owner, status |-> status, accrual |-> accrual]
             richer == Credited(users[owner], AccrualValue(accrual))
  <2>2. row \in OrderRow /\ row.user = owner
    BY DEF OrderRow
  <2>3. /\ orders' = [orders EXCEPT ![n] = row] /\ UNCHANGED withdrawals
        /\ users' = IF status = "PROCESSED" THEN [users EXCEPT ![owner] = richer] ELSE users
        /\ orders[n] # NoRow /\ ~IsFinal(orders[n].status) /\ users[owner] # NoRow
    BY <1>5, <2>1 DEF ApplyAccrualResult, AccrualApplied, RowsHaveOwners
  <2>4. Books'
    BY <1>5, ApplyAccrualResultKeepsBooks
  <2>5. richer \in UserRow /\ richer.withdrawn = users[owner].withdrawn
    <3>1. AccrualValue(accrual) \in Int
      BY AmountsAssumption DEF AccrualValue, Accruals
    <3>2. users[owner] \in UserRow
      BY <2>3
    <3> QED
      BY <3>1, <3>2 DEF Credited, UserRow
  <2> HIDE DEF row, richer
  <2> QED
    BY <1>1, <2>1, <2>2, <2>3, <2>5, NullsAssumption
<1>6. ASSUME NEW u \in Users, NEW n \in Numbers, NEW sum \in Sums,
             CreateWithdrawal(u, n, sum)
      PROVE  /\ UNCHANGED orders /\ withdrawals[n] = NoRow
             /\ \A m \in Numbers \ {n} : withdrawals'[m] = withdrawals[m]
             /\ \A v \in Users : users[v] # NoRow =>
                  users'[v] # NoRow /\ users[v].withdrawn <= users'[v].withdrawn
  <2> DEFINE poorer == Debited(users[u], sum)
  <2>1. /\ UNCHANGED orders /\ withdrawals[n] = NoRow /\ users[u] \in UserRow
        /\ \A m \in Numbers \ {n} : withdrawals'[m] = withdrawals[m]
        /\ users' = [users EXCEPT ![u] = poorer]
    BY <1>6 DEF CreateWithdrawal, WithdrawalCreated
  <2>2. sum \in Nat
    BY AmountsAssumption DEF Sums
  <2>3. poorer \in UserRow /\ users[u].withdrawn <= poorer.withdrawn
    BY <2>1, <2>2 DEF Debited, UserRow
  <2> HIDE DEF poorer
  <2> QED
    BY <1>1, <2>1, <2>3, NullsAssumption
<1>7. CASE \E u \in Users : CreateUser(u)
  BY <1>1, <1>3, <1>7
<1>8. CASE \E u \in Users, n \in Numbers : CreateOrder(u, n)
  BY <1>1, <1>4, <1>8
<1>9. CASE \E n \in Numbers, status \in Statuses, accrual \in Accruals :
             ApplyAccrualResult(n, status, accrual)
  BY <1>1, <1>5, <1>9
<1>10. CASE \E u \in Users, n \in Numbers, sum \in Sums : CreateWithdrawal(u, n, sum)
  BY <1>1, <1>6, <1>10
<1> QED
  BY <1>2, <1>7, <1>8, <1>9, <1>10 DEF Next

\* The inductive invariant of the ledger: its tables have their types, rows have
\* owners, nobody is overdrawn and the balances are explained by the rows.
THEOREM BooksHold == Spec => []Books
<1>1. TablesInit => Books
  BY InitBooks
<1>2. Books /\ [Next]_tables => Books'
  BY NextKeepsBooks
<1> QED
  BY <1>1, <1>2, PTL DEF Spec

\* The balances of a user always agree with its orders and its withdrawals.
THEOREM ConservationHolds == Spec => []Conservation
<1>1. Books => Conservation
  BY DEF Books
<1> QED
  BY <1>1, BooksHold, PTL
=============================================================================
