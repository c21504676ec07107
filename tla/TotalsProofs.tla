---------------------------- MODULE TotalsProofs ----------------------------
(***************************************************************************)
(* What Total computes, for the proofs about the modules that use it.      *)
(*                                                                         *)
(* The facts are proved by induction on finite sets, in the form that a    *)
(* non-empty set of subsets of a finite set has a smallest one: a smallest *)
(* counterexample is refuted from the smaller sets.                        *)
(***************************************************************************)
EXTENDS Totals, FiniteSetTheorems, WellFoundedInduction, TLAPS

-----------------------------------------------------------------------------
(* The recursion under Total: SumOn(f, U) is the function that gives the   *)
(* sum of f over each subset of U, if there is one.                        *)

First(s) == CHOOSE x \in s : TRUE
AddUp(f, g, s) == IF s = {} THEN 0 ELSE f[First(s)] + g[s \ {First(s)}]
Sums(f, U, g) == g = [s \in SUBSET U |-> AddUp(f, g, s)]
SumOn(f, U) == CHOOSE g : Sums(f, U, g)

LEMMA TotalIs == ASSUME NEW f, NEW S PROVE Total(f, S) = SumOn(f, S)[S]
  BY DEF Total, MapThenSumSet, MapThenFoldSet, SumOn, Sums, AddUp, First

(* A non-empty set of subsets of a finite set has a smallest one.          *)
LEMMA SmallestSubset ==
    ASSUME NEW S, IsFiniteSet(S), NEW T \in SUBSET (SUBSET S), T # {}
    PROVE  \E U \in T : \A V \in SUBSET U : V # U => V \notin T
<1>1. IsWellFoundedOn(StrictSubsetOrdering(S), SUBSET S)
  BY FS_StrictSubsetOrderingWellFounded, FS_FiniteSubsetsOfFinite
<1>2. \E U \in T : \A V \in T : <<V, U>> \notin StrictSubsetOrdering(S)
  BY <1>1, WFMin
<1>3. QED BY <1>2 DEF StrictSubsetOrdering

(* Two such functions agree on the subsets that both are about.            *)
LEMMA Agree ==
    ASSUME NEW S, IsFiniteSet(S), NEW f,
           NEW U \in SUBSET S, NEW V \in SUBSET S, NEW g, NEW h,
           Sums(f, U, g), Sums(f, V, h)
    PROVE  \A s \in SUBSET (U \cap V) : g[s] = h[s]
<1> DEFINE T == {s \in SUBSET (U \cap V) : g[s] # h[s]}
<1>1. SUFFICES T = {}
  OBVIOUS
<1>2. SUFFICES ASSUME T # {} PROVE FALSE
  OBVIOUS
<1>3. PICK s \in T : \A r \in SUBSET s : r # s => r \notin T
  <2>1. T \in SUBSET (SUBSET S)
    OBVIOUS
  <2>2. QED
    <3> HIDE DEF T
    <3>1. QED BY <1>2, <2>1, SmallestSubset
<1>4. g[s] = AddUp(f, g, s) /\ h[s] = AddUp(f, h, s)
  BY DEF Sums
<1>5. s # {}
  BY <1>4 DEF AddUp
<1>6. First(s) \in s
  BY <1>5 DEF First
<1>7. g[s \ {First(s)}] = h[s \ {First(s)}]
  BY <1>3, <1>6
<1>8. QED BY <1>4, <1>5, <1>7 DEF AddUp

(* There is such a function on every finite set: the values that the       *)
(* functions of the smaller sets give, and one more.                       *)
LEMMA SumsExist ==
    ASSUME NEW S, IsFiniteSet(S), NEW f
    PROVE  Sums(f, S, SumOn(f, S))
<1> DEFINE T == {U \in SUBSET S : ~ Sums(f, U, SumOn(f, U))}
<1>1. SUFFICES ASSUME T # {} PROVE FALSE
  OBVIOUS
<1>2. PICK U \in T : \A V \in SUBSET U : V # U => V \notin T
  <2>1. T \in SUBSET (SUBSET S)
    OBVIOUS
  <2>2. QED
    <3> HIDE DEF T
    <3>1. QED BY <1>1, <2>1, SmallestSubset
<1>3. U \in SUBSET S /\ ~ Sums(f, U, SumOn(f, U))
  OBVIOUS
<1>4. \A V \in SUBSET U : V # U => Sums(f, V, SumOn(f, V))
  BY <1>2, <1>3
<1> HIDE DEF T
<1> DEFINE low[s \in SUBSET U] == SumOn(f, s)[s]
           g == [s \in SUBSET U |-> AddUp(f, low, s)]
<1>5. ASSUME NEW s \in SUBSET U, s # U
      PROVE  g[s] = low[s]
  <2>1. Sums(f, s, SumOn(f, s))
    BY <1>4, <1>5
  <2>2. SumOn(f, s)[s] = AddUp(f, SumOn(f, s), s)
    BY <2>1 DEF Sums
  <2>3. CASE s = {}
    BY <2>2, <2>3 DEF AddUp
  <2>4. CASE s # {}
    <3> DEFINE r == s \ {First(s)}
    <3>1. First(s) \in s
      BY <2>4 DEF First
    <3>2. r \in SUBSET U /\ r # U /\ r \in SUBSET (s \cap r)
      BY <3>1
    <3>3. Sums(f, r, SumOn(f, r))
      BY <1>4, <3>2
    <3> HIDE DEF r
    <3>4. s \in SUBSET S /\ r \in SUBSET S
      BY <1>3, <3>2
    <3>5. SumOn(f, s)[r] = SumOn(f, r)[r]
      BY <3>4, <3>2, <3>3, <2>1, Agree
    <3>6. AddUp(f, SumOn(f, s), s) = AddUp(f, low, s)
      BY <3>5, <3>2, <2>4 DEF AddUp, r
    <3>7. QED BY <3>6, <2>2
  <2>5. QED BY <2>3, <2>4
<1>6. ASSUME NEW s \in SUBSET U
      PROVE  AddUp(f, low, s) = AddUp(f, g, s)
  <2>1. CASE s = {}
    BY <2>1 DEF AddUp
  <2>2. CASE s # {}
    <3>1. First(s) \in s
      BY <2>2 DEF First
    <3>2. s \ {First(s)} \in SUBSET U /\ s \ {First(s)} # U
      BY <3>1
    <3>3. QED
      <4> HIDE DEF g, low
      <4>1. QED BY <1>5, <3>2, <2>2 DEF AddUp
  <2>3. QED BY <2>1, <2>2
<1>7. Sums(f, U, g)
  <2> HIDE DEF low
  <2>1. g = [s \in SUBSET U |-> AddUp(f, low, s)]
    OBVIOUS
  <2> HIDE DEF g
  <2>2. QED BY <2>1, <1>6, Zenon DEF Sums
<1>8. Sums(f, U, SumOn(f, U))
  <2> HIDE DEF g
  <2>1. QED BY <1>7, Zenon DEF SumOn
<1>9. QED BY <1>8, <1>3
-----------------------------------------------------------------------------
(* What Total computes.                                                    *)

LEMMA TotalUnfolds ==
    ASSUME NEW S, IsFiniteSet(S), NEW f, S # {}
    PROVE  Total(f, S) = f[First(S)] + Total(f, S \ {First(S)})
<1> DEFINE r == S \ {First(S)}
<1>1. r \in SUBSET S /\ IsFiniteSet(r) /\ r \in SUBSET (S \cap r)
  BY FS_Subset
<1>2. Sums(f, S, SumOn(f, S))
  BY SumsExist
<1>3. Sums(f, r, SumOn(f, r))
  <2> HIDE DEF r
  <2>1. QED BY <1>1, SumsExist
<1>4. SumOn(f, S)[r] = SumOn(f, r)[r]
  <2> HIDE DEF r
  <2>1. S \in SUBSET S
    OBVIOUS
  <2>2. QED BY <1>1, <1>2, <1>3, <2>1, Agree
<1>5. SumOn(f, S)[S] = f[First(S)] + SumOn(f, S)[r]
  BY <1>2 DEF Sums, AddUp
<1>6. QED BY <1>4, <1>5, TotalIs

LEMMA TotalOfNone == ASSUME NEW f PROVE Total(f, {}) = 0
<1>1. Sums(f, {}, SumOn(f, {}))
  BY FS_EmptySet, SumsExist
<1>2. QED BY <1>1, TotalIs DEF Sums, AddUp

LEMMA TotalNat ==
    ASSUME NEW S, IsFiniteSet(S), NEW f, \A e \in S : f[e] \in Nat
    PROVE  Total(f, S) \in Nat
<1> DEFINE T == {U \in SUBSET S : Total(f, U) \notin Nat}
<1>1. SUFFICES ASSUME T # {} PROVE FALSE
  OBVIOUS
<1>2. PICK U \in T : \A V \in SUBSET U : V # U => V \notin T
  <2>1. T \in SUBSET (SUBSET S)
    OBVIOUS
  <2>2. QED
    <3> HIDE DEF T
    <3>1. QED BY <1>1, <2>1, SmallestSubset
<1>3. U # {}
  BY TotalOfNone
<1>4. First(U) \in U
  BY <1>3 DEF First
<1>5. Total(f, U \ {First(U)}) \in Nat
  BY <1>2, <1>4
<1>6. Total(f, U) = f[First(U)] + Total(f, U \ {First(U)})
  <2>1. IsFiniteSet(U)
    BY FS_Subset
  <2>2. QED BY <1>3, <2>1, TotalUnfolds
<1>7. QED BY <1>4, <1>5, <1>6

(* Any element can be taken out first.                                     *)
LEMMA TotalTakesOut ==
    ASSUME NEW S, IsFiniteSet(S), NEW f, \A e \in S : f[e] \in Nat, NEW x \in S
    PROVE  Total(f, S) = f[x] + Total(f, S \ {x})
<1> DEFINE T == {U \in SUBSET S : \E y \in U : Total(f, U) # f[y] + Total(f, U \ {y})}
<1>1. SUFFICES ASSUME T # {} PROVE FALSE
  OBVIOUS
<1>2. PICK U \in T : \A V \in SUBSET U : V # U => V \notin T
  <2>1. T \in SUBSET (SUBSET S)
    OBVIOUS
  <2>2. QED
    <3> HIDE DEF T
    <3>1. QED BY <1>1, <2>1, SmallestSubset
<1>3. PICK y \in U : Total(f, U) # f[y] + Total(f, U \ {y})
  BY <1>2
<1> DEFINE z == First(U)
           both == U \ {y, z}
<1>4. z \in U
  BY <1>3 DEF First
<1>5. \A V \in SUBSET U : IsFiniteSet(V)
  BY FS_Subset
<1>6. \A V \in SUBSET U : Total(f, V) \in Nat
  BY <1>5, TotalNat
<1>7. Total(f, U) = f[z] + Total(f, U \ {z})
  BY <1>5, <1>3, TotalUnfolds
<1>8. y # z
  BY <1>3, <1>7
<1>9. Total(f, U \ {z}) = f[y] + Total(f, both)
  <2>1. U \ {z} \in SUBSET U /\ U \ {z} # U /\ y \in U \ {z}
    BY <1>4, <1>8
  <2>2. (U \ {z}) \ {y} = both
    OBVIOUS
  <2>3. U \ {z} \notin T
    BY <1>2, <2>1
  <2>4. U \ {z} \in SUBSET S
    BY <2>1
  <2> HIDE DEF z, both
  <2>5. QED BY <2>1, <2>2, <2>3, <2>4
<1>10. Total(f, U \ {y}) = f[z] + Total(f, both)
  <2>1. U \ {y} \in SUBSET U /\ U \ {y} # U /\ z \in U \ {y}
    BY <1>3, <1>4, <1>8
  <2>2. (U \ {y}) \ {z} = both
    OBVIOUS
  <2>3. U \ {y} \notin T
    BY <1>2, <2>1
  <2>4. U \ {y} \in SUBSET S
    BY <2>1
  <2> HIDE DEF z, both
  <2>5. QED BY <2>1, <2>2, <2>3, <2>4
<1>11. f[y] \in Nat /\ f[z] \in Nat /\ Total(f, both) \in Nat
  BY <1>3, <1>4, <1>6
<1>12. QED
  <2> HIDE DEF z, both
  <2>1. QED BY <1>3, <1>7, <1>9, <1>10, <1>11

(* A total grows with the set and with the amounts, ...                    *)
LEMMA TotalGrows ==
    ASSUME NEW S, IsFiniteSet(S), NEW R \in SUBSET S, NEW f, NEW g,
           \A e \in R : f[e] \in Nat /\ f[e] <= g[e], \A e \in S : g[e] \in Nat
    PROVE  Total(f, R) <= Total(g, S)
<1> DEFINE T == {U \in SUBSET S : ~ (Total(f, R \cap U) <= Total(g, U))}
<1>1. SUFFICES ASSUME T # {} PROVE FALSE
  BY R \cap S = R
<1>2. PICK U \in T : \A V \in SUBSET U : V # U => V \notin T
  <2>1. T \in SUBSET (SUBSET S)
    OBVIOUS
  <2>2. QED
    <3> HIDE DEF T
    <3>1. QED BY <1>1, <2>1, SmallestSubset
<1>3. U # {}
  <2>1. SUFFICES ASSUME U = {} PROVE FALSE
    OBVIOUS
  <2>2. R \cap U = {}
    BY <2>1
  <2>3. Total(f, R \cap U) <= Total(g, U)
    BY <2>1, <2>2, TotalOfNone
  <2>4. QED BY <1>2, <2>3
<1>4. PICK y : y \in U
  BY <1>3
<1> DEFINE V == U \ {y}
<1>5. V \in SUBSET U /\ V # U /\ V \in SUBSET S
  BY <1>4
<1>6. Total(f, R \cap V) <= Total(g, V)
  BY <1>2, <1>5
<1>7. IsFiniteSet(V) /\ IsFiniteSet(U) /\ IsFiniteSet(R \cap V) /\ IsFiniteSet(R \cap U)
  BY <1>5, FS_Subset
<1>8. Total(g, U) = g[y] + Total(g, V)
  <2>1. \A e \in U : g[e] \in Nat
    OBVIOUS
  <2>2. QED BY <1>4, <1>7, <2>1, TotalTakesOut
<1>9. Total(g, V) \in Nat /\ Total(f, R \cap V) \in Nat
  <2> HIDE DEF V
  <2>1. QED BY <1>5, <1>7, TotalNat
<1>10. CASE y \in R
  <2>1. (R \cap U) \ {y} = R \cap V /\ y \in R \cap U
    BY <1>4, <1>10
  <2>2. Total(f, R \cap U) = f[y] + Total(f, R \cap V)
    <3>1. \A e \in R \cap U : f[e] \in Nat
      OBVIOUS
    <3> HIDE DEF V
    <3>2. QED BY <1>7, <2>1, <3>1, TotalTakesOut
  <2>3. QED
    <3> HIDE DEF V
    <3>1. f[y] \in Nat /\ g[y] \in Nat /\ f[y] <= g[y]
      BY <1>4, <1>10
    <3>2. Total(f, R \cap U) <= Total(g, U)
      BY <1>6, <1>8, <1>9, <2>2, <3>1
    <3>3. QED BY <1>2, <3>2, Zenon DEF T
<1>11. CASE y \notin R
  <2>1. R \cap U = R \cap V
    BY <1>11
  <2>2. QED
    <3> HIDE DEF V
    <3>1. g[y] \in Nat
      BY <1>4
    <3>2. Total(f, R \cap U) <= Total(g, U)
      <4>1. Total(f, R \cap U) = Total(f, R \cap V)
        BY <2>1, Zenon
      <4>2. QED BY <1>6, <1>8, <1>9, <3>1, <4>1
    <3>3. QED BY <1>2, <3>2, Zenon DEF T
<1>12. QED BY <1>10, <1>11

(* Nothing adds up to nothing.                                             *)
LEMMA TotalOfZeros ==
    ASSUME NEW S, IsFiniteSet(S), NEW f, \A e \in S : f[e] = 0
    PROVE  Total(f, S) = 0
<1> DEFINE T == {U \in SUBSET S : Total(f, U) # 0}
<1>1. SUFFICES ASSUME T # {} PROVE FALSE
  OBVIOUS
<1>2. PICK U \in T : \A V \in SUBSET U : V # U => V \notin T
  <2>1. T \in SUBSET (SUBSET S)
    OBVIOUS
  <2> HIDE DEF T
  <2> QED BY <2>1, <1>1, SmallestSubset
<1>3. U # {}
  BY TotalOfNone
<1>4. PICK x \in U : TRUE
  BY <1>3
<1>5. IsFiniteSet(U) /\ \A e \in U : f[e] \in Nat
  BY FS_Subset
<1>6. Total(f, U) = f[x] + Total(f, U \ {x})
  BY <1>5, TotalTakesOut
<1>7. Total(f, U \ {x}) = 0
  <2>1. U \ {x} \in SUBSET U /\ U \ {x} # U /\ U \ {x} \in SUBSET S
    OBVIOUS
  <2> QED BY <2>1, <1>2
<1> QED BY <1>6, <1>7

(* ... and depends on nothing but the amounts in the set.                  *)
LEMMA TotalSame ==
    ASSUME NEW S, IsFiniteSet(S), NEW f, NEW g,
           \A e \in S : f[e] \in Nat /\ f[e] = g[e]
    PROVE  Total(f, S) = Total(g, S)
<1>1. S \in SUBSET S
  OBVIOUS
<1>2. Total(f, S) <= Total(g, S)
  BY <1>1, TotalGrows
<1>3. Total(g, S) <= Total(f, S)
  BY <1>1, TotalGrows
<1>4. Total(f, S) \in Nat /\ Total(g, S) \in Nat
  BY TotalNat
<1>5. QED BY <1>2, <1>3, <1>4

LEMMA TotalPutsIn ==
    ASSUME NEW S, IsFiniteSet(S), NEW f, \A e \in S : f[e] \in Nat,
           NEW x, x \notin S, f[x] \in Nat
    PROVE  Total(f, S \cup {x}) = f[x] + Total(f, S)
<1>1. (S \cup {x}) \ {x} = S
  OBVIOUS
<1>2. IsFiniteSet(S \cup {x})
  BY FS_AddElement
<1>3. \A e \in S \cup {x} : f[e] \in Nat
  OBVIOUS
<1> DEFINE T == S \cup {x}
<1>4. T \ {x} = S /\ IsFiniteSet(T) /\ x \in T /\ \A e \in T : f[e] \in Nat
  BY <1>1, <1>2, <1>3
<1> HIDE DEF T
<1>5. Total(f, T) = f[x] + Total(f, T \ {x})
  BY <1>4, TotalTakesOut
<1>6. Total(f, T) = f[x] + Total(f, S)
  BY <1>4, <1>5
<1>7. QED BY <1>6 DEF T

(* The totals of two sets without a common element.                        *)
LEMMA TotalOfUnion ==
    ASSUME NEW A, IsFiniteSet(A), NEW B, IsFiniteSet(B), A \cap B = {}, NEW f,
           \A e \in A \cup B : f[e] \in Nat
    PROVE  Total(f, A \cup B) = Total(f, A) + Total(f, B)
<1> DEFINE T == {U \in SUBSET A : Total(f, U \cup B) # Total(f, U) + Total(f, B)}
<1>1. SUFFICES ASSUME T # {} PROVE FALSE
  OBVIOUS
<1>2. PICK U \in T : \A V \in SUBSET U : V # U => V \notin T
  <2>1. T \in SUBSET (SUBSET A)
    OBVIOUS
  <2>2. QED
    <3> HIDE DEF T
    <3>1. QED BY <1>1, <2>1, SmallestSubset
<1>3. Total(f, B) \in Nat
  BY TotalNat
<1>4. U # {}
  <2>1. SUFFICES ASSUME U = {} PROVE FALSE
    OBVIOUS
  <2>2. U \cup B = B /\ Total(f, U) = 0
    BY <2>1, TotalOfNone
  <2>3. Total(f, U \cup B) = Total(f, B)
    BY <2>2, Zenon
  <2> HIDE DEF T
  <2>4. Total(f, U \cup B) = Total(f, U) + Total(f, B)
    BY <2>2, <2>3, <1>3
  <2>5. QED BY <1>2, <2>4, Zenon DEF T
<1>5. PICK y : y \in U
  BY <1>4
<1> DEFINE V == U \ {y}
<1>6. V \in SUBSET U /\ V # U /\ V \in SUBSET A
  BY <1>5
<1>7. Total(f, V \cup B) = Total(f, V) + Total(f, B)
  <2>1. V \in SUBSET A /\ V \notin T
    BY <1>2, <1>6
  <2>2. QED BY <2>1, Zenon
<1>8. /\ IsFiniteSet(U) /\ IsFiniteSet(V) /\ IsFiniteSet(U \cup B)
      /\ \A e \in U \cup B : f[e] \in Nat
  BY <1>6, FS_Subset, FS_Union
<1>9. Total(f, U) = f[y] + Total(f, V)
  BY <1>5, <1>8, TotalTakesOut
<1>10. Total(f, U \cup B) = f[y] + Total(f, V \cup B)
  <2>1. (U \cup B) \ {y} = V \cup B /\ y \in U \cup B
    BY <1>5
  <2>2. Total(f, U \cup B) = f[y] + Total(f, (U \cup B) \ {y})
    BY <1>8, <2>1, TotalTakesOut
  <2>3. QED BY <2>1, <2>2
<1>11. Total(f, V) \in Nat /\ f[y] \in Nat
  <2>1. \A e \in V : f[e] \in Nat
    BY <1>6, <1>8
  <2> HIDE DEF V
  <2>2. QED BY <1>5, <1>8, <2>1, TotalNat
<1>12. Total(f, U \cup B) = Total(f, U) + Total(f, B)
  BY <1>3, <1>7, <1>9, <1>10, <1>11
<1>13. QED
  BY <1>2, <1>12

(* The totals of the classes of a set, added up, are the total of the set. *)
LEMMA TotalByParts ==
    ASSUME NEW S, IsFiniteSet(S), NEW C, IsFiniteSet(C), NEW f, NEW class,
           \A e \in S : f[e] \in Nat /\ class[e] \in C
    PROVE  Total([c \in C |-> Total(f, {e \in S : class[e] = c})], C) = Total(f, S)
<1> DEFINE part == [c \in C |-> Total(f, {e \in S : class[e] = c})]
           Upon(D) == {e \in S : class[e] \in D}
           T == {D \in SUBSET C : Total(part, D) # Total(f, Upon(D))}
<1>1. \A R \in SUBSET S : IsFiniteSet(R) /\ Total(f, R) \in Nat
  BY FS_Subset, TotalNat
<1>2. \A c \in C : part[c] \in Nat
  BY <1>1
<1>3. T = {}
  <2>1. SUFFICES ASSUME T # {} PROVE FALSE
    OBVIOUS
  <2>2. PICK D \in T : \A E \in SUBSET D : E # D => E \notin T
    <3>1. T \in SUBSET (SUBSET C)
      OBVIOUS
    <3>2. QED
      <4> HIDE DEF T
      <4>1. QED BY <2>1, <3>1, SmallestSubset
  <2>3. D # {}
    <3>1. SUFFICES ASSUME D = {} PROVE FALSE
      OBVIOUS
    <3>2. Upon(D) = {}
      BY <3>1
    <3>3. Total(part, D) = 0 /\ Total(f, Upon(D)) = 0
      <4> HIDE DEF part
      <4>1. QED BY <3>1, <3>2, TotalOfNone
    <3>4. QED BY <2>2, <3>3
  <2>4. PICK y : y \in D
    BY <2>3
  <2> DEFINE E == D \ {y}
  <2>5. E \in SUBSET D /\ E # D /\ E \in SUBSET C /\ y \in C /\ y \notin E /\ D \in SUBSET C
    BY <2>4
  <2>6. Total(part, E) = Total(f, Upon(E))
    BY <2>2, <2>5
  <2>7. IsFiniteSet(D) /\ \A c \in D : part[c] \in Nat
    BY <1>2, FS_Subset
  <2>8. Total(part, D) = part[y] + Total(part, E)
    <3> HIDE DEF part
    <3>1. QED BY <2>4, <2>7, TotalTakesOut
  <2> DEFINE A == {e \in S : class[e] = y}
  <2>9. /\ A \in SUBSET S /\ Upon(E) \in SUBSET S
        /\ A \cap Upon(E) = {} /\ A \cup Upon(E) = Upon(D)
    BY <2>4
  <2>10. part[y] = Total(f, A)
    BY <2>5
  <2> HIDE DEF A, E, part, Upon
  <2>11. Total(f, Upon(D)) = Total(f, A) + Total(f, Upon(E))
    <3>1. IsFiniteSet(A) /\ IsFiniteSet(Upon(E)) /\ \A e \in A \cup Upon(E) : f[e] \in Nat
      BY <1>1, <2>9
    <3>2. Total(f, A \cup Upon(E)) = Total(f, A) + Total(f, Upon(E))
      BY <2>9, <3>1, TotalOfUnion
    <3>3. QED BY <2>9, <3>2
  <2>12. Total(part, D) = Total(f, Upon(D))
    BY <2>6, <2>8, <2>10, <2>11
  <2>13. QED
    BY <2>2, <2>12
<1>4. Total(part, C) = Total(f, Upon(C))
  BY <1>3
<1>5. Upon(C) = S
  OBVIOUS
<1>6. QED
  BY <1>4, <1>5

(* A set has as many elements as ones add up to over it.                   *)
LEMMA CountIsTotal ==
    ASSUME NEW S, IsFiniteSet(S), NEW f, \A e \in S : f[e] = 1
    PROVE  Total(f, S) = Cardinality(S)
<1> DEFINE T == {U \in SUBSET S : Total(f, U) # Cardinality(U)}
<1>1. SUFFICES ASSUME T # {} PROVE FALSE
  OBVIOUS
<1>2. PICK U \in T : \A V \in SUBSET U : V # U => V \notin T
  <2>1. T \in SUBSET (SUBSET S)
    OBVIOUS
  <2>2. QED
    <3> HIDE DEF T
    <3>1. QED BY <1>1, <2>1, SmallestSubset
<1>3. U # {}
  <2>1. SUFFICES ASSUME U = {} PROVE FALSE
    OBVIOUS
  <2>2. Total(f, U) = Cardinality(U)
    BY <2>1, TotalOfNone, FS_EmptySet
  <2>3. QED BY <1>2, <2>2
<1>4. PICK y : y \in U
  BY <1>3
<1> DEFINE V == U \ {y}
<1>5. V \in SUBSET U /\ V # U /\ V \in SUBSET S
  BY <1>4
<1>6. Total(f, V) = Cardinality(V)
  BY <1>2, <1>5
<1>7. IsFiniteSet(U) /\ \A e \in U : f[e] \in Nat
  BY FS_Subset
<1>8. Total(f, U) = f[y] + Total(f, V)
  BY <1>4, <1>7, TotalTakesOut
<1>9. Cardinality(V) = Cardinality(U) - 1 /\ Cardinality(U) \in Nat
  BY <1>4, <1>7, FS_RemoveElement, FS_CardinalityType
<1>10. f[y] = 1
  BY <1>4
<1> HIDE DEF V
<1>11. Total(f, U) = Cardinality(U)
  BY <1>6, <1>8, <1>9, <1>10
<1>12. QED
  BY <1>2, <1>11

=============================================================================
