----------------------------- MODULE SumProofs -----------------------------
(***************************************************************************)
(* Sums over finite sets: MapThenSumSet, which is defined by recursion on  *)
(* the subsets of a set, exists, takes the values it should, and does not  *)
(* depend on the order in which elements are picked.                       *)
(*                                                                         *)
(* Induction is on the number of elements, in the form "a set of numbers   *)
(* that is not empty has a least one".                                     *)
(***************************************************************************)
EXTENDS FiniteSetsExt, FiniteSetTheorems, WellFoundedInduction, TLAPS

LEMMA Least ==
  ASSUME NEW T \in SUBSET Nat, T # {}
  PROVE  \E n \in T : \A k \in T : n <= k
<1>1. PICK n \in T : \A k \in T : ~ (<<k, n>> \in OpToRel(<, Nat))
  <2>1. IsWellFoundedOn(OpToRel(<, Nat), Nat)
    BY NatLessThanWellFounded
  <2> QED
    BY <2>1, WFMin
<1>2. \A k \in T : ~(k < n)
  <2> SUFFICES ASSUME NEW k \in T, k < n PROVE FALSE
    OBVIOUS
  <2>1. <<k, n>> \in OpToRel(<, Nat)
    BY DEF OpToRel
  <2> QED
    BY <1>1, <2>1
<1> QED
  BY <1>2

(* The element a recursion takes from a set. *)
Pick(s) == CHOOSE x \in s : TRUE

(* g sums f over the subsets of S. *)
Sums(f, S, g) ==
  g = [s \in SUBSET S |-> IF s = {} THEN 0 ELSE f[Pick(s)] + g[s \ {Pick(s)}]]

LEMMA Smaller ==
  ASSUME NEW s, IsFiniteSet(s), s # {}
  PROVE  /\ Pick(s) \in s /\ IsFiniteSet(s \ {Pick(s)})
         /\ Cardinality(s \ {Pick(s)}) = Cardinality(s) - 1
         /\ Cardinality(s) \in Nat \ {0}
<1>1. Pick(s) \in s
  BY DEF Pick
<1> QED
  BY <1>1, FS_RemoveElement, FS_CardinalityType, FS_EmptySet

(* Two such functions agree on what they both sum. *)
LEMMA SumsAgree ==
  ASSUME NEW f, NEW S, IsFiniteSet(S), NEW g, Sums(f, S, g),
         NEW e, NEW R \in SUBSET S, NEW h, Sums(e, R, h), \A x \in R : e[x] = f[x]
  PROVE  \A s \in SUBSET R : g[s] = h[s]
<1> DEFINE Bad == {s \in SUBSET R : g[s] # h[s]}
           T == {n \in Nat : \E s \in Bad : Cardinality(s) = n}
<1> SUFFICES ASSUME Bad # {} PROVE FALSE
  OBVIOUS
<1>1. \A s \in SUBSET R : IsFiniteSet(s) /\ Cardinality(s) \in Nat
  BY FS_Subset, FS_CardinalityType
<1>2. T \in SUBSET Nat /\ T # {}
  BY <1>1
<1>3. PICK n \in T : \A k \in T : n <= k
  <2> HIDE DEF T
  <2> QED
    BY <1>2, Least
<1>4. PICK s \in Bad : Cardinality(s) = n
  BY <1>3
<1>5. /\ g[s] = IF s = {} THEN 0 ELSE f[Pick(s)] + g[s \ {Pick(s)}]
      /\ h[s] = IF s = {} THEN 0 ELSE e[Pick(s)] + h[s \ {Pick(s)}]
  <2>1. s \in SUBSET R /\ s \in SUBSET S
    OBVIOUS
  <2> HIDE DEF Bad, T
  <2> QED
    BY <2>1 DEF Sums
<1>6. CASE s = {}
  BY <1>5, <1>6
<1>7. CASE s # {}
  <2>1. /\ s \ {Pick(s)} \in SUBSET R /\ e[Pick(s)] = f[Pick(s)] /\ Cardinality(s \ {Pick(s)}) = n - 1 /\ n \in Nat \ {0}
    BY <1>1, <1>4, <1>7, Smaller
  <2>2. s \ {Pick(s)} \notin Bad
    <3> SUFFICES ASSUME s \ {Pick(s)} \in Bad PROVE FALSE
      OBVIOUS
    <3>1. n - 1 \in T
      BY <2>1
    <3> QED
      BY <1>3, <2>1, <3>1
  <2> QED
    BY <1>5, <1>7, <2>1, <2>2
<1> QED
  BY <1>6, <1>7

(* There is such a function. *)
LEMMA SumsExist ==
  ASSUME NEW f, NEW S, IsFiniteSet(S)
  PROVE  \E g : Sums(f, S, g)
<1> DEFINE Bad == {R \in SUBSET S : ~ \E g : Sums(f, R, g)}
           T == {n \in Nat : \E R \in Bad : Cardinality(R) = n}
<1> SUFFICES ASSUME S \in Bad PROVE FALSE
  OBVIOUS
<1>1. \A R \in SUBSET S : IsFiniteSet(R) /\ Cardinality(R) \in Nat
  BY FS_Subset, FS_CardinalityType
<1>2. T \in SUBSET Nat /\ T # {}
  BY <1>1
<1>3. PICK n \in T : \A k \in T : n <= k
  <2> HIDE DEF T
  <2> QED
    BY <1>2, Least
<1>4. PICK R \in Bad : Cardinality(R) = n
  BY <1>3
<1>5. \A s \in SUBSET R : s # R => \E g : Sums(f, s, g)
  <2> SUFFICES ASSUME NEW s \in SUBSET R, s # R, s \in Bad PROVE FALSE
    OBVIOUS
  <2>1. Cardinality(s) \in Nat /\ Cardinality(s) < n
    BY <1>1, <1>4, FS_Subset
  <2>2. Cardinality(s) \in T
    BY <2>1
  <2> QED
    BY <1>3, <2>1, <2>2
<1> DEFINE v(s) == (CHOOSE g : Sums(f, s, g))[s]
           h == [s \in SUBSET R |-> IF s # R THEN v(s)
                                    ELSE IF R = {} THEN 0 ELSE f[Pick(R)] + v(R \ {Pick(R)})]
<1>6. ASSUME NEW s \in SUBSET R, s # R
      PROVE  v(s) = IF s = {} THEN 0 ELSE f[Pick(s)] + v(s \ {Pick(s)})
  <2> DEFINE G(r) == CHOOSE g : Sums(f, r, g)
  <2>1. Sums(f, s, G(s)) /\ IsFiniteSet(s)
    BY <1>1, <1>5, <1>6
  <2>2. CASE s = {}
    BY <2>1, <2>2 DEF Sums
  <2>3. CASE s # {}
    <3>1. Pick(s) \in s /\ s \ {Pick(s)} \in SUBSET s
      BY <2>1, <2>3, Smaller
    <3>2. Sums(f, s \ {Pick(s)}, G(s \ {Pick(s)}))
      <4>1. s \ {Pick(s)} \in SUBSET R /\ s \ {Pick(s)} # R
        BY <3>1
      <4> QED
        BY <1>5, <4>1
    <3> HIDE DEF G
    <3>3. G(s)[s \ {Pick(s)}] = G(s \ {Pick(s)})[s \ {Pick(s)}]
      BY <2>1, <3>1, <3>2, SumsAgree
    <3>4. G(s)[s] = f[Pick(s)] + G(s)[s \ {Pick(s)}]
      BY <2>1, <2>3 DEF Sums
    <3> QED
      BY <2>3, <3>3, <3>4 DEF G
  <2> QED
    BY <2>2, <2>3
<1> HIDE DEF v
<1>7. ASSUME NEW s \in SUBSET R
      PROVE  h[s] = IF s = {} THEN 0 ELSE f[Pick(s)] + h[s \ {Pick(s)}]
  <2>1. CASE s = {}
    BY <1>6, <2>1
  <2>2. CASE s # {}
    <3>1. Pick(s) \in s /\ s \ {Pick(s)} \in SUBSET R /\ s \ {Pick(s)} # R
      BY <2>2 DEF Pick
    <3>2. h[s \ {Pick(s)}] = v(s \ {Pick(s)})
      BY <3>1
    <3> QED
      BY <1>6, <2>2, <3>2
  <2> QED
    BY <2>1, <2>2
<1>8. Sums(f, R, h)
  BY <1>7, Zenon DEF Sums
<1> QED
  BY <1>4, <1>8

(* Sums of natural numbers are such; and any element may be taken first. *)
LEMMA SumsType ==
  ASSUME NEW f, NEW S, IsFiniteSet(S), \A x \in S : f[x] \in Nat, NEW g, Sums(f, S, g)
  PROVE  \A s \in SUBSET S : g[s] \in Nat
<1> DEFINE Bad == {s \in SUBSET S : g[s] \notin Nat}
           T == {n \in Nat : \E s \in Bad : Cardinality(s) = n}
<1> SUFFICES ASSUME Bad # {} PROVE FALSE
  OBVIOUS
<1>1. \A s \in SUBSET S : IsFiniteSet(s) /\ Cardinality(s) \in Nat
  BY FS_Subset, FS_CardinalityType
<1>2. T \in SUBSET Nat /\ T # {}
  BY <1>1
<1>3. PICK n \in T : \A k \in T : n <= k
  <2> HIDE DEF T
  <2> QED
    BY <1>2, Least
<1>4. PICK s \in Bad : Cardinality(s) = n
  BY <1>3
<1>5. g[s] = IF s = {} THEN 0 ELSE f[Pick(s)] + g[s \ {Pick(s)}]
  <2>1. s \in SUBSET S
    OBVIOUS
  <2> HIDE DEF Bad, T
  <2> QED
    BY <2>1 DEF Sums
<1>6. s # {}
  BY <1>5
<1>7. /\ s \ {Pick(s)} \in SUBSET S /\ f[Pick(s)] \in Nat
      /\ Cardinality(s \ {Pick(s)}) = n - 1 /\ n \in Nat \ {0}
  BY <1>1, <1>4, <1>6, Smaller
<1>8. s \ {Pick(s)} \notin Bad
  <2> SUFFICES ASSUME s \ {Pick(s)} \in Bad PROVE FALSE
    OBVIOUS
  <2>1. n - 1 \in T
    BY <1>7
  <2> QED
    BY <1>3, <1>7, <2>1
<1> QED
  BY <1>5, <1>6, <1>7, <1>8

LEMMA SumsSplit ==
  ASSUME NEW f, NEW S, IsFiniteSet(S), \A x \in S : f[x] \in Nat, NEW g, Sums(f, S, g)
  PROVE  \A s \in SUBSET S : \A x \in s : g[s] = f[x] + g[s \ {x}]
<1> DEFINE Bad == {s \in SUBSET S : ~ \A x \in s : g[s] = f[x] + g[s \ {x}]}
           T == {n \in Nat : \E s \in Bad : Cardinality(s) = n}
<1> SUFFICES ASSUME Bad # {} PROVE FALSE
  OBVIOUS
<1>1. \A s \in SUBSET S : IsFiniteSet(s) /\ Cardinality(s) \in Nat
  BY FS_Subset, FS_CardinalityType
<1>2. T \in SUBSET Nat /\ T # {}
  BY <1>1
<1>3. PICK n \in T : \A k \in T : n <= k
  <2> HIDE DEF T
  <2> QED
    BY <1>2, Least
<1>4. PICK s \in Bad : Cardinality(s) = n
  BY <1>3
<1>5. PICK x \in s : g[s] # f[x] + g[s \ {x}]
  OBVIOUS
<1> DEFINE y == Pick(s)
<1>6. /\ s \in SUBSET S /\ y \in s /\ y # x
      /\ g[s] = f[y] + g[s \ {y}]
      /\ g[s \ {x}] \in Nat /\ g[s \ {y}] \in Nat /\ g[s \ {x, y}] \in Nat
      /\ f[x] \in Nat /\ f[y] \in Nat
  <2>1. s \in SUBSET S /\ y \in s
    BY DEF Pick
  <2>2. g[s] = f[y] + g[s \ {y}]
    <3> HIDE DEF Bad, T
    <3> QED
      BY <2>1 DEF Sums
  <2>3. {s \ {x}, s \ {y}, s \ {x, y}} \subseteq SUBSET S
    BY <2>1
  <2> HIDE DEF y, Bad, T
  <2> QED
    BY <1>5, <2>1, <2>2, <2>3, SumsType
<1> HIDE DEF y
<1>7. /\ s \ {x} \notin Bad /\ s \ {y} \notin Bad
      /\ s \ {x} \in SUBSET S /\ s \ {y} \in SUBSET S
  <2>1. /\ \A z \in s : s \ {z} \in SUBSET S /\ Cardinality(s \ {z}) = n - 1
        /\ n \in Nat \ {0}
    BY <1>1, <1>4, <1>6, FS_RemoveElement, FS_EmptySet
  <2> SUFFICES ASSUME NEW z \in s, s \ {z} \in Bad PROVE FALSE
    BY <1>5, <1>6, <2>1
  <2>2. n - 1 \in T
    <3> HIDE DEF Bad
    <3> QED
      BY <2>1
  <2> QED
    BY <1>3, <2>1, <2>2
<1>8. g[s \ {x}] = f[y] + g[(s \ {x}) \ {y}]
  BY <1>6, <1>7
<1>9. g[s \ {y}] = f[x] + g[(s \ {y}) \ {x}]
  BY <1>5, <1>6, <1>7
<1>10. (s \ {x}) \ {y} = s \ {x, y} /\ (s \ {y}) \ {x} = s \ {x, y}
  OBVIOUS
<1> HIDE DEF Bad, T
<1>11. g[s \ {x}] = f[y] + g[s \ {x, y}] /\ g[s \ {y}] = f[x] + g[s \ {x, y}]
  BY <1>8, <1>9, <1>10
<1> QED
  BY <1>5, <1>6, <1>11
-----------------------------------------------------------------------------
(* MapThenSumSet, of the amounts of records. *)

Total(m, S) == MapThenSumSet(LAMBDA x : m[x].amount, S)

LEMMA TotalIs ==
  ASSUME NEW m, NEW S, IsFiniteSet(S), NEW f, \A x \in S : f[x] = m[x].amount,
         NEW g, Sums(f, S, g)
  PROVE  Total(m, S) = g[S]
<1> DEFINE Is(h) == h = [s \in SUBSET S |->
                           IF s = {} THEN 0
                           ELSE LET x == CHOOSE x \in s : TRUE IN m[x].amount + h[s \ {x}]]
           h == CHOOSE h : Is(h)
<1>1. Total(m, S) = h[S]
  BY DEF Total, MapThenSumSet, MapThenFoldSet
<1>2. ASSUME NEW e PROVE Is(e) <=> Sums(f, S, e)
  <2>1. \A s \in SUBSET S : s # {} => f[Pick(s)] = m[CHOOSE x \in s : TRUE].amount
    BY DEF Pick
  <2>2. [s \in SUBSET S |->
           IF s = {} THEN 0
           ELSE LET x == CHOOSE x \in s : TRUE IN m[x].amount + e[s \ {x}]]
        = [s \in SUBSET S |-> IF s = {} THEN 0 ELSE f[Pick(s)] + e[s \ {Pick(s)}]]
    BY <2>1 DEF Pick
  <2> QED
    BY <2>2 DEF Sums
<1>3. Is(h)
  <2>1. Is(g)
    BY <1>2
  <2> HIDE DEF Is
  <2> QED
    BY <2>1
<1>4. Sums(f, S, h)
  <2> HIDE DEF h, Is
  <2> QED
    BY <1>2, <1>3
<1> HIDE DEF h, Is
<1> QED
  BY <1>1, <1>4, SumsAgree

(* Its value: 0 of nothing, any element first, a natural number. *)
LEMMA Totals ==
  ASSUME NEW m, NEW S, IsFiniteSet(S), \A x \in S : m[x].amount \in Nat
  PROVE  /\ Total(m, S) \in Nat
         /\ S = {} => Total(m, S) = 0
         /\ \A x \in S : Total(m, S) = m[x].amount + Total(m, S \ {x})
<1> DEFINE f == [x \in S |-> m[x].amount]
<1>1. PICK g : Sums(f, S, g)
  BY SumsExist
<1>2. \A x \in S : f[x] = m[x].amount /\ f[x] \in Nat
  OBVIOUS
<1> HIDE DEF f
<1>3. Total(m, S) = g[S]
  BY <1>1, <1>2, TotalIs
<1>4. g[S] \in Nat
  BY <1>1, <1>2, SumsType
<1>5. S = {} => g[S] = 0
  BY <1>1 DEF Sums
<1>6. ASSUME NEW x \in S PROVE Total(m, S) = m[x].amount + Total(m, S \ {x})
  <2>1. g[S] = f[x] + g[S \ {x}]
    BY <1>1, <1>2, SumsSplit
  <2>2. PICK h : Sums(f, S \ {x}, h)
    BY FS_Subset, SumsExist
  <2>3. IsFiniteSet(S \ {x}) /\ S \ {x} \in SUBSET S
    BY FS_Subset
  <2>4. Total(m, S \ {x}) = h[S \ {x}]
    BY <1>2, <2>2, <2>3, TotalIs
  <2>5. g[S \ {x}] = h[S \ {x}]
    BY <1>1, <2>2, <2>3, SumsAgree
  <2> QED
    BY <1>2, <1>3, <2>1, <2>4, <2>5
<1> QED
  BY <1>3, <1>4, <1>5, <1>6

(* Only the amounts of the elements matter. *)
LEMMA TotalsAgree ==
  ASSUME NEW m, NEW n, NEW S, IsFiniteSet(S), \A x \in S : m[x].amount = n[x].amount
  PROVE  Total(m, S) = Total(n, S)
<1> DEFINE f == [x \in S |-> m[x].amount]
<1>1. PICK g : Sums(f, S, g)
  BY SumsExist
<1>2. \A x \in S : f[x] = m[x].amount /\ f[x] = n[x].amount
  OBVIOUS
<1> HIDE DEF f
<1> QED
  BY <1>1, <1>2, TotalIs
=============================================================================
