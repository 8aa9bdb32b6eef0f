-------------------------- MODULE InductionProofs ---------------------------
(***************************************************************************)
(* Induction without a theorem that takes an operator: over sets of        *)
(* natural numbers, from the fact that each has a least element.  By it a  *)
(* function that is defined by recursion exists.                           *)
(***************************************************************************)
EXTENDS TLAPS, WellFoundedInduction

(* Every set of natural numbers with an element has a least one.           *)
LEMMA LeastElement ==
  ASSUME NEW T \in SUBSET Nat, T # {}
  PROVE  \E n \in T : \A m \in T : n <= m
  <1> DEFINE R == {ss \in Nat \X Nat : ss[1] < ss[2]}
  <1>1. IsWellFoundedOn(R, Nat)
    BY NatLessThanWellFounded DEF OpToRel
  <1>2. \E n \in T : \A m \in T : <<m, n>> \notin R
    <2> HIDE DEF R
    <2> QED
      BY <1>1, WFMin
  <1>3. PICK n \in T : \A m \in T : <<m, n>> \notin R
    BY <1>2
  <1>4. ASSUME NEW m \in T PROVE n <= m
    <2>1. <<m, n>> \in Nat \X Nat
      OBVIOUS
    <2>2. ~(m < n)
      BY <2>1, <1>3
    <2> QED
      BY <2>2
  <1> QED
    BY <1>4

(* Induction up to n: a set that holds 0, and with each number the next.   *)
LEMMA Upwards ==
  ASSUME NEW n \in Nat, NEW T,
         0 \in T, \A i \in 1..n : i - 1 \in T => i \in T
  PROVE  0..n \subseteq T
  <1> DEFINE Missing == {i \in 0..n : i \notin T}
  <1>1. SUFFICES ASSUME Missing # {} PROVE FALSE
    OBVIOUS
  <1>2. PICK m \in Missing : \A i \in Missing : m <= i
    <2>1. Missing \in SUBSET Nat
      OBVIOUS
    <2> HIDE DEF Missing
    <2> QED
      BY <1>1, <2>1, LeastElement
  <1>3. m \in 1..n /\ m - 1 \in 0..n
    OBVIOUS
  <1>4. m - 1 \in T
    BY <1>2, <1>3
  <1> QED
    BY <1>3, <1>4

Iterates(f, n, a, G) == f[0] = a /\ \A i \in 1..n : f[i] = G[i][f[i - 1]]

(* A function that is defined by its value at 0 and by a step from each    *)
(* value to the next exists.                                               *)
LEMMA Iteration ==
  ASSUME NEW n \in Nat, NEW X, NEW a \in X, NEW G \in [1..n -> [X -> X]]
  PROVE  \E f \in [0..n -> X] : Iterates(f, n, a, G)
  <1> DEFINE Follows(f, k) == f[0] = a /\ \A i \in 1..k : f[i] = G[i][f[i - 1]]
             T == {k \in 0..n : \E f \in [0..k -> X] : Follows(f, k)}
  <1>1. 0 \in T
    <2>1. Follows([i \in 0..0 |-> a], 0)
      OBVIOUS
    <2>2. [i \in 0..0 |-> a] \in [0..0 -> X]
      OBVIOUS
    <2>3. \E f \in [0..0 -> X] : Follows(f, 0)
      <3> HIDE DEF Follows
      <3> QED
        BY <2>1, <2>2
    <2> QED
      BY <2>3
  <1>2. ASSUME NEW k \in 1..n, k - 1 \in T PROVE k \in T
    <2>1. PICK f \in [0..(k - 1) -> X] : Follows(f, k - 1)
      BY <1>2
    <2> DEFINE g == [i \in 0..k |-> IF i = k THEN G[k][f[k - 1]] ELSE f[i]]
    <2>2. f[k - 1] \in X /\ G[k] \in [X -> X]
      OBVIOUS
    <2>3. g \in [0..k -> X]
      BY <2>2
    <2>4. g[0] = a
      BY <2>1
    <2>5. ASSUME NEW i \in 1..k PROVE g[i] = G[i][g[i - 1]]
      <3>1. CASE i = k
        BY <3>1
      <3>2. CASE i # k
        BY <3>2, <2>1
      <3> QED
        BY <3>1, <3>2
    <2>6. Follows(g, k)
      BY <2>4, <2>5
    <2>7. \E h \in [0..k -> X] : Follows(h, k)
      <3> HIDE DEF Follows, g
      <3> QED
        BY <2>3, <2>6
    <2> QED
      <3> HIDE DEF Follows
      <3> QED
        BY <2>7
  <1>3. n \in T
    <2>1. \A k \in 1..n : k - 1 \in T => k \in T
      BY <1>2
    <2> HIDE DEF T
    <2>2. 0..n \subseteq T
      BY <1>1, <2>1, Upwards
    <2> QED
      BY <2>2
  <1> QED
    BY <1>3 DEF Iterates
=============================================================================
