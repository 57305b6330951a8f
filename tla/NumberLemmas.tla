---------------------------- MODULE NumberLemmas ----------------------------
(*****************************************************************************)
(* What the proofs about the components keep needing of the naturals: a set *)
(* of them has a least element, so what holds of zero and is handed on from *)
(* each number to the next holds up to any number; and the partial sums of a*)
(* sequence, which recursive functions of the modules compute, exist and are*)
(* unique.                                                                  *)
(*****************************************************************************)
EXTENDS Integers, Sequences, WellFoundedInduction, TLAPS

\* Every set of naturals that is not empty has a least element: the order of the naturals is
\* well-founded.
LEMMA LeastOf ==
  ASSUME NEW T \in SUBSET Nat, T # {}
  PROVE  \E n \in T : \A m \in T : n <= m
<1> DEFINE R == OpToRel(<, Nat)
<1>1. IsWellFoundedOn(R, Nat)
  BY NatLessThanWellFounded
<1>2. \E x \in T : \A y \in T : ~(<<y, x>> \in R)
  <2> HIDE DEF R
  <2> QED
    BY <1>1, WFMin
<1>3. PICK x \in T : \A y \in T : ~(<<y, x>> \in R)
  BY <1>2
<1>4. \A y \in T : ~(y < x)
  BY <1>3 DEF OpToRel
<1> QED
  BY <1>4

\* Induction up to n: the least number outside T has no predecessor.
LEMMA UpTo ==
  ASSUME NEW n \in Nat, NEW T, 0 \in T, \A k \in 1 .. n : k - 1 \in T => k \in T
  PROVE  \A k \in 0 .. n : k \in T
<1> DEFINE U == {k \in 0 .. n : k \notin T}
<1>1. ASSUME U # {} PROVE FALSE
  <2>1. PICK k \in U : \A m \in U : k <= m
    <3>1. U \in SUBSET Nat
      OBVIOUS
    <3> HIDE DEF U
    <3> QED
      BY <1>1, <3>1, LeastOf
  <2>2. k \in 1 .. n /\ k \notin T
    BY <2>1
  <2>3. k - 1 \in 0 .. n /\ ~(k <= k - 1)
    BY <2>2
  <2>4. k - 1 \in T
    BY <2>1, <2>3
  <2> QED
    BY <2>2, <2>4
<1> QED
  BY <1>1

\* f sums up the first n entries of s, one after the other.
SumsUp(f, s, n) ==
  /\ f \in [0 .. n -> Int] /\ f[0] = 0
  /\ \A i \in 1 .. n : f[i] = f[i - 1] + s[i]

\* There are such sums.
LEMMA SumsExist ==
  ASSUME NEW s \in Seq(Int), NEW n \in Nat, n <= Len(s)
  PROVE  \E f : SumsUp(f, s, n)
<1> DEFINE T == {k \in 0 .. n : \E f : SumsUp(f, s, k)}
<1>1. 0 \in T
  <2>1. SumsUp([i \in 0 .. 0 |-> 0], s, 0)
    BY DEF SumsUp
  <2> QED
    BY <2>1
<1>2. ASSUME NEW k \in 1 .. n, k - 1 \in T PROVE k \in T
  <2>1. k - 1 \in 0 .. n /\ k \in 1 .. n
    BY <1>2
  <2>3. PICK f : SumsUp(f, s, k - 1)
    BY <1>2
  <2>4. f \in [0 .. k - 1 -> Int] /\ f[0] = 0 /\ \A i \in 1 .. k - 1 : f[i] = f[i - 1] + s[i]
    BY <2>3 DEF SumsUp
  <2> DEFINE g == [i \in 0 .. k |-> IF i = k THEN f[k - 1] + s[k] ELSE f[i]]
  <2>5. s[k] \in Int
    BY <2>1
  <2>6. g \in [0 .. k -> Int] /\ g[0] = 0
    BY <2>1, <2>4, <2>5
  <2>7. ASSUME NEW i \in 1 .. k PROVE g[i] = g[i - 1] + s[i]
    <3>1. CASE i = k
      BY <2>1, <3>1
    <3>2. CASE i # k
      <4>1. i \in 1 .. k - 1 /\ i - 1 \in 0 .. k /\ i - 1 # k
        BY <2>1, <3>2
      <4> QED
        BY <2>4, <3>2, <4>1
    <3> QED
      BY <3>1, <3>2
  <2>8. SumsUp(g, s, k)
    BY <2>6, <2>7 DEF SumsUp
  <2> QED
    BY <2>1, <2>8
<1> HIDE DEF T
<1>3. \A k \in 0 .. n : k \in T
  BY <1>1, <1>2, UpTo
<1>4. n \in 0 .. n
  OBVIOUS
<1> QED
  BY <1>3, <1>4 DEF T

\* The equations of a sum.
Starts(f, s, n) == f[0] = 0 /\ \A i \in 1 .. n : f[i] = f[i - 1] + s[i]

\* The equations have one solution.
LEMMA SumsAgree ==
  ASSUME NEW n \in Nat, NEW s, NEW f, NEW g, Starts(f, s, n), Starts(g, s, n)
  PROVE  \A i \in 0 .. n : f[i] = g[i]
<1> DEFINE T == {k \in 0 .. n : f[k] = g[k]}
<1>1. 0 \in T
  BY DEF Starts
<1>2. ASSUME NEW k \in 1 .. n, k - 1 \in T PROVE k \in T
  BY <1>2 DEF Starts
<1>3. \A k \in 0 .. n : k \in T
  <2> HIDE DEF T
  <2> QED
    BY <1>1, <1>2, UpTo
<1> QED
  BY <1>3
=============================================================================
