---------------------------- MODULE LoopTheorems ----------------------------
(***************************************************************************)
(* Induction over the natural numbers in a form a first-order prover can   *)
(* use: the property is a set of numbers, not an operator.  It rests on    *)
(* the library's theorem that a well-founded relation has minimal          *)
(* elements.  A loop of the code is modelled by a function of the number   *)
(* of rounds; these theorems say that there is such a function and what    *)
(* all its values have in common.                                          *)
(***************************************************************************)
EXTENDS Integers, WellFoundedInduction, TLAPS

\* A set of naturals that is not empty has a least element.
LEMMA LeastElement ==
    ASSUME NEW T \in SUBSET Nat, T # {}
    PROVE  \E m \in T : \A k \in T : m <= k
<1> DEFINE R == {ss \in Nat \X Nat : ss[1] < ss[2]}
<1>1. IsWellFoundedOn(R, Nat)
  BY NatLessThanWellFounded DEF OpToRel
<1>2. PICK m \in T : \A k \in T : ~ (<<k, m>> \in R)
  <2> HIDE DEF R
  <2> QED
    BY <1>1, WFMin
<1>3. \A k \in T : ~ (k < m)
  BY <1>2
<1> QED
  BY <1>2, <1>3

\* A set that has 0 and, with a number, the next one, has all of them.
LEMMA InductionOnSet ==
    ASSUME NEW S, 0 \in S, \A n \in Nat : n \in S => n + 1 \in S
    PROVE  Nat \subseteq S
<1> DEFINE T == {n \in Nat : n \notin S}
<1>1. SUFFICES ASSUME T # {} PROVE FALSE
  OBVIOUS
<1>2. PICK m \in T : \A k \in T : m <= k
  <2>1. T \in SUBSET Nat
    OBVIOUS
  <2> HIDE DEF T
  <2> QED
    BY <1>1, <2>1, LeastElement
<1>3. m # 0 /\ m \in Nat /\ m \notin S
  OBVIOUS
<1>4. m - 1 \in Nat /\ m - 1 \in S
  BY <1>2, <1>3
<1> QED
  BY <1>3, <1>4

\* The same up to a bound.
LEMMA InductionUpTo ==
    ASSUME NEW n \in Nat, NEW S, 0 \in S, \A i \in 0 .. n : i < n /\ i \in S => i + 1 \in S
    PROVE  0 .. n \subseteq S
<1> DEFINE T == {i \in Nat : i <= n => i \in S}
<1>1. 0 \in T
  OBVIOUS
<1>2. \A i \in Nat : i \in T => i + 1 \in T
  OBVIOUS
<1>3. Nat \subseteq T
  <2> HIDE DEF T
  <2> QED
    BY <1>1, <1>2, InductionOnSet
<1> QED
  BY <1>3

\* g holds the values x, f[x], f[f[x]], ... of a loop of n rounds over S.
IsLoop(g, S, f, x, n) ==
    /\ g \in [0 .. n -> S]
    /\ g[0] = x
    /\ \A i \in 1 .. n : g[i] = f[g[i - 1]]

\* A loop whose rounds stay in S has its values.
LEMMA LoopExists ==
    ASSUME NEW S, NEW f, \A y \in S : f[y] \in S, NEW x \in S, NEW n \in Nat
    PROVE  \E g : IsLoop(g, S, f, x, n)
<1> DEFINE P == {k \in Nat : \E g : IsLoop(g, S, f, x, k)}
<1>1. 0 \in P
  <2>1. PICK g : g = [i \in 0 .. 0 |-> x]
    OBVIOUS
  <2>2. IsLoop(g, S, f, x, 0)
    BY <2>1 DEF IsLoop
  <2> QED
    BY <2>2
<1>2. ASSUME NEW k \in Nat, k \in P PROVE k + 1 \in P
  <2>1. PICK g : IsLoop(g, S, f, x, k)
    BY <1>2
  <2>2. PICK h : h = [i \in 0 .. k + 1 |-> IF i = k + 1 THEN f[g[k]] ELSE g[i]]
    OBVIOUS
  <2>3. h \in [0 .. k + 1 -> S]
    BY <2>1, <2>2 DEF IsLoop
  <2>4. h[0] = x
    BY <2>1, <2>2 DEF IsLoop
  <2>5. \A i \in 1 .. k + 1 : h[i] = f[h[i - 1]]
    BY <2>1, <2>2 DEF IsLoop
  <2>6. IsLoop(h, S, f, x, k + 1)
    BY <2>3, <2>4, <2>5 DEF IsLoop
  <2> QED
    BY <2>6
<1>3. Nat \subseteq P
  <2> HIDE DEF P
  <2> QED
    BY <1>1, <1>2, InductionOnSet
<1> QED
  BY <1>3
=============================================================================
