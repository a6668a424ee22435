----------------------------- MODULE NatLemmas -----------------------------
(***************************************************************************)
(* Least elements of sets of natural numbers, which stand in for proofs by *)
(* induction.                                                              *)
(***************************************************************************)
EXTENDS Integers, FiniteSets, FiniteSetsExt, WellFoundedInduction, TLAPS

\* A nonempty set of natural numbers has a least element.
LEMMA LeastNat ==
  ASSUME NEW T, T \subseteq Nat, T # {}
  PROVE  \E x \in T : \A y \in T : x <= y
<1>1. PICK x \in T : \A y \in T : ~(<<y, x>> \in OpToRel(<, Nat))
  BY WFMin, NatLessThanWellFounded
<1>2. \A p, y \in Nat : y < p => <<y, p>> \in OpToRel(<, Nat)
  BY DEF OpToRel
<1>3. \A y \in T : ~(y < x)
  BY <1>1, <1>2, Zenon
<1> QED BY <1>3

LEMMA MinMember ==
  ASSUME NEW T, T \subseteq Nat, T # {}
  PROVE  Min(T) \in T
  BY LeastNat DEF Min

LEMMA MinMaxPair ==
  ASSUME NEW i \in Nat, NEW j \in Nat
  PROVE  /\ Min({i, j}) = IF i < j THEN i ELSE j
         /\ Max({i, j}) = IF i < j THEN j ELSE i
  BY DEF Min, Max

\* Two functions that agree wherever they agree on all smaller arguments agree.
LEMMA Agree ==
  ASSUME NEW n \in Nat, NEW f, NEW g,
         \A i \in 0 .. n - 1 : (\A j \in 0 .. i - 1 : f[j] = g[j]) => f[i] = g[i]
  PROVE  \A i \in 0 .. n - 1 : f[i] = g[i]
<1> DEFINE D == {i \in 0 .. n - 1 : f[i] # g[i]}
<1>1. SUFFICES ASSUME D # {} PROVE FALSE
  OBVIOUS
<1> HIDE DEF D
<1>2. PICK x \in D : \A y \in D : x <= y
  <2>1. D \subseteq Nat
    BY DEF D
  <2> QED BY <1>1, <2>1, LeastNat
<1>3. x \in 0 .. n - 1 /\ f[x] # g[x]
  BY DEF D
<1>4. \A j \in 0 .. x - 1 : f[j] = g[j]
  BY <1>2, <1>3 DEF D
<1> QED BY <1>3, <1>4
=============================================================================
