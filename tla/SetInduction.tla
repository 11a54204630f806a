----------------------------- MODULE SetInduction ---------------------------
(***************************************************************************)
(* Induction over the natural numbers, and over the length of a sequence,  *)
(* stated of sets rather than of predicates: what is proved of a recursive *)
(* function is proved of the set of the arguments it holds for.            *)
(***************************************************************************)
EXTENDS Integers, WellFoundedInduction, TLAPS

LEMMA LeastElement ==
  ASSUME NEW B, B \subseteq Nat, B # {}
  PROVE  \E m \in B : \A n \in B : m <= n
<1> DEFINE R == OpToRel(<, Nat)
<1>1. \A x, y \in Nat : x < y => <<x, y>> \in R
  BY DEF OpToRel
<1>2. IsWellFoundedOn(R, Nat)
  BY NatLessThanWellFounded
<1> HIDE DEF R
<1>3. PICK x \in B : \A y \in B : ~ (<<y, x>> \in R)
  BY <1>2, WFMin
<1>4. \A y \in B : ~ (y < x)
  BY <1>1, <1>3
<1>5. QED
  BY <1>4

\* A set that has 0, and with a number the next, has every number.
LEMMA NatSetInduction ==
  ASSUME NEW S, 0 \in S, \A n \in Nat : n \in S => n + 1 \in S
  PROVE  \A n \in Nat : n \in S
<1> SUFFICES ASSUME Nat \ S # {} PROVE FALSE
  OBVIOUS
<1>1. PICK m \in Nat \ S : \A n \in Nat \ S : m <= n
  BY LeastElement
<1>2. m # 0 /\ m - 1 \in Nat /\ m - 1 \in S
  BY <1>1
<1>3. QED
  BY <1>2

\* The same up to a bound.
LEMMA BoundedInduction ==
  ASSUME NEW n \in Nat, NEW S, 0 \in S, \A i \in 0 .. n - 1 : i \in S => i + 1 \in S
  PROVE  \A i \in 0 .. n : i \in S
<1> DEFINE T == {i \in Nat : i <= n => i \in S}
<1>1. 0 \in T
  OBVIOUS
<1>2. \A i \in Nat : i \in T => i + 1 \in T
  OBVIOUS
<1> HIDE DEF T
<1>3. \A i \in Nat : i \in T
  BY <1>1, <1>2, NatSetInduction
<1>4. QED
  BY <1>3 DEF T

\* A set that has each number whose predecessors it has, has every number.
LEMMA StrongInduction ==
  ASSUME NEW S, \A n \in Nat : (\A m \in 0 .. n - 1 : m \in S) => n \in S
  PROVE  \A n \in Nat : n \in S
<1> SUFFICES ASSUME Nat \ S # {} PROVE FALSE
  OBVIOUS
<1>1. PICK m \in Nat \ S : \A n \in Nat \ S : m <= n
  BY LeastElement
<1>2. \A k \in 0 .. m - 1 : k \in S
  BY <1>1
<1>3. QED
  BY <1>2

\* A function on 0 .. n defined by recursion: base first, then step by step.
Chain(chain, n, V, base, step) ==
    /\ chain \in [0 .. n -> V]
    /\ chain[0] = base
    /\ \A i \in 1 .. n : chain[i] = step[<<i, chain[i - 1]>>]

LEMMA ChainExists ==
  ASSUME NEW n \in Nat, NEW V, NEW base \in V, NEW step \in [(1 .. n) \X V -> V]
  PROVE  \E chain : Chain(chain, n, V, base, step)
<1> DEFINE IsChain(chain, m) ==
             /\ chain \in [0 .. m -> V]
             /\ chain[0] = base
             /\ \A i \in 1 .. m : chain[i] = step[<<i, chain[i - 1]>>]
           S == {m \in Nat : \E chain : IsChain(chain, m)}
<1>1. 0 \in S
  <2>1. IsChain([i \in 0 .. 0 |-> base], 0)
    OBVIOUS
  <2> HIDE DEF IsChain
  <2>2. QED
    BY <2>1
<1>2. ASSUME NEW m \in 0 .. n - 1, m \in S PROVE m + 1 \in S
  <2>1. PICK chain : IsChain(chain, m)
    BY <1>2
  <2> DEFINE next == step[<<m + 1, chain[m]>>]
             longer == [i \in 0 .. m + 1 |-> IF i = m + 1 THEN next ELSE chain[i]]
  <2>2. next \in V
    BY <2>1
  <2>3. longer[m + 1] = next /\ \A i \in 0 .. m : longer[i] = chain[i]
    OBVIOUS
  <2>4. longer \in [0 .. m + 1 -> V]
    BY <2>1, <2>2
  <2> HIDE DEF longer
  <2>5. longer[0] = base
    BY <2>1, <2>3
  <2>6. \A i \in 1 .. m : longer[i] = step[<<i, longer[i - 1]>>]
    BY <2>1, <2>3
  <2>7. longer[m + 1] = step[<<m + 1, longer[(m + 1) - 1]>>]
    BY <2>3
  <2> HIDE DEF next
  <2>8. IsChain(longer, m + 1)
    <3>1. ASSUME NEW i \in 1 .. m + 1
          PROVE  longer[i] = step[<<i, longer[i - 1]>>]
      <4>1. i = m + 1 \/ i \in 1 .. m
        OBVIOUS
      <4>2. QED
        BY <2>6, <2>7, <4>1
    <3>2. QED
      BY <2>4, <2>5, <3>1
  <2> HIDE DEF IsChain
  <2>9. QED
    BY <2>8
<1> HIDE DEF S
<1>3. n \in S
  BY <1>1, <1>2, BoundedInduction
<1>4. QED
  BY <1>3 DEF S, Chain

=============================================================================
