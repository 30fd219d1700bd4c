---------------------------- MODULE NumberFacts ----------------------------
(***************************************************************************)
(* Facts about numbers that the proofs share.                              *)
(***************************************************************************)
EXTENDS Integers, WellFoundedInduction, TLAPS

\* Induction over the numbers for a set instead of a predicate: what the
\* proofs about recursive functions and about sequences of any length rest on.
\* To show P(n) for every n, take the set of the n with P(n).
\* A set of numbers that has 0, and with each number the next, has them all:
\* else it would lack a least one.
THEOREM NatSetInduction ==
    ASSUME NEW T, 0 \in T, \A n \in T \cap Nat : n + 1 \in T
    PROVE  Nat \subseteq T
<1> DEFINE R == {r \in Nat \X Nat : r[1] < r[2]}
<1>1. IsWellFoundedOn(R, Nat)
  BY NatLessThanWellFounded DEF OpToRel
<1>2. SUFFICES ASSUME Nat \ T # {} PROVE FALSE
  OBVIOUS
<1>3. PICK x \in Nat \ T : \A y \in Nat \ T : ~ (<<y, x>> \in R)
  <2>1. Nat \ T \subseteq Nat
    OBVIOUS
  <2> QED BY <1>1, <1>2, <2>1, WFMin, Zenon
<1>4. x \in Nat /\ x # 0 /\ x - 1 \in Nat /\ x - 1 < x
  BY <1>3
<1>5. <<x - 1, x>> \in R
  BY <1>4
<1>6. x - 1 \in T
  BY <1>3, <1>4, <1>5
<1>7. x - 1 + 1 = x
  BY <1>4
<1>8. x - 1 + 1 \in T
  BY <1>4, <1>6, Zenon
<1> QED BY <1>3, <1>7, <1>8

\* Quotient and remainder.
LEMMA Quotient == ASSUME NEW d \in Nat, d > 0, NEW n \in Int PROVE n = d * (n \div d) + (n % d)
BY Z3

LEMMA Remainder == ASSUME NEW d \in Nat, d > 0, NEW n \in Int
                   PROVE  n \div d \in Int /\ n % d \in 0 .. d - 1
OBVIOUS

\* The remainder of the next number is the next one, unless it is 0.
LEMMA SameQuotient ==
    \A d \in Nat, q \in Int, p \in Int : \A r, s \in 0 .. d - 1 :
        d * q + r = d * p + s + 1 /\ r # 0 => r = s + 1
<1> SUFFICES ASSUME NEW d \in Nat, NEW q \in Int, NEW p \in Int,
                    NEW r \in 0 .. d - 1, NEW s \in 0 .. d - 1,
                    d * q + r = d * p + s + 1, r # 0
             PROVE  r = s + 1
  OBVIOUS
<1>1. CASE p = q
  BY <1>1
<1>2. CASE p < q
  <2>1. d * (q - p) >= d
    BY <1>2
  <2>2. d * q - d * p = d * (q - p)
    OBVIOUS
  <2> QED BY <2>1, <2>2
<1>3. CASE p > q
  <2>1. d * (p - q) >= d
    BY <1>3
  <2>2. d * p - d * q = d * (p - q)
    OBVIOUS
  <2> QED BY <2>1, <2>2
<1> QED BY <1>1, <1>2, <1>3
=============================================================================
