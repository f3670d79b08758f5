--------------------------- MODULE NaturalLemmas ---------------------------
(***************************************************************************)
(* Facts about the natural numbers that several components' proofs need.   *)
(***************************************************************************)
EXTENDS Integers, WellFoundedInduction, TLAPS

\* Every non-empty set of natural numbers has a least element.
LEMMA LeastNat ==
    ASSUME NEW T \in SUBSET Nat, T # {}
    PROVE  \E n \in T : \A m \in T : n <= m
<1>1. PICK x \in T : \A y \in T : ~ (<<y, x>> \in OpToRel(<, Nat))
  BY NatLessThanWellFounded, WFMin, Zenon DEF OpToRel
<1>2. \A y \in T : ~ (y < x)
  BY <1>1 DEF OpToRel
<1> QED BY <1>2

\* Induction, over a set rather than over a formula.
LEMMA SetInduction ==
    ASSUME NEW S, 0 \in S, \A n \in Nat : n \in S => n + 1 \in S
    PROVE  Nat \subseteq S
<1> SUFFICES ASSUME ~ (Nat \subseteq S) PROVE FALSE
  OBVIOUS
<1> DEFINE T == {n \in Nat : n \notin S}
<1>1. T \in SUBSET Nat /\ T # {}
  OBVIOUS
<1>2. PICK n \in T : \A m \in T : n <= m
  BY <1>1, LeastNat
<1>3. n # 0 /\ n - 1 \in Nat /\ n - 1 \notin T
  BY <1>2
<1> QED BY <1>2, <1>3

----------------------------------------------------------------------------
\* Quotient and remainder.
LEMMA DivMod ==
    ASSUME NEW a \in Nat, NEW n \in Nat \ {0}
    PROVE  /\ a \div n \in Nat /\ a % n \in 0..(n - 1)
           /\ a = (n * (a \div n)) + (a % n)
OBVIOUS

\* A quotient and a remainder that fit are the quotient and the remainder.
LEMMA ModUnique ==
    ASSUME NEW n \in Nat \ {0}, NEW q \in Nat, NEW r \in 0..(n - 1)
    PROVE  (n * q + r) % n = r /\ (n * q + r) \div n = q
<1> DEFINE a == n * q + r
           qq == a \div n
           rr == a % n
<1>1. n * q \in Nat /\ a \in Nat
  OBVIOUS
<1>2. qq \in Nat /\ rr \in 0..(n - 1) /\ a = (n * qq) + rr
  BY <1>1, DivMod
<1> HIDE DEF qq, rr
<1>3. ~ (q < qq)
  <2> SUFFICES ASSUME q < qq PROVE FALSE
    OBVIOUS
  <2>1. PICK k \in Nat : qq = q + 1 + k
    BY <1>2
  <2>2. n * qq = n * q + n + n * k /\ n * k >= 0
    BY <2>1
  <2> QED BY <2>2, <1>2
<1>4. ~ (qq < q)
  <2> SUFFICES ASSUME qq < q PROVE FALSE
    OBVIOUS
  <2>1. PICK k \in Nat : q = qq + 1 + k
    BY <1>2
  <2>2. n * q = n * qq + n + n * k /\ n * k >= 0
    BY <2>1, <1>2
  <2> QED BY <2>2, <1>2
<1>5. q = qq
  BY <1>2, <1>3, <1>4
<1> QED BY <1>2, <1>5 DEF qq, rr

\* The remainder of what exceeds the divisor at most once.
LEMMA ModOnce ==
    ASSUME NEW n \in Nat \ {0}, NEW a \in 0..(2 * n - 1)
    PROVE  a % n = IF a < n THEN a ELSE a - n
<1>1. CASE a < n
  <2>1. (n * 0 + a) % n = a
    BY <1>1, ModUnique
  <2>2. n * 0 + a = a
    OBVIOUS
  <2> QED BY <1>1, <2>1, <2>2
<1>2. CASE ~ (a < n)
  <2>1. (n * 1 + (a - n)) % n = a - n
    BY <1>2, ModUnique
  <2>2. n * 1 + (a - n) = a
    OBVIOUS
  <2> QED BY <1>2, <2>1, <2>2
<1> QED BY <1>1, <1>2
=============================================================================
