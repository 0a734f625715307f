----------------------------- MODULE NatLemmas -----------------------------
(***************************************************************************)
(* Facts about natural numbers that the proofs about several components    *)
(* need: the modules search arrays for the first entry of some kind, with  *)
(* CHOOSE, and such an entry exists as soon as there is any.               *)
(***************************************************************************)
EXTENDS Integers, WellFoundedInduction, TLAPS

\* A set of natural numbers that is not empty has a least element: what every
\* search of an array from its start relies on (dir_add, mem_set_value,
\* find_free_frame, get_victim).
LEMMA LeastExists ==
  ASSUME NEW S, S \subseteq Nat, S # {}
  PROVE  \E i \in S : \A j \in S : i <= j
<1> DEFINE Less == {p \in Nat \X Nat : p[1] < p[2]}
<1>1. IsWellFoundedOn(Less, Nat)
  BY NatLessThanWellFounded, Zenon DEF OpToRel
<1>2. PICK i \in S : \A j \in S : <<j, i>> \notin Less
  BY <1>1, WFMin
<1>3. ASSUME NEW j \in S
      PROVE  i <= j
  <2>1. \A p \in Nat \X Nat : p[1] < p[2] => p \in Less
    OBVIOUS
  <2>2. <<j, i>> \in Nat \X Nat /\ <<j, i>>[1] = j /\ <<j, i>>[2] = i
    OBVIOUS
  <2> HIDE DEF Less
  <2>3. ~(j < i)
    BY <1>2, <2>1, <2>2
  <2> QED
    BY <2>3
<1> QED
  BY <1>3

\* Induction over a set: one that contains 0 and the successor of each of its
\* elements contains every natural number.
LEMMA SetInduction ==
  ASSUME NEW S, 0 \in S, \A n \in Nat : n \in S => n + 1 \in S
  PROVE  Nat \subseteq S
<1> SUFFICES ASSUME Nat \ S # {}
             PROVE  FALSE
  OBVIOUS
<1>1. PICK m \in Nat \ S : \A j \in Nat \ S : m <= j
  BY LeastExists
<1>2. m - 1 \in Nat /\ m - 1 \notin Nat \ S
  BY <1>1
<1> QED
  BY <1>1, <1>2

-----------------------------------------------------------------------------
(* Sectors and offsets.  Z3 needs these facts about multiplication and      *)
(* division by a size that is not a number.                                 *)

\* Quotient and remainder.
LEMMA DivMod ==
  ASSUME NEW b \in Nat \ {0}, NEW a \in Nat
  PROVE  /\ a \div b \in Nat /\ a % b \in 0 .. b - 1
         /\ a = b * (a \div b) + (a % b)
  OBVIOUS

\* Later sectors begin at least a sector later.
LEMMA NextMultiple ==
  ASSUME NEW b \in Nat \ {0}, NEW x \in Nat, NEW y \in Nat, x < y
  PROVE  b * x + b <= b * y
  OBVIOUS

\* A number is in one sector, at one offset.
LEMMA DivModUnique ==
  ASSUME NEW b \in Nat \ {0}, NEW q \in Nat, NEW r \in 0 .. b - 1, NEW a, a = b * q + r
  PROVE  a \in Nat /\ a \div b = q /\ a % b = r
<1>1. a \in Nat
  OBVIOUS
<1>2. /\ a \div b \in Nat /\ a % b \in 0 .. b - 1
      /\ a = b * (a \div b) + (a % b)
  BY <1>1, DivMod
<1>3. ~(q < a \div b)
  BY <1>2, NextMultiple
<1>4. ~(a \div b < q)
  BY <1>2, NextMultiple
<1> QED
  BY <1>1, <1>2, <1>3, <1>4

\* Rounding up to whole sectors.
LEMMA RoundUp ==
  ASSUME NEW b \in Nat \ {0}, NEW a \in Nat
  PROVE  /\ (a + b - 1) \div b \in Nat
         /\ a <= b * ((a + b - 1) \div b)
<1>1. a + b - 1 \in Nat
  OBVIOUS
<1> DEFINE c == a + b - 1
<1> HIDE DEF c
<1>2. /\ c \div b \in Nat /\ c % b \in 0 .. b - 1
      /\ c = b * (c \div b) + (c % b)
  BY <1>1, DivMod DEF c
<1>3. a <= b * (c \div b)
  <2> DEFINE m == b * (c \div b)
  <2>1. m \in Nat /\ c = m + (c % b)
    BY <1>2
  <2> HIDE DEF m
  <2>2. a <= m
    BY <1>2, <2>1 DEF c
  <2> QED
    BY <2>2 DEF m
<1> QED
  BY <1>2, <1>3 DEF c
=============================================================================
