---------------------------- MODULE NumberLemmas -----------------------------
(***************************************************************************)
(* What the proofs of several components need of the natural numbers:      *)
(* induction over a set and existence of recursive functions (the          *)
(* library's theorems take an operator, which the provers cannot           *)
(* instantiate), quotient and remainder, products.                         *)
(***************************************************************************)
EXTENDS Integers, WellFoundedInduction, TLAPS

\* Induction over the naturals, from their well-foundedness.
LEMMA SetInduction ==
    ASSUME NEW S \in SUBSET Nat, 0 \in S, \A n \in S : n + 1 \in S
    PROVE  S = Nat
<1> DEFINE T == Nat \ S
<1>1. SUFFICES ASSUME T # {} PROVE FALSE
  OBVIOUS
<1> DEFINE R == {ss \in Nat \X Nat : ss[1] < ss[2]}
<1>2. IsWellFoundedOn(R, Nat)
  <2>1. OpToRel(<, Nat) = R
    BY DEF OpToRel
  <2> QED BY <2>1, NatLessThanWellFounded
<1>3. \E x \in T : \A y \in T : <<y, x>> \notin R
  <2> HIDE DEF R
  <2> QED BY <1>1, <1>2, WFMin
<1>4. PICK x \in T : \A y \in T : <<y, x>> \notin R
  BY <1>3
<1>5. x \in Nat /\ x # 0 /\ x - 1 \in Nat
  OBVIOUS
<1>6. x - 1 \in T
  BY <1>5
<1>7. <<x - 1, x>> \in R
  BY <1>5
<1> QED BY <1>4, <1>6, <1>7

LEMMA InductionUpTo ==
    ASSUME NEW n \in Nat, NEW S, 0 \in S, \A i \in 1 .. n : i - 1 \in S => i \in S
    PROVE  \A i \in 0 .. n : i \in S
<1> DEFINE T == {k \in Nat : k <= n => k \in S}
<1>1. T \in SUBSET Nat /\ 0 \in T
  OBVIOUS
<1>2. ASSUME NEW k \in T PROVE k + 1 \in T
  <2>1. SUFFICES ASSUME k + 1 <= n PROVE k + 1 \in S
    OBVIOUS
  <2>2. k + 1 \in 1 .. n /\ (k + 1) - 1 = k /\ k \in S
    BY <2>1
  <2>3. (k + 1) - 1 \in S
    BY <2>2
  <2> HIDE DEF T
  <2> QED BY <2>2, <2>3
<1>3. T = Nat
  <2> HIDE DEF T
  <2> QED BY <1>1, <1>2, SetInduction
<1> QED BY <1>3

\* There is a function on 0 .. n whose value at i comes from the one before by Step[i].
StepsIn(Step, n, V) == Step \in [1 .. n -> [V -> V]]
Follows(f, n, V, c, Step) ==
    f \in [0 .. n -> V] /\ f[0] = c /\ \A i \in 1 .. n : f[i] = Step[i][f[i - 1]]

LEMMA FunctionInto ==
    ASSUME NEW n \in Nat, NEW V, NEW c \in V, NEW Step, StepsIn(Step, n, V)
    PROVE  \E f : Follows(f, n, V, c, Step)
<1> USE DEF StepsIn
<1> DEFINE Upto(f, k) == \A i \in 1 .. k : f[i] = Step[i][f[i - 1]]
           Is(k) == \E f \in [0 .. n -> V] : f[0] = c /\ Upto(f, k)
           S == {k \in 0 .. n : Is(k)}
<1>1. Is(0)
  <2> DEFINE f == [i \in 0 .. n |-> c]
  <2>1. f \in [0 .. n -> V] /\ f[0] = c
    OBVIOUS
  <2>2. Upto(f, 0)
    OBVIOUS
  <2> HIDE DEF f, Upto
  <2> QED BY <2>1, <2>2
<1>2. ASSUME NEW k \in Nat, k + 1 <= n, Is(k) PROVE Is(k + 1)
  <2> HIDE DEF Upto
  <2>2. PICK g \in [0 .. n -> V] : g[0] = c /\ Upto(g, k)
    BY <1>2
  <2> DEFINE v == Step[k + 1][g[k]]
             f == [g EXCEPT ![k + 1] = v]
  <2>3. k \in 0 .. n /\ k + 1 \in 1 .. n /\ k + 1 \in 0 .. n
    BY <1>2
  <2>4. v \in V
    <3>1. Step[k + 1] \in [V -> V] /\ g[k] \in V
      BY <2>3
    <3> QED BY <3>1
  <2>5. f \in [0 .. n -> V] /\ f[k + 1] = v /\ \A i \in 0 .. n : i # k + 1 => f[i] = g[i]
    <3> HIDE DEF v
    <3> QED BY <2>3, <2>4
  <2>8. v = Step[k + 1][g[k]]
    OBVIOUS
  <2> HIDE DEF f, v
  <2>6. f[0] = c /\ f[k] = g[k]
    BY <2>2, <2>3, <2>5
  <2>7. ASSUME NEW i \in 1 .. k + 1 PROVE f[i] = Step[i][f[i - 1]]
    <3>1. CASE i = k + 1
      <4>1. i - 1 = k
        BY <3>1
      <4> QED BY <3>1, <4>1, <2>5, <2>6, <2>8
    <3>2. CASE i # k + 1
      <4>1. i \in 1 .. k /\ i \in 0 .. n /\ i - 1 \in 0 .. n /\ i - 1 # k + 1
        BY <3>2, <1>2
      <4>2. f[i] = g[i] /\ f[i - 1] = g[i - 1]
        BY <4>1, <3>2, <2>5
      <4> QED BY <4>1, <4>2, <2>2 DEF Upto
    <3> QED BY <3>1, <3>2
  <2>9. Upto(f, k + 1)
    BY <2>7 DEF Upto
  <2> QED BY <2>5, <2>6, <2>9
<1>3. Is(n)
  <2> HIDE DEF Is
  <2>1. 0 \in S
    BY <1>1
  <2>2. ASSUME NEW i \in 1 .. n, i - 1 \in S PROVE i \in S
    <3>1. i - 1 \in Nat /\ (i - 1) + 1 = i /\ i <= n /\ Is(i - 1)
      BY <2>2
    <3>2. Is((i - 1) + 1)
      BY <3>1, <1>2
    <3> QED BY <3>1, <3>2
  <2>3. \A i \in 0 .. n : i \in S
    <3> HIDE DEF S
    <3> QED BY <2>1, <2>2, InductionUpTo
  <2> QED BY <2>3
<1> QED BY <1>3 DEF Follows

LEMMA FunctionUpTo ==
    ASSUME NEW n \in Nat, NEW c \in Nat, NEW Step \in [1 .. n -> [Nat -> Nat]]
    PROVE  \E f \in [0 .. n -> Nat] : f[0] = c /\ \A i \in 1 .. n : f[i] = Step[i][f[i - 1]]
<1>1. StepsIn(Step, n, Nat)
  BY DEF StepsIn
<1>2. PICK f : Follows(f, n, Nat, c, Step)
  BY <1>1, FunctionInto
<1> QED BY <1>2 DEF Follows

-----------------------------------------------------------------------------
Positive == Nat \ {0}

LEMMA DivMod ==
    ASSUME NEW a \in Nat, NEW b \in Positive
    PROVE  /\ a \div b \in Nat
           /\ a % b \in 0 .. b - 1
           /\ a = b * (a \div b) + (a % b)
BY DEF Positive

LEMMA DivModUnique ==
    ASSUME NEW q \in Nat, NEW b \in Positive, NEW r \in 0 .. b - 1
    PROVE  /\ (b * q + r) \div b = q
           /\ (b * q + r) % b = r
BY DEF Positive

LEMMA MulMonotone ==
    ASSUME NEW a \in Nat, NEW b \in Nat, NEW c \in Nat
    PROVE  /\ a * c \in Nat
           /\ a <= b => a * c <= b * c
           /\ a < b => a * c + c <= b * c
BY SMT

\* Quotient and remainder of the next number.
LEMMA NextMod ==
    ASSUME NEW a \in Nat, NEW b \in Positive
    PROVE  (a + 1) % b = IF a % b = b - 1 THEN 0 ELSE (a % b) + 1
<1>. DEFINE q == a \div b
            r == a % b
<1>1. q \in Nat /\ r \in 0 .. b - 1 /\ a = b * q + r
  BY DivMod
<1>. HIDE DEF q, r
<1>2. CASE r = b - 1
  <2>1. b * (q + 1) = b * q + b /\ b * q \in Nat
    BY <1>1 DEF Positive
  <2>2. a + 1 = b * (q + 1) + 0
    BY <1>1, <1>2, <2>1 DEF Positive
  <2>3. q + 1 \in Nat /\ 0 \in 0 .. b - 1
    BY <1>1 DEF Positive
  <2>4. (a + 1) % b = 0
    BY <2>2, <2>3, DivModUnique
  <2>. QED  BY <1>2, <2>4 DEF r
<1>3. CASE r # b - 1
  <2>1. b * q \in Nat /\ r + 1 \in 0 .. b - 1
    BY <1>1, <1>3 DEF Positive
  <2>2. a + 1 = b * q + (r + 1)
    BY <1>1, <2>1 DEF Positive
  <2>3. (a + 1) % b = r + 1
    BY <1>1, <2>1, <2>2, DivModUnique
  <2>. QED  BY <1>3, <2>3 DEF r
<1>. QED  BY <1>2, <1>3

LEMMA NextDiv ==
    ASSUME NEW a \in Nat, NEW b \in Positive
    PROVE  (a + 1) \div b = (a \div b) + (IF a % b = b - 1 THEN 1 ELSE 0)
<1>. DEFINE q == a \div b
            r == a % b
<1>1. q \in Nat /\ r \in 0 .. b - 1 /\ a = b * q + r
  BY DivMod
<1>. HIDE DEF q, r
<1>2. CASE r = b - 1
  <2>1. b * (q + 1) = b * q + b /\ b * q \in Nat
    BY <1>1 DEF Positive
  <2>2. a + 1 = b * (q + 1) + 0
    BY <1>1, <1>2, <2>1 DEF Positive
  <2>3. q + 1 \in Nat /\ 0 \in 0 .. b - 1
    BY <1>1 DEF Positive
  <2>4. (a + 1) \div b = q + 1
    BY <2>2, <2>3, DivModUnique
  <2>. QED  BY <1>2, <2>4 DEF q, r
<1>3. CASE r # b - 1
  <2>1. b * q \in Nat /\ r + 1 \in 0 .. b - 1
    BY <1>1, <1>3 DEF Positive
  <2>2. a + 1 = b * q + (r + 1)
    BY <1>1, <2>1 DEF Positive
  <2>3. (a + 1) \div b = q
    BY <1>1, <2>1, <2>2, DivModUnique
  <2>. QED  BY <1>1, <1>3, <2>3 DEF q, r
<1>. QED  BY <1>2, <1>3

LEMMA ZeroDivMod == ASSUME NEW b \in Positive PROVE 0 \div b = 0 /\ 0 % b = 0
BY DivModUnique DEF Positive

==============================================================================
