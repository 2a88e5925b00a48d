-------------------------- MODULE KernelPipes_proofs --------------------------
(***************************************************************************)
(* Proofs about the kernels on the pipes of a vector core, for any jobs,   *)
(* sizes and one or two cores: no event is set again before it was waited  *)
(* for, and the last instruction leaves the events as the first found them.*)
(*                                                                         *)
(* Events go around in rings: of the two events of a ring, set by turns as *)
(* a buffer passes from one pipe to another and back, at most one is there *)
(* at a time.  An instruction still queued takes some of them and gives    *)
(* some; Net says how many, Left how many a pipe takes from a place of its *)
(* queue on.  What is set now and what the pipes have left to take stays   *)
(* the same whichever pipe runs next, so the invariant (Paired) bounds, for*)
(* each pipe by itself, what its queue takes from any place on: a bound a  *)
(* list of instructions can be checked for when a call issues it (Good).   *)
(***************************************************************************)
EXTENDS KernelPipes, FiniteSetTheorems, SequenceTheorems, NumberLemmas

-----------------------------------------------------------------------------
(* Lists of instructions, and what they take and give.                     *)
IsSeq(s) == \E X : s \in Seq(X)

\* What an instruction of pipe p takes of an event, and what it gives.
Net(i, p, e) ==
    IF i.pipe # p THEN 0 ELSE (IF e \in i.waits THEN 1 ELSE 0) - (IF e \in i.sets THEN 1 ELSE 0)

\* What the first k instructions of a list take.
Taken(s, p, e) ==
    LET taken[k \in 0 .. Len(s)] == IF k = 0 THEN 0 ELSE taken[k - 1] + Net(s[k], p, e)
    IN  taken
Total(s, p, e) == Taken(s, p, e)[Len(s)]
Left(s, p, e, k) == Total(s, p, e) - Taken(s, p, e)[k]

\* From no place on does a list take more than n of the two events of a ring.
Below(s, p, a, b, n) == \A k \in 0 .. Len(s) : Left(s, p, a, k) + Left(s, p, b, k) <= n

TakenIs(s, p, e) ==
    /\ Taken(s, p, e) \in [0 .. Len(s) -> Int]
    /\ Taken(s, p, e)[0] = 0
    /\ \A k \in 1 .. Len(s) : Taken(s, p, e)[k] = Taken(s, p, e)[k - 1] + Net(s[k], p, e)

LEMMA NetType == ASSUME NEW i, NEW p, NEW e PROVE Net(i, p, e) \in -1 .. 1
BY DEF Net

LEMMA SeqFacts == ASSUME NEW s, IsSeq(s) PROVE Len(s) \in Nat /\ DOMAIN s = 1 .. Len(s)
BY DEF IsSeq

LEMMA TakenDefined == ASSUME NEW s, NEW p, NEW e, IsSeq(s) PROVE TakenIs(s, p, e)
<1> DEFINE n == Len(s)
           Step == [i \in 1 .. n |-> [v \in Int |-> v + Net(s[i], p, e)]]
           Is(f) == f = [k \in 0 .. n |-> IF k = 0 THEN 0 ELSE f[k - 1] + Net(s[k], p, e)]
<1>1. n \in Nat
  BY SeqFacts
<1>2. StepsIn(Step, n, Int)
  BY NetType DEF StepsIn
<1>3. PICK f \in [0 .. n -> Int] : f[0] = 0 /\ \A i \in 1 .. n : f[i] = Step[i][f[i - 1]]
  <2>1. PICK f : Follows(f, n, Int, 0, Step)
    <3> HIDE DEF Step, n
    <3> QED BY <1>1, <1>2, FunctionInto
  <2> QED BY <2>1 DEF Follows
<1>4. \A i \in 1 .. n : f[i] = f[i - 1] + Net(s[i], p, e)
  <2> TAKE i \in 1 .. n
  <2>1. i - 1 \in 0 .. n
    BY <1>1
  <2>2. f[i - 1] \in Int
    BY <2>1
  <2> QED BY <1>3, <2>2
<1>5. Is(f)
  <2> HIDE DEF Step, n
  <2>1. \A k \in 0 .. n : f[k] = IF k = 0 THEN 0 ELSE f[k - 1] + Net(s[k], p, e)
    BY <1>1, <1>3, <1>4
  <2> QED BY <2>1
<1>6. Taken(s, p, e) = CHOOSE g : Is(g)
  BY DEF Taken
<1>7. Is(Taken(s, p, e))
  <2> HIDE DEF Is
  <2> QED BY <1>5, <1>6
<1> DEFINE g == Taken(s, p, e)
<1>8. /\ DOMAIN g = 0 .. n /\ g[0] = 0
      /\ \A k \in 1 .. n : g[k] = g[k - 1] + Net(s[k], p, e)
      /\ g = [k \in 0 .. n |-> g[k]]
  <2>1. DOMAIN g = 0 .. n /\ \A k \in 0 .. n : g[k] = IF k = 0 THEN 0 ELSE g[k - 1] + Net(s[k], p, e)
    <3> HIDE DEF g, n
    <3>1. g = [k \in 0 .. n |-> IF k = 0 THEN 0 ELSE g[k - 1] + Net(s[k], p, e)]
      BY <1>7 DEF g
    <3> DEFINE h == [k \in 0 .. n |-> IF k = 0 THEN 0 ELSE g[k - 1] + Net(s[k], p, e)]
    <3>2. DOMAIN h = 0 .. n /\ \A k \in 0 .. n : h[k] = IF k = 0 THEN 0 ELSE g[k - 1] + Net(s[k], p, e)
      OBVIOUS
    <3> HIDE DEF h
    <3>3. g = h
      BY <3>1 DEF h
    <3> QED BY <3>2, <3>3
  <2>2. g = [k \in 0 .. n |-> g[k]]
    <3> DEFINE h == [k \in 0 .. n |-> IF k = 0 THEN 0 ELSE g[k - 1] + Net(s[k], p, e)]
    <3>1. h = [k \in 0 .. n |-> h[k]]
      OBVIOUS
    <3> HIDE DEF h, g, n
    <3>2. g = h
      BY <1>7 DEF h, g
    <3> QED BY <3>1, <3>2
  <2> HIDE DEF g, n
  <2>3. g[0] = 0 /\ \A k \in 1 .. n : g[k] = g[k - 1] + Net(s[k], p, e)
    BY <1>1, <2>1
  <2> QED BY <2>1, <2>2, <2>3
<1>9. \A k \in 0 .. n : k \in {j \in 0 .. n : g[j] \in Int}
  <2>1. 0 \in {j \in 0 .. n : g[j] \in Int}
    BY <1>1, <1>8
  <2>2. ASSUME NEW i \in 1 .. n, i - 1 \in {j \in 0 .. n : g[j] \in Int}
        PROVE  i \in {j \in 0 .. n : g[j] \in Int}
    <3> HIDE DEF g, n
    <3>1. i \in 0 .. n /\ g[i - 1] \in Int
      BY ONLY <1>1, <2>2
    <3>2. g[i] = g[i - 1] + Net(s[i], p, e)
      BY ONLY <1>8, <2>2
    <3>3. Net(s[i], p, e) \in Int
      BY NetType
    <3>4. g[i] \in Int
      BY ONLY <3>1, <3>2, <3>3
    <3> QED BY ONLY <3>1, <3>4
  <2> HIDE DEF g, n
  <2> QED BY <1>1, <2>1, <2>2, InductionUpTo
<1> HIDE DEF g
<1>10. g \in [0 .. n -> Int]
  BY <1>8, <1>9
<1> QED BY <1>8, <1>10 DEF TakenIs, g

-----------------------------------------------------------------------------
(* What a list takes, from any place on.                                   *)

LEMMA TakenType ==
    ASSUME NEW s, NEW p, NEW e, IsSeq(s)
    PROVE  Len(s) \in Nat /\ Total(s, p, e) \in Int /\ \A k \in 0 .. Len(s) : Taken(s, p, e)[k] \in Int
<1>1. Len(s) \in Nat /\ TakenIs(s, p, e)
  BY SeqFacts, TakenDefined
<1> QED BY <1>1 DEF TakenIs, Total

LEMMA CatSeq ==
    ASSUME NEW a, NEW b, IsSeq(a), IsSeq(b)
    PROVE  /\ IsSeq(a \o b) /\ Len(a \o b) = Len(a) + Len(b)
           /\ \A i \in 1 .. Len(a) : (a \o b)[i] = a[i]
           /\ \A i \in 1 .. Len(b) : (a \o b)[Len(a) + i] = b[i]
<1>1. PICK X : a \in Seq(X)
  BY DEF IsSeq
<1>2. PICK Y : b \in Seq(Y)
  BY DEF IsSeq
<1>3. a \in Seq(X \cup Y) /\ b \in Seq(X \cup Y)
  BY <1>1, <1>2, SeqMonotonic
<1> DEFINE Z == X \cup Y
<1> HIDE DEF Z
<1>4. a \in Seq(Z) /\ b \in Seq(Z)
  BY <1>3 DEF Z
<1>5. a \o b \in Seq(Z)
  BY <1>4
<1> QED BY <1>4, <1>5 DEF IsSeq

LEMMA TakenCat ==
    ASSUME NEW a, NEW b, NEW p, NEW e, IsSeq(a), IsSeq(b)
    PROVE  /\ \A k \in 0 .. Len(a) : Taken(a \o b, p, e)[k] = Taken(a, p, e)[k]
           /\ \A k \in 0 .. Len(b) : Taken(a \o b, p, e)[Len(a) + k] = Total(a, p, e) + Taken(b, p, e)[k]
<1> DEFINE ab == a \o b  m == Len(a)  n == Len(b)
           f == Taken(ab, p, e)  g == Taken(a, p, e)  h == Taken(b, p, e)
<1>1. /\ m \in Nat /\ n \in Nat /\ Len(ab) = m + n
      /\ \A i \in 1 .. m : ab[i] = a[i]
      /\ \A i \in 1 .. n : ab[m + i] = b[i]
  BY SeqFacts, CatSeq
<1>2. /\ f \in [0 .. m + n -> Int] /\ f[0] = 0
      /\ \A k \in 1 .. m + n : f[k] = f[k - 1] + Net(ab[k], p, e)
  <2>1. TakenIs(ab, p, e)
    BY CatSeq, TakenDefined
  <2> QED BY <1>1, <2>1 DEF TakenIs
<1>3. g \in [0 .. m -> Int] /\ g[0] = 0 /\ \A k \in 1 .. m : g[k] = g[k - 1] + Net(a[k], p, e)
  BY TakenDefined DEF TakenIs
<1>4. h \in [0 .. n -> Int] /\ h[0] = 0 /\ \A k \in 1 .. n : h[k] = h[k - 1] + Net(b[k], p, e)
  BY TakenDefined DEF TakenIs
<1>5. Total(a, p, e) = g[m]
  BY DEF Total
<1> HIDE DEF ab, m, n, f, g, h
<1>6. \A k \in 0 .. m : f[k] = g[k]
  <2> DEFINE S == {k \in 0 .. m : f[k] = g[k]}
  <2>1. 0 \in S
    BY <1>1, <1>2, <1>3
  <2>2. ASSUME NEW i \in 1 .. m, i - 1 \in S PROVE i \in S
    <3>1. i \in 1 .. m + n /\ f[i - 1] = g[i - 1]
      BY <1>1, <2>2
    <3>2. f[i] = f[i - 1] + Net(ab[i], p, e) /\ ab[i] = a[i] /\ g[i] = g[i - 1] + Net(a[i], p, e)
      BY <1>1, <1>2, <1>3, <3>1
    <3> QED BY <3>1, <3>2
  <2>3. \A k \in 0 .. m : k \in S
    <3> HIDE DEF S
    <3> QED BY <1>1, <2>1, <2>2, InductionUpTo
  <2> QED BY <2>3
<1>7. \A k \in 0 .. n : f[m + k] = g[m] + h[k]
  <2> DEFINE S == {k \in 0 .. n : f[m + k] = g[m] + h[k]}
  <2>0. g[m] \in Int /\ m + 0 = m /\ f[m] = g[m]
    BY <1>1, <1>3, <1>6
  <2>1. 0 \in S
    BY <1>1, <1>4, <2>0
  <2>2. ASSUME NEW i \in 1 .. n, i - 1 \in S PROVE i \in S
    <3>1. m + i \in 1 .. m + n /\ f[m + (i - 1)] = g[m] + h[i - 1] /\ (m + i) - 1 = m + (i - 1)
      BY <1>1, <2>2
    <3>2. f[m + i] = f[(m + i) - 1] + Net(ab[m + i], p, e) /\ ab[m + i] = b[i]
          /\ h[i] = h[i - 1] + Net(b[i], p, e)
      BY <1>1, <1>2, <1>4, <3>1
    <3>3. h[i - 1] \in Int /\ Net(b[i], p, e) \in Int /\ i \in 0 .. n
      BY <1>1, <1>4, NetType
    <3>4. f[m + i] = (g[m] + h[i - 1]) + Net(b[i], p, e)
      BY <3>1, <3>2
    <3>5. f[m + i] = g[m] + h[i]
      BY <2>0, <3>2, <3>3, <3>4
    <3> QED BY <3>3, <3>5
  <2>3. \A k \in 0 .. n : k \in S
    <3> HIDE DEF S
    <3> QED BY <1>1, <2>1, <2>2, InductionUpTo
  <2> QED BY <2>3
<1> QED BY <1>5, <1>6, <1>7 DEF ab, m, n, f, g, h

\* Two lists take together what each takes.
LEMMA TotalCat ==
    ASSUME NEW a, NEW b, NEW p, NEW e, IsSeq(a), IsSeq(b)
    PROVE  Total(a \o b, p, e) = Total(a, p, e) + Total(b, p, e)
<1>1. Len(b) \in Nat /\ Len(a \o b) = Len(a) + Len(b)
  BY SeqFacts, CatSeq
<1>2. Taken(a \o b, p, e)[Len(a) + Len(b)] = Total(a, p, e) + Taken(b, p, e)[Len(b)]
  BY <1>1, TakenCat
<1> QED BY <1>1, <1>2 DEF Total

LEMMA BelowCat ==
    ASSUME NEW s, NEW t, NEW p, NEW a, NEW b, NEW m \in Int, NEW n \in Int, IsSeq(s), IsSeq(t),
           Below(s, p, a, b, m), Below(t, p, a, b, n), m + Total(t, p, a) + Total(t, p, b) <= n
    PROVE  Below(s \o t, p, a, b, n)
<1>1. Len(s) \in Nat /\ Len(t) \in Nat /\ Len(s \o t) = Len(s) + Len(t)
  BY SeqFacts, CatSeq
<1>2. \A e : Total(s \o t, p, e) = Total(s, p, e) + Total(t, p, e)
  BY TotalCat
<1>3. \A e : Total(s, p, e) \in Int /\ Total(t, p, e) \in Int
  BY TakenType
<1> SUFFICES ASSUME NEW k \in 0 .. Len(s) + Len(t)
             PROVE  Left(s \o t, p, a, k) + Left(s \o t, p, b, k) <= n
  BY <1>1 DEF Below
<1>4. CASE k <= Len(s)
  <2>1. k \in 0 .. Len(s)
    BY <1>1, <1>4
  <2>2. \A e : Taken(s \o t, p, e)[k] = Taken(s, p, e)[k] /\ Taken(s, p, e)[k] \in Int
    BY <2>1, TakenCat, TakenType
  <2>3. Left(s, p, a, k) + Left(s, p, b, k) <= m
    BY <2>1 DEF Below
  <2>4. \A e : Left(s \o t, p, e, k) = Left(s, p, e, k) + Total(t, p, e) /\ Left(s, p, e, k) \in Int
    <3> TAKE e
    <3>1. Total(s \o t, p, e) = Total(s, p, e) + Total(t, p, e) /\ Total(s, p, e) \in Int /\ Total(t, p, e) \in Int
      BY ONLY <1>2, <1>3
    <3>2. Taken(s \o t, p, e)[k] = Taken(s, p, e)[k] /\ Taken(s, p, e)[k] \in Int
      BY ONLY <2>2
    <3> QED BY ONLY <3>1, <3>2 DEF Left
  <2> QED BY <2>3, <2>4, <1>3
<1>5. CASE k > Len(s)
  <2> DEFINE j == k - Len(s)
  <2>1. j \in 0 .. Len(t) /\ k = Len(s) + j
    BY <1>1, <1>5
  <2> HIDE DEF j
  <2>2. \A e : Taken(s \o t, p, e)[k] = Total(s, p, e) + Taken(t, p, e)[j] /\ Taken(t, p, e)[j] \in Int
    BY <2>1, TakenCat, TakenType
  <2>3. Left(t, p, a, j) + Left(t, p, b, j) <= n
    BY <2>1 DEF Below
  <2>4. \A e : Left(s \o t, p, e, k) = Left(t, p, e, j) /\ Left(t, p, e, j) \in Int
    <3> TAKE e
    <3>1. Total(s \o t, p, e) = Total(s, p, e) + Total(t, p, e) /\ Total(s, p, e) \in Int /\ Total(t, p, e) \in Int
      BY ONLY <1>2, <1>3
    <3>2. Taken(s \o t, p, e)[k] = Total(s, p, e) + Taken(t, p, e)[j] /\ Taken(t, p, e)[j] \in Int
      BY ONLY <2>2
    <3> QED BY ONLY <3>1, <3>2 DEF Left
  <2> QED BY <2>3, <2>4
<1> QED BY <1>1, <1>4, <1>5

-----------------------------------------------------------------------------
(* What a list takes of a ring.                                            *)

Pair(s, p, a, b) == Total(s, p, a) + Total(s, p, b)

\* From no place on does a list take more than m of the two events, as a whole at most t.
Fits(s, p, a, b, m, t) == IsSeq(s) /\ Below(s, p, a, b, m) /\ Pair(s, p, a, b) <= t

\* What a list takes of an event on all pipes.
Flow(s, e) == Total(s, "MTE2", e) + Total(s, "V", e) + Total(s, "MTE3", e)

LEMMA FitsCat ==
    ASSUME NEW s, NEW t, NEW p, NEW a, NEW b, NEW m \in Int, NEW n \in Int, NEW x \in Int, NEW y \in Int,
           Fits(s, p, a, b, m, x), Fits(t, p, a, b, n, y), m + y <= n
    PROVE  Fits(s \o t, p, a, b, n, x + y)
<1>1. /\ IsSeq(s) /\ IsSeq(t) /\ IsSeq(s \o t)
      /\ Below(s, p, a, b, m) /\ Below(t, p, a, b, n)
      /\ Pair(s, p, a, b) <= x /\ Pair(t, p, a, b) <= y
  BY CatSeq DEF Fits
<1>2. /\ Total(s, p, a) \in Int /\ Total(t, p, a) \in Int
      /\ Total(s, p, b) \in Int /\ Total(t, p, b) \in Int
  BY <1>1, TakenType
<1>3. Total(t, p, a) + Total(t, p, b) <= y
  BY <1>1 DEF Pair
<1>4. m + Total(t, p, a) + Total(t, p, b) <= n
  BY <1>2, <1>3
<1>5. Below(s \o t, p, a, b, n)
  BY <1>1, <1>4, BelowCat
<1>6. Pair(s \o t, p, a, b) <= x + y
  BY <1>1, <1>2, TotalCat DEF Pair
<1> QED BY <1>1, <1>5, <1>6 DEF Fits

LEMMA FitsMore ==
    ASSUME NEW s, NEW p, NEW a, NEW b, NEW m \in Int, NEW n \in Int, NEW x \in Int, NEW y \in Int,
           Fits(s, p, a, b, m, x), m <= n, x <= y
    PROVE  Fits(s, p, a, b, n, y)
<1>1. IsSeq(s) /\ Below(s, p, a, b, m) /\ Pair(s, p, a, b) <= x
  BY DEF Fits
<1>2. Pair(s, p, a, b) \in Int
  BY <1>1, TakenType DEF Pair
<1>3. \A k \in 0 .. Len(s) : Left(s, p, a, k) + Left(s, p, b, k) \in Int
  BY <1>1, TakenType DEF Left
<1>4. Below(s, p, a, b, n)
  BY <1>1, <1>3 DEF Below
<1> QED BY <1>1, <1>2, <1>4 DEF Fits

LEMMA FlowCat ==
    ASSUME NEW s, NEW t, NEW e, IsSeq(s), IsSeq(t)
    PROVE  Flow(s \o t, e) = Flow(s, e) + Flow(t, e)
<1>1. \A p : Total(s, p, e) \in Int /\ Total(t, p, e) \in Int
             /\ Total(s \o t, p, e) = Total(s, p, e) + Total(t, p, e)
  BY TakenType, TotalCat
<1> QED BY <1>1 DEF Flow

LEMMA FlowType == ASSUME NEW s, NEW e, IsSeq(s) PROVE Flow(s, e) \in Int
BY TakenType DEF Flow

\* A list in which one instruction at most touches an event.
LEMMA Jump ==
    ASSUME NEW s, NEW p, NEW e, IsSeq(s), NEW j \in 1 .. Len(s),
           \A i \in 1 .. Len(s) : i # j => Net(s[i], p, e) = 0
    PROVE  \A k \in 0 .. Len(s) : Taken(s, p, e)[k] = IF k < j THEN 0 ELSE Net(s[j], p, e)
<1> DEFINE n == Len(s)  f == Taken(s, p, e)  v == Net(s[j], p, e)
           S == {k \in 0 .. n : f[k] = IF k < j THEN 0 ELSE v}
<1>1. /\ n \in Nat /\ f[0] = 0 /\ \A k \in 1 .. n : f[k] = f[k - 1] + Net(s[k], p, e)
      /\ v \in Int
  BY SeqFacts, TakenDefined, NetType DEF TakenIs
<1>2. \A i \in 1 .. n : i # j => Net(s[i], p, e) = 0
  OBVIOUS
<1>3. j \in 1 .. n
  OBVIOUS
<1>4. 0 \in S
  BY <1>1, <1>3
<1>5. ASSUME NEW i \in 1 .. n, i - 1 \in S PROVE i \in S
  <2>1. f[i - 1] = (IF i - 1 < j THEN 0 ELSE v) /\ f[i] = f[i - 1] + Net(s[i], p, e)
    BY <1>1, <1>5
  <2> HIDE DEF f, n
  <2>2. CASE i = j
    BY <2>1, <2>2, <1>1
  <2>3. CASE i # j
    <3>1. Net(s[i], p, e) = 0
      BY <1>2, <2>3
    <3> HIDE DEF v
    <3> QED BY <2>1, <2>3, <3>1, <1>1, <1>3
  <2> QED BY <2>2, <2>3
<1>6. \A k \in 0 .. n : k \in S
  <2> HIDE DEF S, n
  <2> QED BY <1>1, <1>4, <1>5, InductionUpTo
<1> QED BY <1>6

\* A list whose instructions give as much as they take.
LEMMA Neutral ==
    ASSUME NEW s, NEW p, NEW a, NEW b, IsSeq(s),
           \A i \in 1 .. Len(s) : Net(s[i], p, a) + Net(s[i], p, b) = 0
    PROVE  Fits(s, p, a, b, 0, 0)
<1> DEFINE n == Len(s)  f == Taken(s, p, a)  g == Taken(s, p, b)
           S == {k \in 0 .. n : f[k] + g[k] = 0}
<1>1. /\ n \in Nat
      /\ f[0] = 0 /\ \A k \in 1 .. n : f[k] = f[k - 1] + Net(s[k], p, a)
      /\ g[0] = 0 /\ \A k \in 1 .. n : g[k] = g[k - 1] + Net(s[k], p, b)
      /\ \A k \in 0 .. n : f[k] \in Int /\ g[k] \in Int
  BY SeqFacts, TakenDefined, TakenType DEF TakenIs
<1>2. 0 \in S
  BY <1>1
<1>3. ASSUME NEW i \in 1 .. n, i - 1 \in S PROVE i \in S
  <2>1. /\ f[i] = f[i - 1] + Net(s[i], p, a) /\ g[i] = g[i - 1] + Net(s[i], p, b)
        /\ f[i - 1] + g[i - 1] = 0 /\ f[i - 1] \in Int /\ g[i - 1] \in Int /\ i \in 0 .. n
    BY <1>1, <1>3
  <2>2. Net(s[i], p, a) + Net(s[i], p, b) = 0 /\ Net(s[i], p, a) \in Int /\ Net(s[i], p, b) \in Int
    BY <1>3, NetType
  <2> HIDE DEF f, g, n
  <2> QED BY <2>1, <2>2
<1>4. \A k \in 0 .. n : k \in S
  <2> HIDE DEF S, n
  <2> QED BY <1>1, <1>2, <1>3, InductionUpTo
<1>5. Total(s, p, a) = f[n] /\ Total(s, p, b) = g[n] /\ n \in 0 .. n
  BY <1>1 DEF Total
<1>6. Pair(s, p, a, b) <= 0
  <2>1. f[n] + g[n] = 0
    BY <1>4, <1>5
  <2> HIDE DEF f, g, n, S
  <2> QED BY <1>5, <2>1 DEF Pair
<1>7. Below(s, p, a, b, 0)
  <2> SUFFICES ASSUME NEW k \in 0 .. n PROVE Left(s, p, a, k) + Left(s, p, b, k) <= 0
    BY DEF Below
  <2>1. f[k] + g[k] = 0 /\ f[n] + g[n] = 0 /\ f[k] \in Int /\ g[k] \in Int /\ f[n] \in Int /\ g[n] \in Int
    BY <1>1, <1>4, <1>5
  <2>2. Left(s, p, a, k) = f[n] - f[k] /\ Left(s, p, b, k) = g[n] - g[k]
    BY <1>5 DEF Left
  <2> HIDE DEF f, g, n
  <2> QED BY <2>1, <2>2
<1> QED BY <1>6, <1>7 DEF Fits

LEMMA Silent ==
    ASSUME NEW s, NEW p, NEW e, IsSeq(s), \A i \in 1 .. Len(s) : Net(s[i], p, e) = 0
    PROVE  Total(s, p, e) = 0
<1>1. /\ Len(s) \in Nat /\ Taken(s, p, e)[0] = 0
      /\ \A k \in 1 .. Len(s) : Taken(s, p, e)[k] = Taken(s, p, e)[k - 1] + Net(s[k], p, e)
  BY SeqFacts, TakenDefined DEF TakenIs
<1> DEFINE n == Len(s)  f == Taken(s, p, e)  S == {k \in 0 .. n : f[k] = 0}
<1>2. 0 \in S
  BY <1>1
<1>3. ASSUME NEW i \in 1 .. n, i - 1 \in S PROVE i \in S
  BY <1>1, <1>3
<1>4. \A k \in 0 .. n : k \in S
  <2>1. n \in Nat
    BY <1>1
  <2> HIDE DEF S, n
  <2> QED BY <2>1, <1>2, <1>3, InductionUpTo
<1> QED BY <1>1, <1>4 DEF Total

LEMMA EmptyList ==
    ASSUME NEW p, NEW a, NEW b
    PROVE  IsSeq(<<>>) /\ Fits(<<>>, p, a, b, 0, 0) /\ Total(<<>>, p, a) = 0 /\ Flow(<<>>, a) = 0
<1>1. IsSeq(<<>>) /\ Len(<<>>) = 0
  BY DEF IsSeq
<1>2. Fits(<<>>, p, a, b, 0, 0)
  BY <1>1, Neutral
<1>3. \A q : Total(<<>>, q, a) = 0
  BY <1>1, Silent
<1> QED BY <1>1, <1>2, <1>3 DEF Flow

LEMMA OneList ==
    ASSUME NEW i, NEW p, NEW a, NEW b
    PROVE  /\ IsSeq(<<i>>) /\ Len(<<i>>) = 1 /\ <<i>>[1] = i
           /\ Total(<<i>>, p, a) = Net(i, p, a)
           /\ \A m, t \in Int :
                Net(i, p, a) + Net(i, p, b) <= m /\ 0 <= m /\ Net(i, p, a) + Net(i, p, b) <= t
                  => Fits(<<i>>, p, a, b, m, t)
<1> DEFINE s == <<i>>
<1>1. IsSeq(s) /\ Len(s) = 1 /\ s[1] = i
  <2>1. s \in Seq({i})
    OBVIOUS
  <2> QED BY <2>1 DEF IsSeq
<1> HIDE DEF s
<1>2. \A e : Taken(s, p, e)[0] = 0 /\ Taken(s, p, e)[1] = Net(i, p, e) /\ Net(i, p, e) \in Int
  <2> TAKE e
  <2>1. \A k \in 0 .. 1 : Taken(s, p, e)[k] = IF k < 1 THEN 0 ELSE Net(s[1], p, e)
    BY <1>1, Jump
  <2> QED BY <1>1, <2>1, NetType
<1>3. \A e : Total(s, p, e) = Net(i, p, e)
  BY <1>1, <1>2 DEF Total
<1>4. ASSUME NEW m \in Int, NEW t \in Int,
             Net(i, p, a) + Net(i, p, b) <= m, 0 <= m, Net(i, p, a) + Net(i, p, b) <= t
      PROVE  Fits(s, p, a, b, m, t)
  <2>1. Pair(s, p, a, b) <= t
    BY <1>3, <1>4 DEF Pair
  <2>2. \A k \in 0 .. 1 : Left(s, p, a, k) + Left(s, p, b, k) <= m
    <3> TAKE k \in 0 .. 1
    <3>1. CASE k = 0
      BY <1>2, <1>3, <1>4, <3>1 DEF Left
    <3>2. CASE k = 1
      BY <1>2, <1>3, <1>4, <3>2 DEF Left
    <3> QED BY <3>1, <3>2
  <2> QED BY <1>1, <2>1, <2>2 DEF Fits, Below
<1> QED BY <1>1, <1>3, <1>4 DEF s

-----------------------------------------------------------------------------
(* Lists joined.                                                           *)

LEMMA SeqOver ==
    ASSUME NEW s, IsSeq(s), NEW X, \A k \in 1 .. Len(s) : s[k] \in X
    PROVE  s \in Seq(X)
<1>1. PICK Y : s \in Seq(Y)
  BY DEF IsSeq
<1>2. Len(s) \in Nat /\ s \in [1 .. Len(s) -> Y]
  BY <1>1
<1>3. s \in [1 .. Len(s) -> X]
  BY <1>2
<1> QED BY <1>2, <1>3, SeqDef

LEMMA SeqMade ==
    ASSUME NEW n \in Nat, NEW s, s = [i \in 1 .. n |-> s[i]]
    PROVE  IsSeq(s) /\ Len(s) = n /\ DOMAIN s = 1 .. n
<1> DEFINE X == {s[i] : i \in 1 .. n}
<1>1. s \in [1 .. n -> X]
  OBVIOUS
<1>2. s \in Seq(X)
  <2> HIDE DEF X
  <2> QED BY <1>1, SeqDef
<1>3. DOMAIN s = 1 .. n
  BY <1>1
<1>4. Len(s) = n
  <2>1. Len(s) \in Nat /\ DOMAIN s = 1 .. Len(s)
    <3> HIDE DEF X
    <3> QED BY <1>2
  <2> QED BY <1>3, <2>1
<1> QED BY <1>2, <1>3, <1>4 DEF IsSeq

\* The lists a list of lists is put together from.
FlatBy(f, seqs, n, X) ==
    /\ f \in [1 .. n -> Seq(X)]
    /\ f[1] = seqs[1]
    /\ \A i \in 2 .. n : f[i] = f[i - 1] \o seqs[i]
    /\ FlattenSeq(seqs) = f[n]

LEMMA Flattened ==
    ASSUME NEW seqs, NEW n \in Nat, n >= 1, Len(seqs) = n, NEW X, \A i \in 1 .. n : seqs[i] \in Seq(X)
    PROVE  \E f : FlatBy(f, seqs, n, X)
<1> DEFINE Q == Seq(X)
           Step == [i \in 1 .. n |-> [v \in Q |-> IF i = 1 THEN seqs[1] ELSE v \o seqs[i]]]
           Is(g) == g = [i \in 1 .. n |-> IF i = 1 THEN seqs[i] ELSE g[i - 1] \o seqs[i]]
<1>1. <<>> \in Q /\ \A v \in Q, i \in 1 .. n : v \o seqs[i] \in Q
  OBVIOUS
<1>2. StepsIn(Step, n, Q)
  <2> HIDE DEF Q
  <2>1. \A i \in 1 .. n : seqs[i] \in Q
    BY DEF Q
  <2>2. \A i \in 1 .. n, v \in Q : (IF i = 1 THEN seqs[1] ELSE v \o seqs[i]) \in Q
    BY <1>1, <2>1
  <2>3. \A i \in 1 .. n : [v \in Q |-> IF i = 1 THEN seqs[1] ELSE v \o seqs[i]] \in [Q -> Q]
    BY <2>2
  <2> QED BY <2>3 DEF StepsIn
<1>3. PICK h : Follows(h, n, Q, <<>>, Step)
  <2> HIDE DEF Q, Step
  <2> QED BY <1>1, <1>2, FunctionInto
<1>4. h \in [0 .. n -> Q] /\ \A i \in 1 .. n : h[i] = Step[i][h[i - 1]]
  BY <1>3 DEF Follows
<1>5. \A i \in 1 .. n : h[i] = IF i = 1 THEN seqs[i] ELSE h[i - 1] \o seqs[i]
  <2> TAKE i \in 1 .. n
  <2>1. i - 1 \in 0 .. n
    OBVIOUS
  <2>2. h[i - 1] \in Q
    BY <1>4, <2>1
  <2> HIDE DEF Q
  <2> QED BY <1>4, <2>2
<1> DEFINE g == [i \in 1 .. n |-> h[i]]
<1>6. Is(g)
  <2>1. \A i \in 1 .. n : g[i] = IF i = 1 THEN seqs[i] ELSE g[i - 1] \o seqs[i]
    <3> TAKE i \in 1 .. n
    <3>1. i # 1 => i - 1 \in 1 .. n
      OBVIOUS
    <3> HIDE DEF Q, Step
    <3> QED BY <1>5, <3>1
  <2> HIDE DEF Q, Step
  <2> QED BY <2>1
<1> DEFINE c == CHOOSE k : Is(k)
<1>7. Is(c)
  <2> HIDE DEF Is, g
  <2> QED BY <1>6
<1>8. FlattenSeq(seqs) = c[n]
  <2>1. Len(seqs) # 0
    OBVIOUS
  <2> HIDE DEF Q, Step
  <2> QED BY <2>1 DEF FlattenSeq
<1>9. /\ DOMAIN c = 1 .. n /\ c[1] = seqs[1]
      /\ \A i \in 2 .. n : c[i] = c[i - 1] \o seqs[i]
      /\ c = [i \in 1 .. n |-> c[i]]
  <2> DEFINE d == [i \in 1 .. n |-> IF i = 1 THEN seqs[i] ELSE c[i - 1] \o seqs[i]]
  <2>1. DOMAIN d = 1 .. n /\ \A i \in 1 .. n : d[i] = IF i = 1 THEN seqs[i] ELSE c[i - 1] \o seqs[i]
    OBVIOUS
  <2>2. d = [i \in 1 .. n |-> d[i]]
    OBVIOUS
  <2>3. c = d
    <3> HIDE DEF c
    <3> QED BY <1>7
  <2> HIDE DEF c, d
  <2>4. DOMAIN c = 1 .. n /\ c = [i \in 1 .. n |-> c[i]] /\ \A i \in 1 .. n : c[i] = IF i = 1 THEN seqs[i] ELSE c[i - 1] \o seqs[i]
    BY <2>1, <2>2, <2>3
  <2>5. 1 \in 1 .. n /\ \A i \in 2 .. n : i \in 1 .. n /\ i # 1
    OBVIOUS
  <2> QED BY ONLY <2>4, <2>5
<1> HIDE DEF c
<1>10. \A i \in 0 .. n : i \in {k \in 0 .. n : k = 0 \/ c[k] \in Q}
  <2> DEFINE S == {k \in 0 .. n : k = 0 \/ c[k] \in Q}
  <2>1. 0 \in S
    OBVIOUS
  <2>2. ASSUME NEW i \in 1 .. n, i - 1 \in S PROVE i \in S
    <3>1. CASE i = 1
      BY <1>9, <3>1
    <3>2. CASE i # 1
      <4>1. i \in 2 .. n /\ c[i - 1] \in Q
        BY <2>2, <3>2
      <4>2. c[i] = c[i - 1] \o seqs[i]
        BY <1>9, <4>1
      <4>3. c[i] \in Q
        <5> HIDE DEF Q
        <5> QED BY <1>1, <4>1, <4>2
      <4> QED BY <4>3
    <3> QED BY <3>1, <3>2
  <2> HIDE DEF S
  <2> QED BY <2>1, <2>2, InductionUpTo DEF S
<1>11. c \in [1 .. n -> Q]
  <2>1. \A i \in 1 .. n : c[i] \in Q
    BY <1>10
  <2> HIDE DEF Q
  <2> QED BY <1>9, <2>1
<1> QED BY <1>8, <1>9, <1>11 DEF FlatBy

LEMMA FlattenNothing == ASSUME NEW seqs, Len(seqs) = 0, IsSeq(seqs) PROVE FlattenSeq(seqs) = <<>>
<1>1. PICK X : seqs \in Seq(X)
  BY DEF IsSeq
<1>2. seqs = <<>>
  BY <1>1
<1> QED BY <1>2 DEF FlattenSeq

LEMMA FlattenIn ==
    ASSUME NEW seqs, IsSeq(seqs), NEW X, \A i \in 1 .. Len(seqs) : seqs[i] \in Seq(X)
    PROVE  FlattenSeq(seqs) \in Seq(X)
<1>1. Len(seqs) \in Nat
  BY SeqFacts
<1>2. CASE Len(seqs) = 0
  <2>1. <<>> \in Seq(X) /\ FlattenSeq(seqs) = <<>>
    BY <1>2, FlattenNothing
  <2> QED BY <2>1
<1>3. CASE Len(seqs) >= 1
  <2>1. PICK f : FlatBy(f, seqs, Len(seqs), X)
    BY <1>1, <1>3, Flattened
  <2> QED BY <1>1, <1>3, <2>1 DEF FlatBy
<1> QED BY <1>1, <1>2, <1>3

\* Every element of the whole is one of a piece.
LEMMA FlattenRange ==
    ASSUME NEW seqs, IsSeq(seqs), \A i \in 1 .. Len(seqs) : IsSeq(seqs[i]),
           NEW k \in 1 .. Len(FlattenSeq(seqs))
    PROVE  IsSeq(FlattenSeq(seqs)) /\ \E i \in 1 .. Len(seqs) : \E l \in 1 .. Len(seqs[i]) : FlattenSeq(seqs)[k] = seqs[i][l]
<1> DEFINE X == UNION {{seqs[i][l] : l \in 1 .. Len(seqs[i])} : i \in 1 .. Len(seqs)}
<1>1. \A i \in 1 .. Len(seqs) : seqs[i] \in Seq(X)
  <2> TAKE i \in 1 .. Len(seqs)
  <2>1. \A l \in 1 .. Len(seqs[i]) : seqs[i][l] \in X
    OBVIOUS
  <2> HIDE DEF X
  <2> QED BY <2>1, SeqOver
<1>2. FlattenSeq(seqs) \in Seq(X)
  <2> HIDE DEF X
  <2> QED BY <1>1, FlattenIn
<1>3. FlattenSeq(seqs)[k] \in X
  <2> HIDE DEF X
  <2> QED BY <1>2, ElementOfSeq
<1> QED BY <1>2, <1>3 DEF IsSeq

-----------------------------------------------------------------------------
(* What lists joined take.                                                 *)

LEMMA FlattenFits ==
    ASSUME NEW seqs, IsSeq(seqs), Len(seqs) >= 1, \A i \in 1 .. Len(seqs) : IsSeq(seqs[i]),
           NEW p, NEW a, NEW b, NEW m \in Int, NEW t \in Int,
           Fits(seqs[1], p, a, b, m, t), \A i \in 2 .. Len(seqs) : Fits(seqs[i], p, a, b, m, 0)
    PROVE  Fits(FlattenSeq(seqs), p, a, b, m, t)
<1> DEFINE X == UNION {{seqs[i][l] : l \in 1 .. Len(seqs[i])} : i \in 1 .. Len(seqs)}
           n == Len(seqs)
<1>1. \A i \in 1 .. n : seqs[i] \in Seq(X)
  <2> TAKE i \in 1 .. n
  <2>1. \A l \in 1 .. Len(seqs[i]) : seqs[i][l] \in X
    OBVIOUS
  <2> HIDE DEF X
  <2> QED BY <2>1, SeqOver
<1>2. n \in Nat
  BY SeqFacts
<1>3. PICK f : FlatBy(f, seqs, n, X)
  <2> HIDE DEF X
  <2> QED BY <1>1, <1>2, Flattened
<1>4. f[1] = seqs[1] /\ (\A i \in 2 .. n : f[i] = f[i - 1] \o seqs[i]) /\ FlattenSeq(seqs) = f[n]
  BY <1>3 DEF FlatBy
<1> DEFINE S == {i \in 0 .. n : i = 0 \/ Fits(f[i], p, a, b, m, t)}
<1>5. 0 \in S
  BY <1>2
<1>6. ASSUME NEW i \in 1 .. n, i - 1 \in S PROVE i \in S
  <2>1. CASE i = 1
    BY <1>4, <1>6, <2>1
  <2>2. CASE i # 1
    <3>1. i \in 2 .. n /\ Fits(f[i - 1], p, a, b, m, t)
      BY <1>2, <1>6, <2>2
    <3>2. Fits(seqs[i], p, a, b, m, 0) /\ f[i] = f[i - 1] \o seqs[i] /\ m + 0 <= m
      <4>1. i \in 2 .. Len(seqs)
        BY <3>1
      <4>2. Fits(seqs[i], p, a, b, m, 0)
        BY <4>1
      <4>3. m + 0 <= m
        OBVIOUS
      <4> QED BY <1>4, <3>1, <4>2, <4>3
    <3>3. Fits(f[i - 1] \o seqs[i], p, a, b, m, t + 0)
      BY <3>1, <3>2, FitsCat
    <3>4. t + 0 = t
      OBVIOUS
    <3>5. i \in 0 .. n /\ Fits(f[i], p, a, b, m, t)
      <4>1. Fits(f[i], p, a, b, m, t)
        BY ONLY <3>2, <3>3, <3>4
      <4> QED BY <1>2, <3>1, <4>1
    <3> QED BY <3>5
  <2> QED BY <2>1, <2>2
<1>7. n \in S
  <2> HIDE DEF S, X
  <2>1. \A i \in 0 .. n : i \in S
    BY <1>2, <1>5, <1>6, InductionUpTo
  <2> QED BY <1>2, <2>1
<1> QED BY <1>4, <1>7

LEMMA FlattenFlow ==
    ASSUME NEW seqs, IsSeq(seqs), Len(seqs) >= 1, \A i \in 1 .. Len(seqs) : IsSeq(seqs[i]),
           NEW e, \A i \in 2 .. Len(seqs) : Flow(seqs[i], e) = 0
    PROVE  Flow(FlattenSeq(seqs), e) = Flow(seqs[1], e)
<1> DEFINE X == UNION {{seqs[i][l] : l \in 1 .. Len(seqs[i])} : i \in 1 .. Len(seqs)}
           n == Len(seqs)
<1>1. \A i \in 1 .. n : seqs[i] \in Seq(X)
  <2> TAKE i \in 1 .. n
  <2>1. \A l \in 1 .. Len(seqs[i]) : seqs[i][l] \in X
    OBVIOUS
  <2> HIDE DEF X
  <2> QED BY <2>1, SeqOver
<1>2. n \in Nat
  BY SeqFacts
<1>3. PICK f : FlatBy(f, seqs, n, X)
  <2> HIDE DEF X
  <2> QED BY <1>1, <1>2, Flattened
<1>4. /\ f[1] = seqs[1] /\ (\A i \in 2 .. n : f[i] = f[i - 1] \o seqs[i]) /\ FlattenSeq(seqs) = f[n]
      /\ \A i \in 1 .. n : IsSeq(f[i])
  <2> HIDE DEF X
  <2> QED BY <1>3 DEF FlatBy, IsSeq
<1> DEFINE S == {i \in 0 .. n : i = 0 \/ Flow(f[i], e) = Flow(seqs[1], e)}
<1>5. 0 \in S
  BY <1>2
<1>6. ASSUME NEW i \in 1 .. n, i - 1 \in S PROVE i \in S
  <2>1. CASE i = 1
    BY <1>4, <1>6, <2>1
  <2>2. CASE i # 1
    <3>1. i \in 2 .. n /\ i - 1 \in 1 .. n /\ Flow(f[i - 1], e) = Flow(seqs[1], e)
      BY <1>2, <1>6, <2>2
    <3>2. Flow(seqs[i], e) = 0 /\ f[i] = f[i - 1] \o seqs[i] /\ IsSeq(f[i - 1]) /\ IsSeq(seqs[i])
      BY <1>4, <3>1
    <3>3. Flow(f[i], e) = Flow(f[i - 1], e) + Flow(seqs[i], e)
      BY <3>2, FlowCat
    <3>4. Flow(f[i - 1], e) \in Int
      BY <3>2, FlowType
    <3>5. i \in 0 .. n /\ Flow(f[i], e) = Flow(seqs[1], e)
      <4>1. Flow(f[i], e) = Flow(seqs[1], e)
        BY ONLY <3>1, <3>2, <3>3, <3>4
      <4> QED BY <1>2, <3>1, <4>1
    <3> QED BY <3>5
  <2> QED BY <2>1, <2>2
<1>7. n \in S
  <2> HIDE DEF S, X
  <2>1. \A i \in 0 .. n : i \in S
    BY <1>2, <1>5, <1>6, InductionUpTo
  <2> QED BY <1>2, <2>1
<1> QED BY <1>4, <1>7

-----------------------------------------------------------------------------
(* The instructions of one pipe.                                           *)

\* The instructions u of pipe p among the first i of s take what those take.
Among(u, s, p, i) ==
    /\ IsSeq(u)
    /\ \A k \in 1 .. Len(u) : u[k].pipe = p /\ \E l \in 1 .. Len(s) : u[k] = s[l]
    /\ \A k \in 0 .. Len(u) : \E l \in 0 .. Len(s) : \A e : Taken(u, p, e)[k] = Taken(s, p, e)[l]
    /\ \A e : Total(u, p, e) = Taken(s, p, e)[i]

LEMMA AmongMore ==
    ASSUME NEW u, NEW s, NEW p, IsSeq(s), NEW i \in 1 .. Len(s), Among(u, s, p, i - 1)
    PROVE  Among(IF s[i].pipe = p THEN u \o <<s[i]>> ELSE u, s, p, i)
<1>1. \A e : Taken(s, p, e)[i] = Taken(s, p, e)[i - 1] + Net(s[i], p, e)
             /\ Taken(s, p, e)[i - 1] \in Int
  <2>1. i - 1 \in 0 .. Len(s)
    BY SeqFacts
  <2> QED BY <2>1, TakenDefined, TakenType DEF TakenIs
<1>2. CASE s[i].pipe # p
  <2>1. \A e : Net(s[i], p, e) = 0
    BY <1>2 DEF Net
  <2>2. \A e : Taken(s, p, e)[i] = Taken(s, p, e)[i - 1]
    BY <1>1, <2>1
  <2> QED BY <1>2, <2>2 DEF Among
<1>3. CASE s[i].pipe = p
  <2> DEFINE x == s[i]  w == u \o <<x>>
  <2>1. IsSeq(u) /\ IsSeq(<<x>>) /\ Len(<<x>>) = 1 /\ <<x>>[1] = x /\ \A e : Total(<<x>>, p, e) = Net(x, p, e)
    BY OneList DEF Among
  <2>2. /\ IsSeq(w) /\ Len(w) = Len(u) + 1 /\ Len(u) \in Nat
        /\ (\A k \in 1 .. Len(u) : w[k] = u[k]) /\ w[Len(u) + 1] = x
    <3> HIDE DEF x
    <3> QED BY <2>1, CatSeq, SeqFacts
  <2>3. \A e : Total(w, p, e) = Taken(s, p, e)[i]
    <3> TAKE e
    <3>1. Total(w, p, e) = Total(u, p, e) + Net(x, p, e)
      <4> HIDE DEF x
      <4> QED BY <2>1, TotalCat
    <3> QED BY <1>1, <3>1 DEF Among
  <2>4. \A k \in 0 .. Len(w) : \E l \in 0 .. Len(s) : \A e : Taken(w, p, e)[k] = Taken(s, p, e)[l]
    <3> TAKE k \in 0 .. Len(w)
    <3>1. CASE k <= Len(u)
      <4>1. k \in 0 .. Len(u)
        BY <2>2, <3>1
      <4>2. \A e : Taken(w, p, e)[k] = Taken(u, p, e)[k]
        <5> HIDE DEF x
        <5> QED BY <2>1, <4>1, TakenCat
      <4> HIDE DEF w
      <4> QED BY <4>1, <4>2 DEF Among
    <3>2. CASE k = Len(w)
      <4>1. \A e : Taken(w, p, e)[k] = Taken(s, p, e)[i]
        BY <2>3, <3>2 DEF Total
      <4>2. i \in 0 .. Len(s)
        BY SeqFacts
      <4> HIDE DEF w
      <4> QED BY <4>1, <4>2
    <3> QED BY <2>2, <3>1, <3>2
  <2>5. \A k \in 1 .. Len(w) : w[k].pipe = p /\ \E l \in 1 .. Len(s) : w[k] = s[l]
    <3> TAKE k \in 1 .. Len(w)
    <3>1. CASE k = Len(u) + 1
      BY <1>3, <2>2, <3>1
    <3>2. CASE k # Len(u) + 1
      <4>1. k \in 1 .. Len(u)
        BY <2>2, <3>2
      <4>2. u[k].pipe = p /\ \E l \in 1 .. Len(s) : u[k] = s[l]
        BY <4>1 DEF Among
      <4> HIDE DEF w
      <4> QED BY <2>2, <4>1, <4>2
    <3> QED BY <3>1, <3>2
  <2>6. Among(w, s, p, i)
    <3> HIDE DEF w
    <3> QED BY <2>2, <2>3, <2>4, <2>5 DEF Among
  <2> QED BY <1>3, <2>6
<1> QED BY <1>2, <1>3

LEMMA OfPipeAmong == ASSUME NEW s, NEW p, IsSeq(s) PROVE Among(OfPipe(s, p), s, p, Len(s))
<1> DEFINE n == Len(s)
           X == {s[i] : i \in 1 .. n}
           Q == Seq(X)
           Step == [i \in 1 .. n |-> [v \in Q |-> IF s[i].pipe = p THEN Append(v, s[i]) ELSE v]]
           Is(g) == g = [i \in 0 .. n |->
                          IF i = 0 THEN <<>>
                          ELSE IF s[i].pipe = p THEN Append(g[i - 1], s[i]) ELSE g[i - 1]]
<1>1. n \in Nat
  BY SeqFacts
<1>2. <<>> \in Q /\ \A v \in Q, i \in 1 .. n : Append(v, s[i]) \in Q
  <2>1. \A i \in 1 .. n : s[i] \in X
    OBVIOUS
  <2> HIDE DEF X, n
  <2> QED BY <2>1
<1>3. StepsIn(Step, n, Q)
  <2> HIDE DEF Q
  <2>1. \A i \in 1 .. n, v \in Q : (IF s[i].pipe = p THEN Append(v, s[i]) ELSE v) \in Q
    BY <1>2
  <2>2. \A i \in 1 .. n : [v \in Q |-> IF s[i].pipe = p THEN Append(v, s[i]) ELSE v] \in [Q -> Q]
    BY <2>1
  <2> QED BY <2>2 DEF StepsIn
<1>4. PICK h : Follows(h, n, Q, <<>>, Step)
  <2> HIDE DEF Q, Step, n
  <2> QED BY <1>1, <1>2, <1>3, FunctionInto
<1>5. h \in [0 .. n -> Q] /\ h[0] = <<>> /\ \A i \in 1 .. n : h[i] = Step[i][h[i - 1]]
  BY <1>4 DEF Follows
<1>6. \A i \in 1 .. n : h[i] = IF s[i].pipe = p THEN Append(h[i - 1], s[i]) ELSE h[i - 1]
  <2> TAKE i \in 1 .. n
  <2>1. i - 1 \in 0 .. n
    BY <1>1
  <2>2. h[i - 1] \in Q
    BY <1>5, <2>1
  <2> HIDE DEF Q
  <2> QED BY <1>5, <2>2
<1>7. Is(h)
  <2> HIDE DEF Q, Step
  <2>1. \A i \in 0 .. n : h[i] = IF i = 0 THEN <<>>
                                 ELSE IF s[i].pipe = p THEN Append(h[i - 1], s[i]) ELSE h[i - 1]
    <3> TAKE i \in 0 .. n
    <3>1. CASE i = 0
      BY <1>5, <3>1
    <3>2. CASE i # 0
      <4>1. i \in 1 .. n
        BY <1>1, <3>2
      <4> QED BY <1>6, <3>2, <4>1
    <3> QED BY <3>1, <3>2
  <2> HIDE DEF n
  <2> QED BY <1>5, <2>1
<1> DEFINE c == CHOOSE g : Is(g)
<1>8. Is(c)
  <2> HIDE DEF Is
  <2> QED BY <1>7
<1>9. OfPipe(s, p) = c[n]
  BY DEF OfPipe
<1> DEFINE d == [i \in 0 .. n |-> IF i = 0 THEN <<>>
                                  ELSE IF s[i].pipe = p THEN Append(c[i - 1], s[i]) ELSE c[i - 1]]
<1>10. c[0] = <<>> /\ \A i \in 1 .. n : c[i] = IF s[i].pipe = p THEN Append(c[i - 1], s[i]) ELSE c[i - 1]
  <2>1. \A i \in 0 .. n : d[i] = IF i = 0 THEN <<>>
                                 ELSE IF s[i].pipe = p THEN Append(c[i - 1], s[i]) ELSE c[i - 1]
    OBVIOUS
  <2>2. c = d
    <3> HIDE DEF c
    <3> QED BY <1>8
  <2>3. 0 \in 0 .. n /\ \A i \in 1 .. n : i \in 0 .. n /\ i # 0
    BY <1>1
  <2> HIDE DEF c, d, n
  <2> QED BY ONLY <2>1, <2>2, <2>3
<1> HIDE DEF c
<1> DEFINE S == {i \in 0 .. n : Among(c[i], s, p, i)}
<1>11. 0 \in S
  <2>1. IsSeq(<<>>) /\ Len(<<>>) = 0 /\ Taken(s, p, 0)[0] = Taken(s, p, 0)[0]
    BY DEF IsSeq
  <2>2. \A e : Taken(<<>>, p, e)[0] = 0 /\ Taken(s, p, e)[0] = 0 /\ Total(<<>>, p, e) = 0
    BY <2>1, TakenDefined DEF TakenIs, Total
  <2>3. \A k \in 0 .. Len(<<>>) : k = 0 /\ k \in 0 .. Len(s)
    BY <1>1, <2>1
  <2>4. \A k \in 0 .. Len(<<>>) : \E l \in 0 .. Len(s) : \A e : Taken(<<>>, p, e)[k] = Taken(s, p, e)[l]
    <3> TAKE k \in 0 .. Len(<<>>)
    <3> WITNESS 0 \in 0 .. Len(s)
    <3> QED BY <2>2, <2>3
  <2>5. \A k \in 1 .. Len(<<>>) : FALSE
    BY <2>1
  <2>6. Among(<<>>, s, p, 0)
    BY <2>1, <2>2, <2>4, <2>5 DEF Among
  <2> QED BY <1>1, <1>10, <2>6
<1>12. ASSUME NEW i \in 1 .. n, i - 1 \in S PROVE i \in S
  <2>1. Among(c[i - 1], s, p, i - 1)
    BY <1>12
  <2>2. Among(IF s[i].pipe = p THEN c[i - 1] \o <<s[i]>> ELSE c[i - 1], s, p, i)
    BY <2>1, AmongMore
  <2>3. Append(c[i - 1], s[i]) = c[i - 1] \o <<s[i]>>
    <3>1. PICK Y : c[i - 1] \in Seq(Y)
      BY <2>1 DEF Among, IsSeq
    <3>2. c[i - 1] \in Seq(Y \cup {s[i]}) /\ s[i] \in Y \cup {s[i]}
      BY <3>1, SeqMonotonic
    <3> QED BY <3>2, AppendIsConcat
  <2>4. c[i] = IF s[i].pipe = p THEN c[i - 1] \o <<s[i]>> ELSE c[i - 1]
    BY <1>10, <2>3
  <2>5. Among(c[i], s, p, i)
    BY <2>2, <2>4
  <2> QED BY <1>1, <2>5
<1>13. n \in S
  <2> HIDE DEF S, n
  <2>1. \A i \in 0 .. n : i \in S
    BY <1>1, <1>11, <1>12, InductionUpTo
  <2> QED BY <1>1, <2>1
<1> QED BY <1>9, <1>13

LEMMA OfPipeKeeps ==
    ASSUME NEW s, NEW p, IsSeq(s)
    PROVE  /\ IsSeq(OfPipe(s, p))
           /\ \A k \in 1 .. Len(OfPipe(s, p)) :
                OfPipe(s, p)[k].pipe = p /\ \E l \in 1 .. Len(s) : OfPipe(s, p)[k] = s[l]
           /\ \A e : Total(OfPipe(s, p), p, e) = Total(s, p, e)
           /\ \A a, b, m : Below(s, p, a, b, m) => Below(OfPipe(s, p), p, a, b, m)
<1> DEFINE u == OfPipe(s, p)
<1>1. Among(u, s, p, Len(s))
  BY OfPipeAmong
<1> HIDE DEF u
<1>2. \A e : Total(u, p, e) = Total(s, p, e)
  BY <1>1 DEF Among, Total
<1>3. ASSUME NEW a, NEW b, NEW m, Below(s, p, a, b, m), NEW k \in 0 .. Len(u)
      PROVE  Left(u, p, a, k) + Left(u, p, b, k) <= m
  <2>1. PICK l \in 0 .. Len(s) : \A e : Taken(u, p, e)[k] = Taken(s, p, e)[l]
    BY <1>1 DEF Among
  <2>2. \A e : Left(u, p, e, k) = Left(s, p, e, l)
    BY <1>2, <2>1 DEF Left
  <2>3. Left(s, p, a, l) + Left(s, p, b, l) <= m
    BY <1>3 DEF Below
  <2> QED BY <2>2, <2>3
<1>4. \A a, b, m : Below(s, p, a, b, m) => Below(u, p, a, b, m)
  BY <1>3 DEF Below
<1>5. IsSeq(u) /\ \A k \in 1 .. Len(u) : u[k].pipe = p /\ \E l \in 1 .. Len(s) : u[k] = s[l]
  BY <1>1 DEF Among
<1> QED BY <1>2, <1>4, <1>5 DEF u

\* What is left of a list after its first instruction.
LEMMA AfterFirst ==
    ASSUME NEW q, IsSeq(q), q # <<>>, NEW p
    PROVE  /\ IsSeq(Tail(q)) /\ Len(q) \in Nat \ {0} /\ Len(Tail(q)) = Len(q) - 1 /\ Head(q) = q[1]
           /\ \A k \in 1 .. Len(Tail(q)) : Tail(q)[k] = q[k + 1]
           /\ \A e : Total(q, p, e) = Net(q[1], p, e) + Total(Tail(q), p, e)
           /\ \A a, b, m : Below(q, p, a, b, m) => Below(Tail(q), p, a, b, m)
<1>1. PICK X : q \in Seq(X)
  BY DEF IsSeq
<1> DEFINE h == <<q[1]>>  t == Tail(q)
<1>2. /\ Len(q) \in Nat \ {0} /\ Head(q) = q[1] /\ q[1] \in X
      /\ t \in Seq(X) /\ Len(t) = Len(q) - 1 /\ \A k \in 1 .. Len(t) : t[k] = q[k + 1]
  BY <1>1, HeadTailProperties, EmptySeq
<1>3. h \o t = q
  <2>1. h \in Seq(X) /\ Len(h) = 1 /\ h[1] = q[1]
    BY <1>2
  <2> HIDE DEF h, t
  <2>2. /\ h \o t \in Seq(X) /\ Len(h \o t) = Len(q)
        /\ \A i \in 1 .. Len(q) : (h \o t)[i] = IF i <= 1 THEN h[i] ELSE t[i - 1]
    <3>1. Len(h) = 1 /\ Len(t) = Len(q) - 1 /\ Len(q) \in Nat
      BY <1>2, <2>1
    <3>2. /\ h \o t \in Seq(X) /\ Len(h \o t) = Len(h) + Len(t)
          /\ \A i \in 1 .. Len(h) + Len(t) : (h \o t)[i] = IF i <= Len(h) THEN h[i] ELSE t[i - Len(h)]
      BY <1>2, <2>1, ConcatProperties
    <3>3. Len(h) + Len(t) = Len(q)
      BY <3>1
    <3> QED BY <3>1, <3>2, <3>3
  <2>3. \A i \in 1 .. Len(q) : (h \o t)[i] = q[i]
    <3> TAKE i \in 1 .. Len(q)
    <3>1. CASE i = 1
      BY <2>1, <2>2, <3>1
    <3>2. CASE i # 1
      <4>1. i - 1 \in 1 .. Len(t) /\ (i - 1) + 1 = i
        BY <1>2, <3>2
      <4> QED BY <1>2, <2>2, <3>2, <4>1
    <3> QED BY <3>1, <3>2
  <2> QED BY <1>1, <2>2, <2>3, SeqEqual
<1>4. IsSeq(h) /\ IsSeq(t) /\ Len(h) = 1 /\ \A e : Total(h, p, e) = Net(q[1], p, e)
  BY <1>2, OneList DEF IsSeq
<1> HIDE DEF h, t
<1>5. \A e : Total(q, p, e) = Net(q[1], p, e) + Total(t, p, e)
  <2> TAKE e
  <2>1. Total(h \o t, p, e) = Total(h, p, e) + Total(t, p, e)
    BY <1>4, TotalCat
  <2> QED BY <1>3, <1>4, <2>1
<1>6. ASSUME NEW a, NEW b, NEW m, Below(q, p, a, b, m), NEW k \in 0 .. Len(t)
      PROVE  Left(t, p, a, k) + Left(t, p, b, k) <= m
  <2>1. \A e : Taken(q, p, e)[1 + k] = Net(q[1], p, e) + Taken(t, p, e)[k]
    <3> TAKE e
    <3>1. Taken(h \o t, p, e)[Len(h) + k] = Total(h, p, e) + Taken(t, p, e)[k]
      <4>1. IsSeq(h) /\ IsSeq(t)
        BY <1>4
      <4>2. \A j \in 0 .. Len(t) : Taken(h \o t, p, e)[Len(h) + j] = Total(h, p, e) + Taken(t, p, e)[j]
        BY ONLY <4>1, TakenCat
      <4> QED BY <4>2
    <3> QED BY <1>3, <1>4, <3>1
  <2>2. 1 + k \in 0 .. Len(q)
    BY <1>2
  <2>3. \A e : Left(q, p, e, 1 + k) = Left(t, p, e, k)
    <3> TAKE e
    <3>1. Net(q[1], p, e) \in Int /\ Total(t, p, e) \in Int /\ Taken(t, p, e)[k] \in Int
      BY <1>4, NetType, TakenType
    <3> QED BY <1>5, <2>1, <3>1 DEF Left
  <2> QED BY <1>6, <2>2, <2>3 DEF Below
<1>7. \A a, b, m : Below(q, p, a, b, m) => Below(t, p, a, b, m)
  BY <1>6 DEF Below
<1> QED BY <1>2, <1>4, <1>5, <1>7 DEF t

-----------------------------------------------------------------------------
(* What is set, and what is still to be taken.                             *)

\* How many times an event is set.
Times(bag, e) == IF e \in DOMAIN bag THEN bag[e] ELSE 0
Once(S, e) == IF e \in S THEN 1 ELSE 0

\* All instructions of a list touch events of E only.
Within(s, E) == \A k \in 1 .. Len(s) : s[k].waits \cup s[k].sets \subseteq E

\* A ring: two events of which, and of the instructions that will set one for the other, one at most is there.
Ring(a, b, mte2, v, mte3) ==
    [a |-> a, b |-> b, most |-> [p \in Pipes |-> IF p = "MTE2" THEN mte2 ELSE IF p = "V" THEN v ELSE mte3]]
Most(r) == r.most["MTE2"] + r.most["V"] + r.most["MTE3"]

\* Rings that go around with the events F free at first.
RingsOf(R, E, F) ==
    /\ F \subseteq E
    /\ \A r \in R : /\ r.a \in E /\ r.b \in E /\ r.a # r.b /\ r.most \in [Pipes -> Nat]
                    /\ Once(F, r.a) + Once(F, r.b) + Most(r) <= 1
    /\ \A e \in E : \E r \in R : e \in {r.a, r.b}

\* The events of a core and its queues: every event is there as often as at first and as the queues still
\* take of it, and no pipe is to take more of a ring than its part.
Queues(qs, E) ==
    /\ qs = [p \in Pipes |-> qs[p]]
    /\ \A p \in Pipes : IsSeq(qs[p]) /\ Within(qs[p], E) /\ \A k \in 1 .. Len(qs[p]) : qs[p][k].pipe = p
Taking(qs, e) == Total(qs["MTE2"], "MTE2", e) + Total(qs["V"], "V", e) + Total(qs["MTE3"], "MTE3", e)
Events(bag, E) == bag \in [DOMAIN bag -> Nat \ {0}] /\ DOMAIN bag \subseteq E
Balanced(bag, qs, E, F) == \A e \in E : Times(bag, e) = Once(F, e) + Taking(qs, e)
InRing(qs, r) == \A p \in Pipes : Below(qs[p], p, r.a, r.b, r.most[p])
Paired(bag, qs, E, F, R) ==
    Queues(qs, E) /\ Events(bag, E) /\ Balanced(bag, qs, E, F) /\ \A r \in R : InRing(qs, r)

LEMMA PipeCases == \A p : p \in Pipes <=> p = "MTE2" \/ p = "V" \/ p = "MTE3"
BY DEF Pipes

LEMMA TakingType ==
    ASSUME NEW qs, NEW E, Queues(qs, E)
    PROVE  \A e : /\ Taking(qs, e) \in Int
                  /\ \A p \in Pipes : Total(qs[p], p, e) \in Int
<1>1. \A p \in Pipes : IsSeq(qs[p])
  BY DEF Queues
<1>2. \A e : \A p \in Pipes : Total(qs[p], p, e) \in Int
  BY <1>1, TakenType
<1>3. "MTE2" \in Pipes /\ "V" \in Pipes /\ "MTE3" \in Pipes
  BY DEF Pipes
<1> TAKE e
<1>4. Total(qs["MTE2"], "MTE2", e) \in Int /\ Total(qs["V"], "V", e) \in Int /\ Total(qs["MTE3"], "MTE3", e) \in Int
  BY <1>2, <1>3
<1>5. Taking(qs, e) \in Int
  BY <1>4 DEF Taking
<1>6. \A p \in Pipes : Total(qs[p], p, e) \in Int
  BY <1>2
<1> QED BY <1>5, <1>6

LEMMA TimesType == ASSUME NEW bag, NEW E, Events(bag, E) PROVE \A e : Times(bag, e) \in Nat
BY DEF Times, Events

\* In rings an event is set once at most.
LEMMA PairedOnce ==
    ASSUME NEW bag, NEW qs, NEW E, NEW F, NEW R, RingsOf(R, E, F), Paired(bag, qs, E, F, R)
    PROVE  \A e \in DOMAIN bag : bag[e] = 1
<1> SUFFICES ASSUME NEW e \in DOMAIN bag PROVE bag[e] = 1
  OBVIOUS
<1>1. e \in E /\ bag[e] \in Nat \ {0} /\ Times(bag, e) = bag[e]
  BY DEF Paired, Events, Times
<1>2. PICK r \in R : e \in {r.a, r.b}
  BY <1>1 DEF RingsOf
<1> DEFINE a == r.a  b == r.b
<1>3. /\ a \in E /\ b \in E /\ a # b /\ r.most \in [Pipes -> Nat]
      /\ Once(F, a) + Once(F, b) + Most(r) <= 1
  BY <1>2 DEF RingsOf
<1>4. Times(bag, a) = Once(F, a) + Taking(qs, a) /\ Times(bag, b) = Once(F, b) + Taking(qs, b)
  BY <1>3 DEF Paired, Balanced
<1>5. \A p \in Pipes : Total(qs[p], p, a) + Total(qs[p], p, b) <= r.most[p]
  <2> TAKE p \in Pipes
  <2>1. IsSeq(qs[p]) /\ Below(qs[p], p, a, b, r.most[p])
    BY <1>2 DEF Paired, Queues, InRing
  <2>2. Len(qs[p]) \in Nat /\ 0 \in 0 .. Len(qs[p])
    BY <2>1, SeqFacts
  <2>3. \A x : Left(qs[p], p, x, 0) = Total(qs[p], p, x)
    <3> TAKE x
    <3>1. Taken(qs[p], p, x)[0] = 0 /\ Total(qs[p], p, x) \in Int
      BY <2>1, TakenDefined, TakenType DEF TakenIs
    <3> QED BY <3>1 DEF Left
  <2> QED BY <2>1, <2>2, <2>3 DEF Below
<1>6. \A x : Times(bag, x) \in Nat /\ Once(F, x) \in 0 .. 1 /\ \A p \in Pipes : Total(qs[p], p, x) \in Int
  BY TimesType, TakingType DEF Paired, Once
<1>7. "MTE2" \in Pipes /\ "V" \in Pipes /\ "MTE3" \in Pipes
  BY DEF Pipes
<1>8. Times(bag, a) + Times(bag, b) <= 1
  <2>1. Taking(qs, a) + Taking(qs, b) <= Most(r)
    <3> HIDE DEF a, b
    <3>1. r.most["MTE2"] \in Nat /\ r.most["V"] \in Nat /\ r.most["MTE3"] \in Nat
      BY <1>3, <1>7
    <3>2. /\ Total(qs["MTE2"], "MTE2", a) + Total(qs["MTE2"], "MTE2", b) <= r.most["MTE2"]
          /\ Total(qs["V"], "V", a) + Total(qs["V"], "V", b) <= r.most["V"]
          /\ Total(qs["MTE3"], "MTE3", a) + Total(qs["MTE3"], "MTE3", b) <= r.most["MTE3"]
      BY <1>5, <1>7
    <3>3. /\ Total(qs["MTE2"], "MTE2", a) \in Int /\ Total(qs["MTE2"], "MTE2", b) \in Int
          /\ Total(qs["V"], "V", a) \in Int /\ Total(qs["V"], "V", b) \in Int
          /\ Total(qs["MTE3"], "MTE3", a) \in Int /\ Total(qs["MTE3"], "MTE3", b) \in Int
      BY <1>6, <1>7
    <3> QED BY <3>1, <3>2, <3>3 DEF Taking, Most
  <2>2. Taking(qs, a) \in Int /\ Taking(qs, b) \in Int /\ Most(r) \in Int
    <3>1. r.most["MTE2"] \in Nat /\ r.most["V"] \in Nat /\ r.most["MTE3"] \in Nat
      BY <1>3, <1>7
    <3> QED BY <3>1, TakingType DEF Paired, Most
  <2>3. Once(F, a) \in Int /\ Once(F, b) \in Int
    BY <1>6
  <2> HIDE DEF a, b
  <2> QED BY <1>3, <1>4, <2>1, <2>2, <2>3
<1> QED BY <1>1, <1>2, <1>6, <1>8

\* With empty queues the events are those of the beginning.
LEMMA EmptyTaking ==
    ASSUME NEW qs, \A p \in Pipes : qs[p] = <<>>
    PROVE  \A e : Taking(qs, e) = 0
<1>1. \A p, e : Total(<<>>, p, e) = 0
  BY EmptyList
<1>2. qs["MTE2"] = <<>> /\ qs["V"] = <<>> /\ qs["MTE3"] = <<>>
  BY DEF Pipes
<1> QED BY <1>1, <1>2 DEF Taking

LEMMA PairedDone ==
    ASSUME NEW bag, NEW qs, NEW E, NEW F, F \subseteq E, Events(bag, E), Balanced(bag, qs, E, F),
           \A p \in Pipes : qs[p] = <<>>
    PROVE  DOMAIN bag = F
<1>1. \A e \in E : Times(bag, e) = Once(F, e)
  <2> TAKE e \in E
  <2>1. Once(F, e) \in Int /\ Taking(qs, e) = 0
    BY EmptyTaking DEF Once
  <2> QED BY <2>1 DEF Balanced
<1>2. \A e \in DOMAIN bag : e \in E /\ bag[e] # 0
  BY DEF Events
<1>3. \A e \in E : e \in DOMAIN bag <=> e \in F
  BY <1>1, <1>2 DEF Times, Once
<1> QED BY <1>2, <1>3

LEMMA EmptyInRing ==
    ASSUME NEW qs, \A p \in Pipes : qs[p] = <<>>, NEW r, r.most \in [Pipes -> Nat]
    PROVE  InRing(qs, r)
<1> SUFFICES ASSUME NEW p \in Pipes PROVE Below(qs[p], p, r.a, r.b, r.most[p])
  BY DEF InRing
<1>1. Fits(<<>>, p, r.a, r.b, 0, 0)
  BY EmptyList
<1>2. r.most[p] \in Int /\ 0 <= r.most[p]
  OBVIOUS
<1>3. Fits(<<>>, p, r.a, r.b, r.most[p], 0)
  BY <1>1, <1>2, FitsMore
<1> QED BY <1>3 DEF Fits

LEMMA PairedAtFirst ==
    ASSUME NEW E, NEW F, NEW R, RingsOf(R, E, F)
    PROVE  Paired(SetToBag(F), [p \in Pipes |-> <<>>], E, F, R)
<1> DEFINE qs == [p \in Pipes |-> <<>>]  bag == SetToBag(F)
<1>1. \A p \in Pipes : qs[p] = <<>>
  OBVIOUS
<1>2. Queues(qs, E)
  <2>1. IsSeq(<<>>) /\ Len(<<>>) = 0
    BY DEF IsSeq
  <2> QED BY <2>1 DEF Queues, Within
<1>3. DOMAIN bag = F /\ \A e \in F : bag[e] = 1
  BY DEF SetToBag
<1>4. Events(bag, E)
  <2>1. bag = [e \in DOMAIN bag |-> bag[e]]
    BY DEF SetToBag
  <2> HIDE DEF bag
  <2> QED BY <1>3, <2>1 DEF Events, RingsOf
<1> HIDE DEF qs, bag
<1>5. Balanced(bag, qs, E, F)
  <2>1. \A e \in E : Taking(qs, e) = 0 /\ Once(F, e) \in Int /\ Times(bag, e) = Once(F, e)
    BY <1>1, <1>3, EmptyTaking DEF Times, Once
  <2> QED BY <2>1 DEF Balanced
<1>6. \A r \in R : InRing(qs, r)
  BY <1>1, EmptyInRing DEF RingsOf
<1> QED BY <1>2, <1>4, <1>5, <1>6 DEF Paired, qs, bag

-----------------------------------------------------------------------------
(* What a core may issue.                                                  *)

\* A list of instructions that a core may issue: it takes of every event what it gives, and no more of a
\* ring than the ring's part, from an empty queue or beside giving back as much.
Good(s, qs, E, R) ==
    /\ IsSeq(s) /\ Within(s, E)
    /\ \A e \in E : Flow(s, e) = 0
    /\ \A r \in R, p \in Pipes :
         /\ Below(s, p, r.a, r.b, r.most[p])
         /\ qs[p] = <<>> \/ Pair(s, p, r.a, r.b) <= 0

LEMMA WithinCat ==
    ASSUME NEW s, NEW t, NEW E, IsSeq(s), IsSeq(t), Within(s, E), Within(t, E)
    PROVE  Within(s \o t, E)
<1>1. /\ Len(s) \in Nat /\ Len(t) \in Nat /\ Len(s \o t) = Len(s) + Len(t)
      /\ \A i \in 1 .. Len(s) : (s \o t)[i] = s[i]
      /\ \A i \in 1 .. Len(t) : (s \o t)[Len(s) + i] = t[i]
  BY SeqFacts, CatSeq
<1> SUFFICES ASSUME NEW k \in 1 .. Len(s \o t)
             PROVE  (s \o t)[k].waits \cup (s \o t)[k].sets \subseteq E
  BY DEF Within
<1>2. CASE k <= Len(s)
  <2>1. k \in 1 .. Len(s)
    BY <1>1, <1>2
  <2> QED BY <1>1, <2>1 DEF Within
<1>3. CASE k > Len(s)
  <2>1. k - Len(s) \in 1 .. Len(t) /\ Len(s) + (k - Len(s)) = k
    BY <1>1, <1>3
  <2>2. (s \o t)[k] = t[k - Len(s)]
    BY <1>1, <2>1
  <2> QED BY <2>1, <2>2 DEF Within
<1> QED BY <1>1, <1>2, <1>3

\* Issuing such a list keeps the events in pairs.
LEMMA PairedCall ==
    ASSUME NEW bag, NEW qs, NEW E, NEW F, NEW R, RingsOf(R, E, F), Paired(bag, qs, E, F, R),
           NEW s, Good(s, qs, E, R)
    PROVE  Paired(bag, [p \in Pipes |-> qs[p] \o OfPipe(s, p)], E, F, R)
<1> DEFINE n == [p \in Pipes |-> qs[p] \o OfPipe(s, p)]
<1>1. IsSeq(s) /\ Within(s, E)
  BY DEF Good
<1>2. ASSUME NEW p \in Pipes
      PROVE  /\ IsSeq(OfPipe(s, p)) /\ Within(OfPipe(s, p), E)
             /\ \A k \in 1 .. Len(OfPipe(s, p)) : OfPipe(s, p)[k].pipe = p
             /\ \A e : Total(OfPipe(s, p), p, e) = Total(s, p, e)
             /\ \A a, b, m : Below(s, p, a, b, m) => Below(OfPipe(s, p), p, a, b, m)
  <2>1. /\ IsSeq(OfPipe(s, p))
        /\ \A k \in 1 .. Len(OfPipe(s, p)) :
             OfPipe(s, p)[k].pipe = p /\ \E l \in 1 .. Len(s) : OfPipe(s, p)[k] = s[l]
    BY <1>1, OfPipeKeeps
  <2>2. Within(OfPipe(s, p), E)
    BY <1>1, <2>1 DEF Within
  <2> QED BY <1>1, <2>1, <2>2, OfPipeKeeps
<1>3. \A p \in Pipes : IsSeq(qs[p]) /\ Within(qs[p], E) /\ \A k \in 1 .. Len(qs[p]) : qs[p][k].pipe = p
  BY DEF Paired, Queues
<1>4. Queues(n, E)
  <2>1. n = [p \in Pipes |-> n[p]]
    OBVIOUS
  <2>2. ASSUME NEW p \in Pipes
        PROVE  IsSeq(n[p]) /\ Within(n[p], E) /\ \A k \in 1 .. Len(n[p]) : n[p][k].pipe = p
    <3> DEFINE t == qs[p]  u == OfPipe(s, p)
    <3>1. n[p] = t \o u
      OBVIOUS
    <3>2. /\ IsSeq(t) /\ Within(t, E) /\ \A k \in 1 .. Len(t) : t[k].pipe = p
          /\ IsSeq(u) /\ Within(u, E) /\ \A k \in 1 .. Len(u) : u[k].pipe = p
      BY <1>2, <1>3
    <3> HIDE DEF t, u, n
    <3>3. /\ IsSeq(t \o u) /\ Len(t) \in Nat /\ Len(u) \in Nat /\ Len(t \o u) = Len(t) + Len(u)
          /\ \A i \in 1 .. Len(t) : (t \o u)[i] = t[i]
          /\ \A i \in 1 .. Len(u) : (t \o u)[Len(t) + i] = u[i]
      BY <3>2, CatSeq, SeqFacts
    <3>4. Within(t \o u, E)
      BY <3>2, WithinCat
    <3>5. ASSUME NEW k \in 1 .. Len(t \o u) PROVE (t \o u)[k].pipe = p
      <4>1. CASE k <= Len(t)
        <5>1. k \in 1 .. Len(t)
          BY <3>3, <4>1
        <5> QED BY <3>2, <3>3, <5>1
      <4>2. CASE k > Len(t)
        <5>1. k - Len(t) \in 1 .. Len(u) /\ Len(t) + (k - Len(t)) = k
          BY <3>3, <4>2
        <5>2. (t \o u)[k] = u[k - Len(t)]
          BY <3>3, <5>1
        <5> QED BY <3>2, <5>1, <5>2
      <4> QED BY <3>3, <4>1, <4>2
    <3> QED BY <3>1, <3>3, <3>4, <3>5
  <2> HIDE DEF n
  <2> QED BY <2>1, <2>2 DEF Queues
<1>5. Balanced(bag, n, E, F)
  <2> SUFFICES ASSUME NEW e \in E PROVE Times(bag, e) = Once(F, e) + Taking(n, e)
    BY DEF Balanced
  <2>1. \A p \in Pipes : /\ Total(n[p], p, e) = Total(qs[p], p, e) + Total(s, p, e)
                         /\ Total(qs[p], p, e) \in Int /\ Total(s, p, e) \in Int
    <3> TAKE p \in Pipes
    <3>1. n[p] = qs[p] \o OfPipe(s, p)
      OBVIOUS
    <3>2. Total(qs[p] \o OfPipe(s, p), p, e) = Total(qs[p], p, e) + Total(OfPipe(s, p), p, e)
      BY <1>2, <1>3, TotalCat
    <3>3. Total(OfPipe(s, p), p, e) = Total(s, p, e)
      BY <1>2
    <3>4. Total(qs[p], p, e) \in Int /\ Total(s, p, e) \in Int
      BY <1>1, <1>3, TakenType
    <3> QED BY <3>1, <3>2, <3>3, <3>4
  <2>2. Taking(n, e) = Taking(qs, e) + Flow(s, e)
    <3>1. "MTE2" \in Pipes /\ "V" \in Pipes /\ "MTE3" \in Pipes
      BY DEF Pipes
    <3> HIDE DEF n
    <3> QED BY <2>1, <3>1 DEF Taking, Flow
  <2>3. Flow(s, e) = 0 /\ Taking(qs, e) \in Int /\ Times(bag, e) = Once(F, e) + Taking(qs, e)
    BY TakingType DEF Good, Paired, Balanced
  <2> QED BY <2>2, <2>3
<1>6. \A r \in R : InRing(n, r)
  <2> SUFFICES ASSUME NEW r \in R, NEW p \in Pipes PROVE Below(n[p], p, r.a, r.b, r.most[p])
    BY DEF InRing
  <2> DEFINE m == r.most[p]  t == qs[p]  u == OfPipe(s, p)
  <2>1. m \in Nat
    BY DEF RingsOf
  <2>2. Below(t, p, r.a, r.b, m) /\ IsSeq(t)
    BY <1>3 DEF Paired, InRing
  <2>3. Below(s, p, r.a, r.b, m) /\ (t = <<>> \/ Pair(s, p, r.a, r.b) <= 0)
    BY DEF Good
  <2>4. Below(u, p, r.a, r.b, m) /\ IsSeq(u) /\ \A e : Total(u, p, e) = Total(s, p, e)
    BY <1>2, <2>3
  <2>5. n[p] = t \o u
    OBVIOUS
  <2> HIDE DEF m, t, u, n
  <2>6. CASE t = <<>>
    <3>1. t \o u = u
      <4>1. PICK X : u \in Seq(X)
        BY <2>4 DEF IsSeq
      <4> QED BY <2>6, <4>1, ConcatEmptySeq
    <3> QED BY <2>4, <2>5, <3>1 DEF m
  <2>7. CASE Pair(s, p, r.a, r.b) <= 0
    <3>1. Total(u, p, r.a) \in Int /\ Total(u, p, r.b) \in Int
      BY <2>4, TakenType
    <3>2. m + Total(u, p, r.a) + Total(u, p, r.b) <= m
      BY <2>1, <2>4, <2>7, <3>1 DEF Pair
    <3>3. Below(t \o u, p, r.a, r.b, m)
      BY <2>1, <2>2, <2>4, <3>2, BelowCat
    <3> QED BY <2>5, <3>3 DEF m
  <2> QED BY <2>3, <2>6, <2>7
<1>7. Events(bag, E)
  BY DEF Paired
<1> QED BY <1>4, <1>5, <1>6, <1>7 DEF Paired

-----------------------------------------------------------------------------
(* A pipe runs, a core issues.                                             *)

LEMMA TimesAfter ==
    ASSUME NEW bag, NEW E, Events(bag, E), NEW waits, NEW sets, waits \subseteq DOMAIN bag, sets \subseteq E
    PROVE  /\ Events((bag (-) SetToBag(waits)) (+) SetToBag(sets), E)
           /\ \A e : Times((bag (-) SetToBag(waits)) (+) SetToBag(sets), e)
                       = Times(bag, e) - Once(waits, e) + Once(sets, e)
<1> DEFINE w == SetToBag(waits)  u == SetToBag(sets)  d == bag (-) w  n == d (+) u
           less(e) == bag[e] - Once(waits, e)
<1>1. DOMAIN w = waits /\ DOMAIN u = sets /\ (\A e \in waits : w[e] = 1) /\ \A e \in sets : u[e] = 1
  BY DEF SetToBag
<1>2. \A e \in DOMAIN bag : bag[e] \in Nat \ {0} /\ e \in E
  BY DEF Events
<1>3. /\ DOMAIN d = {e \in DOMAIN bag : less(e) > 0}
      /\ \A e \in DOMAIN d : d[e] = less(e)
  <2> DEFINE B == [e \in DOMAIN bag |-> IF e \in DOMAIN w THEN bag[e] - w[e] ELSE bag[e]]
  <2>1. DOMAIN B = DOMAIN bag /\ \A e \in DOMAIN bag : B[e] = less(e)
    <3> HIDE DEF w
    <3>1. DOMAIN B = DOMAIN bag
      OBVIOUS
    <3>2. ASSUME NEW e \in DOMAIN bag PROVE B[e] = less(e)
      <4>1. CASE e \in waits
        BY <1>1, <4>1 DEF Once
      <4>2. CASE e \notin waits
        BY <1>1, <1>2, <4>2 DEF Once
      <4> QED BY <4>1, <4>2
    <3> QED BY <3>1, <3>2
  <2>2. d = [e \in {x \in DOMAIN B : B[x] > 0} |-> B[e]]
    <3> HIDE DEF w
    <3> QED BY DEF (-)
  <2> HIDE DEF B, d, less
  <2> QED BY <2>1, <2>2
<1>4. /\ DOMAIN n = DOMAIN d \cup sets
      /\ \A e \in DOMAIN n : n[e] = (IF e \in DOMAIN d THEN d[e] ELSE 0) + (IF e \in sets THEN 1 ELSE 0)
      /\ n = [e \in DOMAIN n |-> n[e]]
  <2> HIDE DEF d, u
  <2> QED BY <1>1 DEF (+)
<1> HIDE DEF n, d, w, u
<1>5. \A e : Times(n, e) = Times(bag, e) - Once(waits, e) + Once(sets, e)
  <2> TAKE e
  <2>1. CASE e \notin DOMAIN bag
    <3>1. e \notin waits /\ e \notin DOMAIN d
      BY <1>3, <2>1
    <3> QED BY <1>4, <2>1, <3>1 DEF Times, Once
  <2>2. CASE e \in DOMAIN bag
    <3>1. less(e) \in Nat /\ bag[e] \in Nat
      BY <1>2, <2>2 DEF Once
    <3>2. CASE less(e) > 0
      <4>1. e \in DOMAIN d /\ d[e] = less(e) /\ e \in DOMAIN n
        BY <1>3, <1>4, <2>2, <3>2
      <4>2. n[e] = less(e) + (IF e \in sets THEN 1 ELSE 0)
        BY <1>4, <4>1
      <4> QED BY <2>2, <3>1, <4>1, <4>2 DEF Times, Once
    <3>3. CASE ~(less(e) > 0)
      <4>1. e \notin DOMAIN d /\ less(e) = 0
        BY <1>3, <3>1, <3>3
      <4>2. Times(n, e) = Once(sets, e)
        BY <1>4, <4>1 DEF Times, Once
      <4> QED BY <2>2, <3>1, <4>1, <4>2 DEF Times, Once
    <3> QED BY <3>2, <3>3
  <2> QED BY <2>1, <2>2
<1>6. Events(n, E)
  <2>1. \A e \in DOMAIN n : n[e] \in Nat \ {0} /\ e \in E
    <3> TAKE e \in DOMAIN n
    <3>1. CASE e \in DOMAIN d
      <4>1. d[e] \in Nat \ {0} /\ e \in E
        BY <1>2, <1>3, <3>1 DEF Once
      <4> QED BY <1>4, <3>1, <4>1
    <3>2. CASE e \notin DOMAIN d
      <4>1. e \in sets
        BY <1>4, <3>2
      <4> QED BY <1>4, <3>2, <4>1
    <3> QED BY <3>1, <3>2
  <2>2. n \in [DOMAIN n -> Nat \ {0}]
    BY <1>4, <2>1
  <2> QED BY <2>1, <2>2 DEF Events
<1> QED BY <1>5, <1>6 DEF n, d, w, u

\* A pipe that runs its next instruction keeps the events in pairs.
LEMMA PairedRun ==
    ASSUME NEW bag, NEW qs, NEW E, NEW F, NEW R, Paired(bag, qs, E, F, R),
           NEW p \in Pipes, qs[p] # <<>>, Head(qs[p]).waits \subseteq DOMAIN bag
    PROVE  Paired((bag (-) SetToBag(Head(qs[p]).waits)) (+) SetToBag(Head(qs[p]).sets),
                  [qs EXCEPT ![p] = Tail(@)], E, F, R)
<1> DEFINE i == Head(qs[p])
           n == [qs EXCEPT ![p] = Tail(@)]
           after == (bag (-) SetToBag(i.waits)) (+) SetToBag(i.sets)
           t == Tail(qs[p])
<1>1. /\ qs = [x \in Pipes |-> qs[x]]
      /\ \A x \in Pipes : IsSeq(qs[x]) /\ Within(qs[x], E) /\ \A k \in 1 .. Len(qs[x]) : qs[x][k].pipe = x
  BY DEF Paired, Queues
<1>2. /\ IsSeq(t) /\ Len(qs[p]) \in Nat \ {0} /\ Len(t) = Len(qs[p]) - 1 /\ i = qs[p][1]
      /\ \A k \in 1 .. Len(t) : t[k] = qs[p][k + 1]
      /\ \A e : Total(qs[p], p, e) = Net(i, p, e) + Total(t, p, e)
      /\ \A a, b, m : Below(qs[p], p, a, b, m) => Below(t, p, a, b, m)
  <2>1. IsSeq(qs[p])
    BY <1>1
  <2> DEFINE h == qs[p][1]
  <2>2. /\ IsSeq(t) /\ Len(qs[p]) \in Nat \ {0} /\ Len(t) = Len(qs[p]) - 1 /\ Head(qs[p]) = h
        /\ \A k \in 1 .. Len(t) : t[k] = qs[p][k + 1]
    BY <2>1, AfterFirst
  <2>3. \A e : Total(qs[p], p, e) = Net(h, p, e) + Total(t, p, e)
    BY <2>1, AfterFirst
  <2>4. \A a, b, m : Below(qs[p], p, a, b, m) => Below(t, p, a, b, m)
    BY <2>1, AfterFirst
  <2>5. i = h
    BY <2>2
  <2> HIDE DEF i, h, t
  <2>6. i = qs[p][1] /\ \A e : Total(qs[p], p, e) = Net(i, p, e) + Total(t, p, e)
    BY <2>3, <2>5 DEF h
  <2> QED BY <2>2, <2>4, <2>6
<1>3. n[p] = t /\ (\A x \in Pipes \ {p} : n[x] = qs[x]) /\ n = [x \in Pipes |-> n[x]]
  BY <1>1
<1>4. i.pipe = p /\ i.waits \cup i.sets \subseteq E
  <2>1. 1 \in 1 .. Len(qs[p])
    BY <1>2
  <2> QED BY <1>1, <1>2, <2>1 DEF Within
<1> HIDE DEF t, n, i
<1>5. Queues(n, E)
  <2>1. Within(t, E) /\ \A k \in 1 .. Len(t) : t[k].pipe = p
    <3>1. \A k \in 1 .. Len(t) : k + 1 \in 1 .. Len(qs[p]) /\ t[k] = qs[p][k + 1]
      BY <1>2
    <3>2. \A k \in 1 .. Len(qs[p]) : qs[p][k].pipe = p /\ qs[p][k].waits \cup qs[p][k].sets \subseteq E
      BY <1>1 DEF Within
    <3> QED BY <3>1, <3>2 DEF Within
  <2>2. ASSUME NEW x \in Pipes
        PROVE  IsSeq(n[x]) /\ Within(n[x], E) /\ \A k \in 1 .. Len(n[x]) : n[x][k].pipe = x
    <3>1. CASE x = p
      BY <1>2, <1>3, <2>1, <3>1
    <3>2. CASE x # p
      <4>1. n[x] = qs[x]
        BY <1>3, <3>2
      <4> QED BY <1>1, <4>1
    <3> QED BY <3>1, <3>2
  <2> QED BY <1>3, <2>2 DEF Queues
<1>6. /\ Events(after, E)
      /\ \A e : Times(after, e) = Times(bag, e) - Once(i.waits, e) + Once(i.sets, e)
  <2>1. Events(bag, E) /\ i.waits \subseteq DOMAIN bag /\ i.sets \subseteq E
    BY <1>4 DEF Paired, i
  <2> QED BY <2>1, TimesAfter
<1> HIDE DEF after
<1>7. Balanced(after, n, E, F)
  <2> SUFFICES ASSUME NEW e \in E PROVE Times(after, e) = Once(F, e) + Taking(n, e)
    BY DEF Balanced
  <2>1. Times(bag, e) = Once(F, e) + Taking(qs, e) /\ Once(F, e) \in Int
    BY DEF Paired, Balanced, Once
  <2>2. Net(i, p, e) = Once(i.waits, e) - Once(i.sets, e) /\ Once(i.waits, e) \in Int /\ Once(i.sets, e) \in Int
    BY <1>4 DEF Net, Once
  <2>3. \A x \in Pipes : Total(n[x], x, e) = Total(qs[x], x, e) - (IF x = p THEN Net(i, p, e) ELSE 0)
                         /\ Total(qs[x], x, e) \in Int /\ Total(n[x], x, e) \in Int
    <3> TAKE x \in Pipes
    <3>0. Total(qs[x], x, e) \in Int /\ Total(n[x], x, e) \in Int
      BY <1>5, TakingType DEF Paired
    <3>1. CASE x = p
      BY <1>2, <1>3, <2>2, <3>0, <3>1
    <3>2. CASE x # p
      <4>1. n[x] = qs[x]
        BY <1>3, <3>2
      <4> QED BY <3>0, <3>2, <4>1
    <3> QED BY <3>1, <3>2
  <2>4. Taking(n, e) = Taking(qs, e) - Net(i, p, e)
    <3>1. "MTE2" \in Pipes /\ "V" \in Pipes /\ "MTE3" \in Pipes /\ (p = "MTE2" \/ p = "V" \/ p = "MTE3")
      BY DEF Pipes
    <3>2. Net(i, p, e) \in Int
      BY <2>2
    <3>3. /\ Total(n["MTE2"], "MTE2", e) = Total(qs["MTE2"], "MTE2", e) - (IF "MTE2" = p THEN Net(i, p, e) ELSE 0)
          /\ Total(n["V"], "V", e) = Total(qs["V"], "V", e) - (IF "V" = p THEN Net(i, p, e) ELSE 0)
          /\ Total(n["MTE3"], "MTE3", e) = Total(qs["MTE3"], "MTE3", e) - (IF "MTE3" = p THEN Net(i, p, e) ELSE 0)
          /\ Total(qs["MTE2"], "MTE2", e) \in Int /\ Total(qs["V"], "V", e) \in Int /\ Total(qs["MTE3"], "MTE3", e) \in Int
      BY <2>3, <3>1
    <3> QED BY <3>1, <3>2, <3>3 DEF Taking
  <2>5. Taking(qs, e) \in Int
    BY TakingType DEF Paired
  <2>6. Times(after, e) = Times(bag, e) - Once(i.waits, e) + Once(i.sets, e)
    BY <1>6
  <2> QED BY <2>1, <2>2, <2>4, <2>5, <2>6
<1>8. \A r \in R : InRing(n, r)
  <2> SUFFICES ASSUME NEW r \in R, NEW x \in Pipes PROVE Below(n[x], x, r.a, r.b, r.most[x])
    BY DEF InRing
  <2>1. Below(qs[x], x, r.a, r.b, r.most[x])
    BY DEF Paired, InRing
  <2>2. CASE x = p
    BY <1>2, <1>3, <2>1, <2>2
  <2>3. CASE x # p
    BY <1>3, <2>1, <2>3
  <2> QED BY <2>2, <2>3
<1>9. Paired(after, n, E, F, R)
  BY <1>5, <1>6, <1>7, <1>8 DEF Paired
<1> QED BY <1>9 DEF after, n, i

\* Between two phases of work, with empty queues, the events may take other rings.
LEMMA PairedElsewhere ==
    ASSUME NEW bag, NEW qs, NEW E, NEW F, NEW R, NEW S, Paired(bag, qs, E, F, R), RingsOf(S, E, F),
           \A p \in Pipes : qs[p] = <<>>
    PROVE  Paired(bag, qs, E, F, S)
<1>1. \A r \in S : InRing(qs, r)
  BY EmptyInRing DEF RingsOf
<1> QED BY <1>1 DEF Paired

-----------------------------------------------------------------------------
(* Lists of a few instructions, from the events they name.                 *)
Is(i, pipe, waits, sets) == i.pipe = pipe /\ i.waits = waits /\ i.sets = sets
Gain(waits, sets, e) == Once(waits, e) - Once(sets, e)

LEMMA GainType == ASSUME NEW w, NEW s, NEW e PROVE Gain(w, s, e) \in -1 .. 1
BY DEF Gain, Once

LEMMA NetIs ==
    ASSUME NEW i, NEW q, NEW w, NEW s, Is(i, q, w, s), NEW p, NEW e
    PROVE  Net(i, p, e) = IF q = p THEN Gain(w, s, e) ELSE 0
BY DEF Is, Net, Gain, Once

LEMMA OneOther ==
    ASSUME NEW i, NEW q, NEW w, NEW s, Is(i, q, w, s), NEW p, p # q, NEW a, NEW b
    PROVE  Fits(<<i>>, p, a, b, 0, 0)
<1>1. Net(i, p, a) = 0 /\ Net(i, p, b) = 0
  BY NetIs
<1> QED BY <1>1, OneList

LEMMA OneThis ==
    ASSUME NEW i, NEW p, NEW w, NEW s, Is(i, p, w, s), NEW a, NEW b, NEW m \in Int, NEW t \in Int,
           0 <= m, Gain(w, s, a) + Gain(w, s, b) <= m, Gain(w, s, a) + Gain(w, s, b) <= t
    PROVE  Fits(<<i>>, p, a, b, m, t)
<1>1. Net(i, p, a) = Gain(w, s, a) /\ Net(i, p, b) = Gain(w, s, b)
  BY NetIs
<1> QED BY <1>1, OneList

LEMMA OneFlow ==
    ASSUME NEW i, NEW q \in Pipes, NEW w, NEW s, Is(i, q, w, s)
    PROVE  /\ IsSeq(<<i>>)
           /\ \A e : Flow(<<i>>, e) = Gain(w, s, e)
           /\ \A E : w \cup s \subseteq E => Within(<<i>>, E)
<1>1. IsSeq(<<i>>) /\ Len(<<i>>) = 1 /\ <<i>>[1] = i
  BY OneList
<1>2. \A e : Flow(<<i>>, e) = Gain(w, s, e)
  <2> TAKE e
  <2>1. \A p : Total(<<i>>, p, e) = IF q = p THEN Gain(w, s, e) ELSE 0
    BY OneList, NetIs
  <2>2. q = "MTE2" \/ q = "V" \/ q = "MTE3"
    BY DEF Pipes
  <2> QED BY <2>1, <2>2, GainType DEF Flow
<1>3. \A E : w \cup s \subseteq E => Within(<<i>>, E)
  BY <1>1 DEF Within, Is
<1> QED BY <1>1, <1>2, <1>3

LEMMA SameAsCat ==
    ASSUME NEW S, NEW a \in Seq(S), NEW b \in Seq(S), NEW s \in Seq(S), Len(s) = Len(a) + Len(b),
           \A i \in 1 .. Len(a) : s[i] = a[i], \A i \in 1 .. Len(b) : s[Len(a) + i] = b[i]
    PROVE  s = a \o b
<1>1. /\ IsSeq(a) /\ IsSeq(b) /\ a \o b \in Seq(S)
      /\ Len(a \o b) = Len(a) + Len(b) /\ Len(a) \in Nat /\ Len(b) \in Nat
  BY ConcatProperties DEF IsSeq
<1>2. /\ \A i \in 1 .. Len(a) : (a \o b)[i] = a[i]
      /\ \A i \in 1 .. Len(b) : (a \o b)[Len(a) + i] = b[i]
  BY <1>1, CatSeq
<1>3. \A i \in 1 .. Len(s) : s[i] = (a \o b)[i]
  <2> TAKE i \in 1 .. Len(s)
  <2>1. CASE i <= Len(a)
    BY <1>1, <1>2, <2>1
  <2>2. CASE i > Len(a)
    <3>1. i - Len(a) \in 1 .. Len(b) /\ Len(a) + (i - Len(a)) = i
      BY <1>1, <2>2
    <3>2. s[i] = b[i - Len(a)] /\ (a \o b)[i] = b[i - Len(a)]
      BY <1>2, <3>1
    <3> QED BY <3>2
  <2> QED BY <1>1, <2>1, <2>2
<1> QED BY <1>1, <1>3, SeqEqual

LEMMA ListCatTwo == ASSUME NEW x, NEW y PROVE <<x, y>> = <<x>> \o <<y>>
<1> DEFINE S == {x, y}  a == <<x>>  b == <<y>>  s == <<x, y>>
<1>1. s \in Seq(S) /\ Len(s) = 2 /\ s[1] = x /\ s[2] = y
  OBVIOUS
<1>2. /\ a \in Seq(S) /\ b \in Seq(S) /\ Len(a) = 1 /\ Len(b) = 1 /\ b[1] = y
      /\ a[1] = x
  OBVIOUS
<1> HIDE DEF S, a, b, s
<1>3. \A i \in 1 .. Len(a) : s[i] = a[i]
  <2>1. \A i \in 1 .. Len(a) : i = 1
    BY <1>2
  <2> QED BY <1>1, <1>2, <2>1
<1>4. \A i \in 1 .. Len(b) : s[Len(a) + i] = b[i]
  <2>1. \A i \in 1 .. Len(b) : i = 1 /\ Len(a) + i = 2
    BY <1>2
  <2> QED BY <1>1, <1>2, <2>1
<1>5. Len(s) = Len(a) + Len(b)
  BY <1>1, <1>2
<1>6. s = a \o b
  BY <1>1, <1>2, <1>3, <1>4, <1>5, SameAsCat
<1> QED BY <1>6 DEF s, a, b

LEMMA ListCatThree == ASSUME NEW x, NEW y, NEW z PROVE <<x, y, z>> = <<x, y>> \o <<z>>
<1> DEFINE S == {x, y, z}  a == <<x, y>>  b == <<z>>  s == <<x, y, z>>
<1>1. s \in Seq(S) /\ Len(s) = 3 /\ s[1] = x /\ s[2] = y /\ s[3] = z
  OBVIOUS
<1>2. /\ a \in Seq(S) /\ b \in Seq(S) /\ Len(a) = 2 /\ Len(b) = 1 /\ b[1] = z
      /\ a[1] = x /\ a[2] = y
  OBVIOUS
<1> HIDE DEF S, a, b, s
<1>3. \A i \in 1 .. Len(a) : s[i] = a[i]
  <2>1. \A i \in 1 .. Len(a) : i = 1 \/ i = 2
    BY <1>2
  <2> QED BY <1>1, <1>2, <2>1
<1>4. \A i \in 1 .. Len(b) : s[Len(a) + i] = b[i]
  <2>1. \A i \in 1 .. Len(b) : i = 1 /\ Len(a) + i = 3
    BY <1>2
  <2> QED BY <1>1, <1>2, <2>1
<1>5. Len(s) = Len(a) + Len(b)
  BY <1>1, <1>2
<1>6. s = a \o b
  BY <1>1, <1>2, <1>3, <1>4, <1>5, SameAsCat
<1> QED BY <1>6 DEF s, a, b

LEMMA ListCatFour == ASSUME NEW x, NEW y, NEW z, NEW w PROVE <<x, y, z, w>> = <<x, y, z>> \o <<w>>
<1> DEFINE S == {x, y, z, w}  a == <<x, y, z>>  b == <<w>>  s == <<x, y, z, w>>
<1>1. s \in Seq(S) /\ Len(s) = 4 /\ s[1] = x /\ s[2] = y /\ s[3] = z /\ s[4] = w
  OBVIOUS
<1>2. /\ a \in Seq(S) /\ b \in Seq(S) /\ Len(a) = 3 /\ Len(b) = 1 /\ b[1] = w
      /\ a[1] = x /\ a[2] = y /\ a[3] = z
  OBVIOUS
<1> HIDE DEF S, a, b, s
<1>3. \A i \in 1 .. Len(a) : s[i] = a[i]
  <2>1. \A i \in 1 .. Len(a) : i = 1 \/ i = 2 \/ i = 3
    BY <1>2
  <2> QED BY <1>1, <1>2, <2>1
<1>4. \A i \in 1 .. Len(b) : s[Len(a) + i] = b[i]
  <2>1. \A i \in 1 .. Len(b) : i = 1 /\ Len(a) + i = 4
    BY <1>2
  <2> QED BY <1>1, <1>2, <2>1
<1>5. Len(s) = Len(a) + Len(b)
  BY <1>1, <1>2
<1>6. s = a \o b
  BY <1>1, <1>2, <1>3, <1>4, <1>5, SameAsCat
<1> QED BY <1>6 DEF s, a, b

\* Of a ring, no pipe takes from the list as a whole, and from no place on more than its part.
LEMMA GoodFrom ==
    ASSUME NEW s, NEW qs, NEW E, NEW R, IsSeq(s), Within(s, E), \A e \in E : Flow(s, e) = 0,
           \A r \in R, p \in Pipes : Fits(s, p, r.a, r.b, r.most[p], 0)
    PROVE  Good(s, qs, E, R)
BY DEF Good, Fits

LEMMA GoodNothing ==
    ASSUME NEW qs, NEW E, NEW F, NEW R, RingsOf(R, E, F)
    PROVE  Good(<<>>, qs, E, R)
<1>1. IsSeq(<<>>) /\ Len(<<>>) = 0 /\ \A e : Flow(<<>>, e) = 0
  BY EmptyList
<1>2. Within(<<>>, E)
  BY <1>1 DEF Within
<1>3. ASSUME NEW r \in R, NEW p \in Pipes PROVE Fits(<<>>, p, r.a, r.b, r.most[p], 0)
  <2>1. r.most[p] \in Int /\ 0 <= r.most[p]
    BY DEF RingsOf
  <2>2. Fits(<<>>, p, r.a, r.b, 0, 0)
    BY EmptyList
  <2> QED BY <2>1, <2>2, FitsMore
<1> QED BY <1>1, <1>2, <1>3, GoodFrom

-----------------------------------------------------------------------------
(* The dequantising epilogue: the events of its queues.                    *)
Staged == {<<"x2", 0>>, <<"x1", 0>>, <<"bias", 0>>}
Slots == Staged \cup {<<"out", 0>>, <<"out", 1>>}
FreeOf(s) == <<"free", s[1], s[2]>>
ReadyOf(s) == <<"ready", s[1], s[2]>>

DequantEvents == {FreeOf(s) : s \in Slots} \cup {ReadyOf(s) : s \in Slots}
DequantFree == {FreeOf(s) : s \in Slots}
DequantRings == {Ring(FreeOf(s), ReadyOf(s), 0, 0, 0) : s \in Slots}

LEMMA SlotEvents ==
    \A s, t \in Slots : /\ FreeOf(s) = FreeOf(t) <=> s = t
                        /\ ReadyOf(s) = ReadyOf(t) <=> s = t
                        /\ FreeOf(s) # ReadyOf(t)
<1> SUFFICES ASSUME NEW s \in Slots, NEW t \in Slots
             PROVE  /\ FreeOf(s) = FreeOf(t) <=> s = t
                    /\ ReadyOf(s) = ReadyOf(t) <=> s = t
                    /\ FreeOf(s) # ReadyOf(t)
  OBVIOUS
<1>1. s = <<s[1], s[2]>> /\ t = <<t[1], t[2]>>
  BY DEF Slots, Staged
<1> QED BY <1>1 DEF FreeOf, ReadyOf

LEMMA RingFields ==
    ASSUME NEW a, NEW b, NEW x, NEW y, NEW z
    PROVE  LET r == Ring(a, b, x, y, z) IN
           /\ r.a = a /\ r.b = b
           /\ \A p \in Pipes : r.most[p] = IF p = "MTE2" THEN x ELSE IF p = "V" THEN y ELSE z
           /\ Most(r) = x + y + z
           /\ x \in Nat /\ y \in Nat /\ z \in Nat => r.most \in [Pipes -> Nat]
<1> DEFINE r == Ring(a, b, x, y, z)
<1>1. r.a = a /\ r.b = b /\ r.most = [p \in Pipes |-> IF p = "MTE2" THEN x ELSE IF p = "V" THEN y ELSE z]
  BY DEF Ring
<1>2. r.most["MTE2"] = x /\ r.most["V"] = y /\ r.most["MTE3"] = z
  BY <1>1 DEF Pipes
<1> HIDE DEF r
<1> QED BY <1>1, <1>2 DEF Most, r

LEMMA DequantRingsGoAround == RingsOf(DequantRings, DequantEvents, DequantFree)
<1> DEFINE E == DequantEvents  F == DequantFree
<1>1. F \subseteq E
  BY DEF DequantEvents, DequantFree
<1>2. ASSUME NEW s \in Slots
      PROVE  FreeOf(s) \in E /\ ReadyOf(s) \in E /\ FreeOf(s) # ReadyOf(s)
             /\ Once(F, FreeOf(s)) = 1 /\ Once(F, ReadyOf(s)) = 0
  <2>1. FreeOf(s) \in F /\ ReadyOf(s) \notin F
    BY SlotEvents DEF DequantFree
  <2> QED BY <2>1, SlotEvents DEF DequantEvents, Once
<1>3. ASSUME NEW r \in DequantRings
      PROVE  /\ r.a \in E /\ r.b \in E /\ r.a # r.b /\ r.most \in [Pipes -> Nat]
             /\ Once(F, r.a) + Once(F, r.b) + Most(r) <= 1
  <2>1. PICK s \in Slots : r = Ring(FreeOf(s), ReadyOf(s), 0, 0, 0)
    BY DEF DequantRings
  <2>2. r.a = FreeOf(s) /\ r.b = ReadyOf(s) /\ Most(r) = 0 + 0 + 0 /\ r.most \in [Pipes -> Nat]
    BY <2>1, RingFields
  <2> QED BY <1>2, <2>2
<1>4. ASSUME NEW e \in E PROVE \E r \in DequantRings : e \in {r.a, r.b}
  <2>1. PICK s \in Slots : e = FreeOf(s) \/ e = ReadyOf(s)
    BY DEF DequantEvents
  <2> DEFINE r == Ring(FreeOf(s), ReadyOf(s), 0, 0, 0)
  <2>2. r \in DequantRings /\ r.a = FreeOf(s) /\ r.b = ReadyOf(s)
    BY RingFields DEF DequantRings
  <2> HIDE DEF r
  <2> QED BY <2>1, <2>2
<1> QED BY <1>1, <1>3, <1>4 DEF RingsOf

\* A list that is right for every buffer of a queue.
DequantGood(s, d) ==
    /\ IsSeq(s) /\ Within(s, DequantEvents)
    /\ \A x \in Slots :
         /\ Flow(s, FreeOf(x)) = 0 /\ Flow(s, ReadyOf(x)) = 0
         /\ \A p \in Pipes : Fits(s, p, FreeOf(x), ReadyOf(x), 0, d)

LEMMA DequantGoodIs ==
    ASSUME NEW s, DequantGood(s, 0), NEW qs
    PROVE  Good(s, qs, DequantEvents, DequantRings)
<1>1. ASSUME NEW e \in DequantEvents PROVE Flow(s, e) = 0
  <2>1. PICK x \in Slots : e = FreeOf(x) \/ e = ReadyOf(x)
    BY DEF DequantEvents
  <2> QED BY <2>1 DEF DequantGood
<1>2. ASSUME NEW r \in DequantRings, NEW p \in Pipes PROVE Fits(s, p, r.a, r.b, r.most[p], 0)
  <2>1. PICK x \in Slots : r = Ring(FreeOf(x), ReadyOf(x), 0, 0, 0)
    BY DEF DequantRings
  <2>2. r.a = FreeOf(x) /\ r.b = ReadyOf(x) /\ r.most[p] = 0
    BY <2>1, RingFields
  <2> QED BY <2>2 DEF DequantGood
<1> QED BY <1>1, <1>2, GoodFrom DEF DequantGood

LEMMA DequantInstrs ==
    ASSUME NEW c, NEW o, NEW call, NEW buf, NEW first, NEW rows, NEW n, NEW waits, NEW at
    PROVE  /\ Is(Dequant!MatmulResult(c, o, call), "V", {}, {})
           /\ Is(Dequant!VFDoDequant(o, buf, first, rows, n, waits), "V", waits, {ReadyOf(<<"out", buf>>)})
           /\ Is(Dequant!CopyDequantResFromUb2Gm(o, buf, at, rows, n), "MTE3",
                 {ReadyOf(<<"out", buf>>)}, {FreeOf(<<"out", buf>>)})
           /\ Is(Dequant!FreeUbTensor(o), "V", {}, {FreeOf(<<q, 0>>) : q \in Dequant!StagedQueues(o)})
BY DEF Is, FreeOf, ReadyOf, Dequant!MatmulResult, Dequant!VFDoDequant, Dequant!CopyDequantResFromUb2Gm,
       Dequant!FreeUbTensor, Dequant!Compute, Dequant!CopyOut, Dequant!Instr, Dequant!Free, Dequant!Ready

\* The copies of the inputs that are staged.
Copied(St, q, i) == IF q \in St THEN <<i>> ELSE <<>>

LEMMA CopiedIs ==
    ASSUME NEW St, NEW q, <<q, 0>> \in Staged, NEW i,
           Is(i, "MTE2", {FreeOf(<<q, 0>>)}, {ReadyOf(<<q, 0>>)})
    PROVE  /\ IsSeq(Copied(St, q, i)) /\ Within(Copied(St, q, i), DequantEvents)
           /\ \A x \in Slots :
                LET g == IF q \in St /\ x = <<q, 0>> THEN 1 ELSE 0
                IN  /\ Flow(Copied(St, q, i), FreeOf(x)) = g /\ Flow(Copied(St, q, i), ReadyOf(x)) = 0 - g
                    /\ \A p \in Pipes : Fits(Copied(St, q, i), p, FreeOf(x), ReadyOf(x), 0, 0)
<1>1. CASE q \notin St
  <2>1. Copied(St, q, i) = <<>> /\ Len(<<>>) = 0
    BY <1>1 DEF Copied
  <2>2. IsSeq(<<>>) /\ Within(<<>>, DequantEvents)
        /\ \A x \in Slots : Flow(<<>>, FreeOf(x)) = 0 /\ Flow(<<>>, ReadyOf(x)) = 0
    <3>1. Within(<<>>, DequantEvents)
      BY <2>1 DEF Within
    <3>2. IsSeq(<<>>) /\ \A e : Flow(<<>>, e) = 0
      BY EmptyList
    <3> QED BY <3>1, <3>2
  <2>3. \A x \in Slots, p \in Pipes : Fits(<<>>, p, FreeOf(x), ReadyOf(x), 0, 0)
    BY EmptyList
  <2> QED BY <1>1, <2>1, <2>2, <2>3
<1>2. CASE q \in St
  <2> DEFINE u == <<q, 0>>
  <2>1. u \in Slots /\ Copied(St, q, i) = <<i>>
    BY <1>2 DEF Copied, Slots
  <2>2. "MTE2" \in Pipes /\ {FreeOf(u)} \cup {ReadyOf(u)} \subseteq DequantEvents
    BY <2>1 DEF Pipes, DequantEvents
  <2> HIDE DEF u
  <2>3. Is(i, "MTE2", {FreeOf(u)}, {ReadyOf(u)})
    BY DEF u
  <2>4. IsSeq(<<i>>) /\ Within(<<i>>, DequantEvents) /\ \A e : Flow(<<i>>, e) = Gain({FreeOf(u)}, {ReadyOf(u)}, e)
    BY <2>2, <2>3, OneFlow
  <2>5. ASSUME NEW x \in Slots
        PROVE  /\ Gain({FreeOf(u)}, {ReadyOf(u)}, FreeOf(x)) = IF x = u THEN 1 ELSE 0
               /\ Gain({FreeOf(u)}, {ReadyOf(u)}, ReadyOf(x)) = 0 - (IF x = u THEN 1 ELSE 0)
    <3>1. /\ FreeOf(x) = FreeOf(u) <=> x = u
          /\ ReadyOf(x) = ReadyOf(u) <=> x = u
          /\ FreeOf(x) # ReadyOf(u) /\ ReadyOf(x) # FreeOf(u)
      BY <2>1, SlotEvents
    <3> HIDE DEF u
    <3> QED BY <3>1 DEF Gain, Once
  <2>6. \A x \in Slots, p \in Pipes : Fits(<<i>>, p, FreeOf(x), ReadyOf(x), 0, 0)
    <3> TAKE x \in Slots, p \in Pipes
    <3>1. CASE p # "MTE2"
      BY <2>3, <3>1, OneOther
    <3>2. CASE p = "MTE2"
      <4>1. Gain({FreeOf(u)}, {ReadyOf(u)}, FreeOf(x)) + Gain({FreeOf(u)}, {ReadyOf(u)}, ReadyOf(x)) = 0
        BY <2>5
      <4> QED BY <2>3, <3>2, <4>1, OneThis
    <3> QED BY <3>1, <3>2
  <2> QED BY <1>2, <2>1, <2>4, <2>5, <2>6 DEF u
<1> QED BY <1>1, <1>2

\* One slice: V waits for the output buffer and, in the first slice, for the copies; MTE3 empties the buffer.
LEMMA SliceIs ==
    ASSUME NEW St \in SUBSET Staged, NEW u \in {<<"out", 0>>, <<"out", 1>>}, NEW i, NEW k,
           Is(i, "V", {FreeOf(u)} \cup {ReadyOf(q) : q \in St}, {ReadyOf(u)}),
           Is(k, "MTE3", {ReadyOf(u)}, {FreeOf(u)})
    PROVE  /\ IsSeq(<<i, k>>) /\ Within(<<i, k>>, DequantEvents)
           /\ \A x \in Slots :
                LET g == IF x \in St THEN 1 ELSE 0
                IN  /\ Flow(<<i, k>>, FreeOf(x)) = 0 /\ Flow(<<i, k>>, ReadyOf(x)) = g
                    /\ \A p \in Pipes :
                         LET h == IF p = "V" THEN g ELSE 0
                         IN  Fits(<<i, k>>, p, FreeOf(x), ReadyOf(x), h, h)
<1> DEFINE w == {FreeOf(u)} \cup {ReadyOf(q) : q \in St}  ru == {ReadyOf(u)}  fu == {FreeOf(u)}
<1>1. u \in Slots /\ u \notin St /\ St \subseteq Slots
  BY DEF Slots, Staged
<1>2. /\ "V" \in Pipes /\ "MTE3" \in Pipes
      /\ w \cup ru \subseteq DequantEvents /\ ru \cup fu \subseteq DequantEvents
  BY <1>1 DEF Pipes, DequantEvents
<1>3. <<i, k>> = <<i>> \o <<k>>
  BY ListCatTwo
<1>4. ASSUME NEW x \in Slots
      PROVE  /\ Gain(w, ru, FreeOf(x)) = IF x = u THEN 1 ELSE 0
             /\ Gain(w, ru, ReadyOf(x)) = IF x = u THEN 0 - 1 ELSE IF x \in St THEN 1 ELSE 0
             /\ Gain(ru, fu, FreeOf(x)) = IF x = u THEN 0 - 1 ELSE 0
             /\ Gain(ru, fu, ReadyOf(x)) = IF x = u THEN 1 ELSE 0
  <2>1. \A t \in Slots : /\ FreeOf(x) = FreeOf(t) <=> x = t
                         /\ ReadyOf(x) = ReadyOf(t) <=> x = t
                         /\ FreeOf(x) # ReadyOf(t) /\ ReadyOf(x) # FreeOf(t)
    BY SlotEvents
  <2>2. FreeOf(x) \in w <=> x = u
    BY <1>1, <2>1
  <2>3. ReadyOf(x) \in w <=> x \in St
    BY <1>1, <2>1
  <2> HIDE DEF w
  <2> QED BY <1>1, <2>1, <2>2, <2>3 DEF Gain, Once
<1>5. Is(i, "V", w, ru) /\ Is(k, "MTE3", ru, fu)
  OBVIOUS
<1> HIDE DEF w, ru, fu
<1>6. /\ IsSeq(<<i>>) /\ Within(<<i>>, DequantEvents) /\ \A e : Flow(<<i>>, e) = Gain(w, ru, e)
      /\ IsSeq(<<k>>) /\ Within(<<k>>, DequantEvents)
      /\ \A e : Flow(<<k>>, e) = Gain(ru, fu, e)
  <2>1. IsSeq(<<i>>) /\ Within(<<i>>, DequantEvents) /\ \A e : Flow(<<i>>, e) = Gain(w, ru, e)
    BY ONLY <1>2, <1>5, OneFlow
  <2>2. IsSeq(<<k>>) /\ Within(<<k>>, DequantEvents) /\ \A e : Flow(<<k>>, e) = Gain(ru, fu, e)
    BY ONLY <1>2, <1>5, OneFlow
  <2> QED BY <2>1, <2>2
<1>7. IsSeq(<<i>> \o <<k>>) /\ Within(<<i>> \o <<k>>, DequantEvents)
  BY <1>6, CatSeq, WithinCat
<1>8. ASSUME NEW x \in Slots
      PROVE  /\ Flow(<<i>> \o <<k>>, FreeOf(x)) = 0
             /\ Flow(<<i>> \o <<k>>, ReadyOf(x)) = IF x \in St THEN 1 ELSE 0
  <2>1. \A e : Flow(<<i>> \o <<k>>, e) = Gain(w, ru, e) + Gain(ru, fu, e)
    <3> TAKE e
    <3>1. Flow(<<i>> \o <<k>>, e) = Flow(<<i>>, e) + Flow(<<k>>, e)
      BY <1>6, FlowCat
    <3> QED BY <1>6, <3>1
  <2>2. x = u => x \notin St
    BY <1>1
  <2>3. Flow(<<i>> \o <<k>>, FreeOf(x)) = Gain(w, ru, FreeOf(x)) + Gain(ru, fu, FreeOf(x))
    BY <2>1
  <2>4. Flow(<<i>> \o <<k>>, ReadyOf(x)) = Gain(w, ru, ReadyOf(x)) + Gain(ru, fu, ReadyOf(x))
    BY <2>1
  <2> QED BY <1>4, <2>2, <2>3, <2>4
<1>9. ASSUME NEW x \in Slots, NEW p \in Pipes, NEW h \in Int, h = IF p = "V" /\ x \in St THEN 1 ELSE 0
      PROVE  Fits(<<i>> \o <<k>>, p, FreeOf(x), ReadyOf(x), h, h)
  <2>1. Fits(<<i>>, p, FreeOf(x), ReadyOf(x), h, h)
    <3>1. CASE p # "V"
      BY <1>5, <1>9, <3>1, OneOther
    <3>2. CASE p = "V"
      <4>1. Gain(w, ru, FreeOf(x)) + Gain(w, ru, ReadyOf(x)) = h /\ 0 <= h
        BY <1>1, <1>4, <1>9, <3>2
      <4>2. Is(i, p, w, ru)
        BY <1>5, <3>2
      <4> QED BY ONLY <4>1, <4>2, <1>9, OneThis
    <3> QED BY <3>1, <3>2
  <2>2. Fits(<<k>>, p, FreeOf(x), ReadyOf(x), 0, 0)
    <3>1. CASE p # "MTE3"
      BY <1>5, <3>1, OneOther
    <3>2. CASE p = "MTE3"
      <4>1. Gain(ru, fu, FreeOf(x)) + Gain(ru, fu, ReadyOf(x)) = 0
        BY <1>4
      <4>2. Is(k, p, ru, fu)
        BY <1>5, <3>2
      <4> QED BY ONLY <4>1, <4>2, OneThis
    <3> QED BY <3>1, <3>2
  <2>3. 0 <= h
    BY <1>9
  <2>4. Fits(<<k>>, p, FreeOf(x), ReadyOf(x), h, 0)
    BY <2>2, <2>3, FitsMore
  <2>5. Fits(<<i>> \o <<k>>, p, FreeOf(x), ReadyOf(x), h, h + 0)
    BY <2>1, <2>4, FitsCat
  <2> QED BY <2>5
<1>10. \A x \in Slots, p \in Pipes :
         LET h == IF p = "V" THEN IF x \in St THEN 1 ELSE 0 ELSE 0
         IN  Fits(<<i>> \o <<k>>, p, FreeOf(x), ReadyOf(x), h, h)
  BY <1>9
<1> QED BY <1>3, <1>7, <1>8, <1>10

\* At the end V gives the staged buffers back.
LEMMA FreedIs ==
    ASSUME NEW St \in SUBSET Staged, NEW i, Is(i, "V", {}, {FreeOf(q) : q \in St})
    PROVE  /\ IsSeq(<<i>>) /\ Within(<<i>>, DequantEvents)
           /\ \A x \in Slots :
                LET g == IF x \in St THEN 1 ELSE 0
                IN  /\ Flow(<<i>>, FreeOf(x)) = 0 - g /\ Flow(<<i>>, ReadyOf(x)) = 0
                    /\ \A p \in Pipes :
                         LET h == IF p = "V" THEN g ELSE 0
                         IN  Fits(<<i>>, p, FreeOf(x), ReadyOf(x), 0, 0 - h)
<1> DEFINE s == {FreeOf(q) : q \in St}
<1>1. St \subseteq Slots /\ "V" \in Pipes
  BY DEF Slots, Pipes
<1>2. {} \cup s \subseteq DequantEvents
  BY <1>1 DEF DequantEvents
<1>3. ASSUME NEW x \in Slots
      PROVE  /\ Gain({}, s, FreeOf(x)) = 0 - (IF x \in St THEN 1 ELSE 0)
             /\ Gain({}, s, ReadyOf(x)) = 0
  <2>1. FreeOf(x) \in s <=> x \in St
    BY <1>1, SlotEvents
  <2>2. ReadyOf(x) \notin s
    BY <1>1, SlotEvents
  <2> HIDE DEF s
  <2> QED BY <2>1, <2>2 DEF Gain, Once
<1> HIDE DEF s
<1>4. Is(i, "V", {}, s)
  BY DEF s
<1>5. IsSeq(<<i>>) /\ Within(<<i>>, DequantEvents) /\ \A e : Flow(<<i>>, e) = Gain({}, s, e)
  BY <1>1, <1>2, <1>4, OneFlow
<1>6. ASSUME NEW x \in Slots, NEW p \in Pipes, NEW h \in Int, h = IF p = "V" /\ x \in St THEN 1 ELSE 0
      PROVE  Fits(<<i>>, p, FreeOf(x), ReadyOf(x), 0, 0 - h)
  <2>1. CASE p # "V"
    BY <1>4, <1>6, <2>1, OneOther
  <2>2. CASE p = "V"
    <3>1. Gain({}, s, FreeOf(x)) + Gain({}, s, ReadyOf(x)) = 0 - h /\ 0 <= h
      BY <1>3, <1>6, <2>2
    <3> QED BY <1>4, <2>2, <3>1, OneThis
  <2> QED BY <2>1, <2>2
<1> QED BY <1>3, <1>5, <1>6

-----------------------------------------------------------------------------
(* The dequantising epilogue's whole run.                                  *)

LEMMA NothingGained == \A e : Gain({}, {}, e) = 0
BY DEF Gain, Once

LEMMA CeilDivType ==
    ASSUME NEW a \in Nat, NEW b \in Positive
    PROVE  CeilDiv(a, b) \in Nat /\ (a # 0 => CeilDiv(a, b) >= 1)
<1> DEFINE x == a + b - 1  q == x \div b  r == x % b
<1>1. x \in Nat /\ b \in Nat /\ b >= 1
  BY DEF Positive
<1>2. CeilDiv(a, b) = q
  BY DEF CeilDiv
<1>3. q \in Nat /\ r \in 0 .. b - 1 /\ x = b * q + r
  <2> HIDE DEF x
  <2> QED BY <1>1, DivMod
<1>4. ASSUME a # 0, q = 0 PROVE FALSE
  <2>1. x >= b
    BY <1>1, <1>4
  <2>2. b * q = 0
    BY <1>1, <1>4
  <2> HIDE DEF x, q, r
  <2> QED BY <1>1, <1>3, <2>1, <2>2
<1> HIDE DEF x, q, r
<1> QED BY <1>2, <1>3, <1>4

LEMMA SliceNumber ==
    ASSUME NEW total \in Nat, total # 0
    PROVE  Len(Dequant!Slices(total)) \in Nat /\ Len(Dequant!Slices(total)) >= 1
<1> DEFINE l == Dequant!Least(total, 4)
           rows == Dequant!SliceRows(total)
           number == Dequant!Least(l, Dequant!CeilDiv(total, rows))
           S == Dequant!Slices(total)
<1>1. \A a, b : Dequant!Least(a, b) = Least(a, b) /\ Dequant!CeilDiv(a, b) = CeilDiv(a, b)
  BY DEF Dequant!Least, Least, Dequant!CeilDiv, CeilDiv
<1>2. l \in 1 .. 4 /\ l \in Positive
  BY DEF Dequant!Least, Positive
<1>3. rows = CeilDiv(total, l)
  BY <1>1 DEF Dequant!SliceRows
<1> HIDE DEF l
<1>4. rows \in Positive
  BY <1>2, <1>3, CeilDivType DEF Positive
<1> HIDE DEF rows
<1>5. CeilDiv(total, rows) \in Nat /\ CeilDiv(total, rows) >= 1
  BY <1>4, CeilDivType
<1>6. number \in Nat /\ number >= 1
  BY <1>1, <1>2, <1>5 DEF Least
<1>7. S = [i \in 1 .. number |->
             LET first == (i - 1) * rows
             IN  [first |-> first, rows |-> Dequant!Least(rows, total - first)]]
  BY DEF Dequant!Slices, rows, l
<1> HIDE DEF number
<1>8. S = [i \in 1 .. number |-> S[i]]
  <2> HIDE DEF S
  <2> QED BY <1>7
<1> HIDE DEF S
<1>9. Len(S) = number
  BY <1>6, <1>8, SeqMade
<1> QED BY <1>6, <1>9 DEF S

LEMMA DequantHalf ==
    \A c, m : Dequant!SingleMInVec(c, m) = SingleMInVec(c, m) /\ Dequant!HalfSingleM(m) = HalfSingleM(m)
BY DEF SingleMInVec, Dequant!SingleMInVec, HalfSingleM, Dequant!HalfSingleM, CeilDiv, Dequant!CeilDiv,
       Cardinality, Dequant!Cardinality

\* What Run issues: the block, the staged inputs, the slices, the buffers given back.
LEMMA RunList ==
    ASSUME NEW c, NEW o, NEW call, SingleMInVec(c, call.m) \in Nat, SingleMInVec(c, call.m) # 0,
           o.outBuf \in Int
    PROVE  DequantGood(Dequant!RunInstrs(c, o, call), 0)
<1> DEFINE total == Dequant!SingleMInVec(c, call.m)
           mOffset == c * Dequant!HalfSingleM(call.m)
           slices == Dequant!Slices(total)
           buf(i) == (o.outBuf + i - 1) % 2
           SQ == Dequant!StagedQueues(o)
           St == {<<q, 0>> : q \in SQ}
           slice(i) ==
             << Dequant!VFDoDequant(o, buf(i), slices[i].first, slices[i].rows, call.n,
                  {Dequant!Free("out", buf(i))} \cup
                  (IF i = 1 THEN {Dequant!Ready(q, 0) : q \in SQ} ELSE {})),
                Dequant!CopyDequantResFromUb2Gm(o, buf(i),
                  call.coord.y + ((mOffset + slices[i].first) * o.n), slices[i].rows, call.n) >>
           pieces == [i \in 1 .. Len(slices) |-> slice(i)]
           mm == Dequant!MatmulResult(c, o, call)
           C == Dequant!CopyDataFromGm2Ub(c, o, call)
           Fl == FlattenSeq(pieces)
           fr == Dequant!FreeUbTensor(o)
<1>1. Dequant!RunInstrs(c, o, call) = ((<<mm>> \o C) \o Fl) \o <<fr>>
  <2>1. \A f : Dequant!FlattenSeq(f) = FlattenSeq(f)
    BY DEF Dequant!FlattenSeq, FlattenSeq
  <2>2. Dequant!RunInstrs(c, o, call) = ((<<mm>> \o C) \o Dequant!FlattenSeq(pieces)) \o <<fr>>
    BY DEF Dequant!RunInstrs
  <2> HIDE DEF pieces
  <2> QED BY <2>1, <2>2
<1>2. total \in Nat /\ total # 0
  <2>1. total = SingleMInVec(c, call.m)
    BY DequantHalf
  <2> HIDE DEF total
  <2> QED BY <2>1
<1>3. Len(slices) \in Nat /\ Len(slices) >= 1
  <2> HIDE DEF total
  <2> QED BY <1>2, SliceNumber
<1>4. St \in SUBSET Staged /\ SQ \subseteq {"x2", "x1", "bias"}
  BY DEF Dequant!StagedQueues, Staged
<1>5. /\ IsSeq(pieces) /\ Len(pieces) = Len(slices) /\ \A i \in 1 .. Len(slices) : pieces[i] = slice(i)
  <2>1. pieces = [i \in 1 .. Len(slices) |-> pieces[i]] /\ \A i \in 1 .. Len(slices) : pieces[i] = slice(i)
    OBVIOUS
  <2> HIDE DEF pieces, slices
  <2> QED BY <1>3, <2>1, SeqMade
<1> DEFINE g(x) == IF x \in St THEN 1 ELSE 0
           h(x, p) == IF p = "V" THEN g(x) ELSE 0
           n == Len(slices)
           SliceGood(t, S) ==
             /\ IsSeq(t) /\ Within(t, DequantEvents)
             /\ \A x \in Slots :
                  /\ Flow(t, FreeOf(x)) = 0 /\ Flow(t, ReadyOf(x)) = (IF x \in S THEN 1 ELSE 0)
                  /\ \A p \in Pipes :
                       Fits(t, p, FreeOf(x), ReadyOf(x),
                            IF p = "V" THEN (IF x \in S THEN 1 ELSE 0) ELSE 0,
                            IF p = "V" THEN (IF x \in S THEN 1 ELSE 0) ELSE 0)
<1>6. ASSUME NEW i \in 1 .. n PROVE SliceGood(pieces[i], IF i = 1 THEN St ELSE {})
  <2> DEFINE b == buf(i)  u == <<"out", b>>  S == IF i = 1 THEN St ELSE {}
             W == {Dequant!Free("out", b)} \cup (IF i = 1 THEN {Dequant!Ready(q, 0) : q \in SQ} ELSE {})
             x == Dequant!VFDoDequant(o, b, slices[i].first, slices[i].rows, call.n, W)
             y == Dequant!CopyDequantResFromUb2Gm(o, b,
                    call.coord.y + ((mOffset + slices[i].first) * o.n), slices[i].rows, call.n)
  <2>1. b \in {0, 1}
    <3>1. o.outBuf + i - 1 \in Int
      BY <1>3
    <3> QED BY <3>1
  <2>2. pieces[i] = <<x, y>>
    BY <1>5
  <2> HIDE DEF b, pieces, slices, mOffset
  <2>3. u \in {<<"out", 0>>, <<"out", 1>>} /\ S \in SUBSET Staged
    BY <1>4, <2>1
  <2>4. W = {FreeOf(u)} \cup {ReadyOf(q) : q \in S}
    <3>1. Dequant!Free("out", b) = FreeOf(u) /\ \A q : Dequant!Ready(q, 0) = ReadyOf(<<q, 0>>)
      BY DEF Dequant!Free, Dequant!Ready, FreeOf, ReadyOf
    <3>2. {Dequant!Ready(q, 0) : q \in SQ} = {ReadyOf(q) : q \in St}
      BY <3>1
    <3> HIDE DEF SQ, St
    <3> QED BY <3>1, <3>2
  <2> HIDE DEF W
  <2>5. Is(x, "V", {FreeOf(u)} \cup {ReadyOf(q) : q \in S}, {ReadyOf(u)}) /\ Is(y, "MTE3", {ReadyOf(u)}, {FreeOf(u)})
    <3>1. Is(x, "V", W, {ReadyOf(u)}) /\ Is(y, "MTE3", {ReadyOf(u)}, {FreeOf(u)})
      BY DequantInstrs
    <3> QED BY <2>4, <3>1
  <2> HIDE DEF x, y, u, S
  <2>6. SliceGood(<<x, y>>, S)
    BY <2>3, <2>5, SliceIs
  <2> QED BY <2>2, <2>6 DEF S
<1> HIDE DEF pieces, slices, SliceGood
<1>7. SliceGood(Fl, St)
  <2>1. \A i \in 1 .. n : IsSeq(pieces[i]) /\ Within(pieces[i], DequantEvents)
    BY <1>6 DEF SliceGood
  <2>2. 1 \in 1 .. n /\ \A i \in 2 .. n : i \in 1 .. n /\ i # 1
    BY <1>3
  <2>3. SliceGood(pieces[1], St) /\ \A i \in 2 .. n : SliceGood(pieces[i], {})
    BY <1>6, <2>2
  <2>4. IsSeq(pieces) /\ Len(pieces) = n /\ n >= 1
    BY <1>3, <1>5
  <2> HIDE DEF n, St, Fl
  <2>5. IsSeq(Fl) /\ Within(Fl, DequantEvents)
    <3>1. IsSeq(Fl)
      <4> DEFINE X == UNION {{pieces[i][l] : l \in 1 .. Len(pieces[i])} : i \in 1 .. n}
      <4>1. \A i \in 1 .. Len(pieces) : pieces[i] \in Seq(X)
        <5> TAKE i \in 1 .. Len(pieces)
        <5>1. IsSeq(pieces[i]) /\ i \in 1 .. n
          BY <2>1, <2>4
        <5>2. \A l \in 1 .. Len(pieces[i]) : pieces[i][l] \in X
          BY <5>1
        <5> HIDE DEF X
        <5> QED BY <5>1, <5>2, SeqOver
      <4> HIDE DEF X
      <4>2. FlattenSeq(pieces) \in Seq(X)
        BY <2>4, <4>1, FlattenIn
      <4> QED BY <4>2 DEF IsSeq, Fl
    <3>2. ASSUME NEW k \in 1 .. Len(Fl) PROVE Fl[k].waits \cup Fl[k].sets \subseteq DequantEvents
      <4>1. PICK i \in 1 .. n : \E l \in 1 .. Len(pieces[i]) : Fl[k] = pieces[i][l]
        BY <2>1, <2>4, FlattenRange DEF Fl
      <4> QED BY <2>1, <4>1 DEF Within
    <3> QED BY <3>1, <3>2 DEF Within
  <2>6. ASSUME NEW x \in Slots, NEW y \in Int, y = IF x \in St THEN 1 ELSE 0
        PROVE  Flow(Fl, FreeOf(x)) = 0 /\ Flow(Fl, ReadyOf(x)) = y
    <3>1. Flow(pieces[1], FreeOf(x)) = 0 /\ Flow(pieces[1], ReadyOf(x)) = y
      BY <2>3, <2>6 DEF SliceGood
    <3>2. \A i \in 2 .. n : Flow(pieces[i], FreeOf(x)) = 0 /\ Flow(pieces[i], ReadyOf(x)) = 0
      BY <2>3 DEF SliceGood
    <3>3. Flow(Fl, FreeOf(x)) = Flow(pieces[1], FreeOf(x))
      BY <2>1, <2>4, <3>2, FlattenFlow DEF Fl
    <3>4. Flow(Fl, ReadyOf(x)) = Flow(pieces[1], ReadyOf(x))
      BY <2>1, <2>4, <3>2, FlattenFlow DEF Fl
    <3> QED BY <3>1, <3>3, <3>4
  <2>7. ASSUME NEW x \in Slots, NEW p \in Pipes, NEW y \in Int,
               y = IF p = "V" THEN (IF x \in St THEN 1 ELSE 0) ELSE 0
        PROVE  Fits(Fl, p, FreeOf(x), ReadyOf(x), y, y)
    <3>1. Fits(pieces[1], p, FreeOf(x), ReadyOf(x), y, y)
      BY <2>3, <2>7 DEF SliceGood
    <3>2. ASSUME NEW i \in 2 .. n PROVE Fits(pieces[i], p, FreeOf(x), ReadyOf(x), y, 0)
      <4>1. Fits(pieces[i], p, FreeOf(x), ReadyOf(x), 0, 0)
        BY <2>3 DEF SliceGood
      <4>2. 0 <= y
        BY <2>7
      <4> QED BY <4>1, <4>2, FitsMore
    <3> QED BY <2>1, <2>4, <3>1, <3>2, FlattenFits DEF Fl
  <2> QED BY <2>5, <2>6, <2>7 DEF SliceGood
<1> DEFINE CopiesGood ==
             /\ IsSeq(C) /\ Within(C, DequantEvents)
             /\ \A x \in Slots :
                  /\ Flow(C, FreeOf(x)) = g(x) /\ Flow(C, ReadyOf(x)) = 0 - g(x)
                  /\ \A p \in Pipes : Fits(C, p, FreeOf(x), ReadyOf(x), 0, 0)
<1>8. CopiesGood
  <2> DEFINE length(q) == IF q = "x1" THEN Dequant!SingleMInVec(c, call.m) ELSE call.n
             copy(q) == Dequant!CopyIn({Dequant!Free(q, 0)}, {Dequant!Ready(q, 0)},
                          [l \in {<<q \o "Ub", k>> : k \in 0 .. (length(q) - 1)} |->
                             <<Dequant!StagedFrom(c, o, call, q, l[2])>>])
             P(q) == Copied(SQ, q, copy(q))
             f(q, x) == IF q \in SQ /\ x = <<q, 0>> THEN 1 ELSE 0
  <2>1. C = (P("x2") \o P("x1")) \o P("bias")
    BY DEF Dequant!CopyDataFromGm2Ub, Copied
  <2>2. ASSUME NEW q \in {"x2", "x1", "bias"}
        PROVE  /\ IsSeq(P(q)) /\ Within(P(q), DequantEvents)
               /\ \A x \in Slots : Flow(P(q), FreeOf(x)) = f(q, x) /\ Flow(P(q), ReadyOf(x)) = 0 - f(q, x)
               /\ \A x \in Slots, p \in Pipes : Fits(P(q), p, FreeOf(x), ReadyOf(x), 0, 0)
    <3>1. Is(copy(q), "MTE2", {FreeOf(<<q, 0>>)}, {ReadyOf(<<q, 0>>)})
      BY DEF Is, FreeOf, ReadyOf, Dequant!CopyIn, Dequant!Instr, Dequant!Free, Dequant!Ready
    <3>2. <<q, 0>> \in Staged
      BY DEF Staged
    <3> HIDE DEF SQ, copy
    <3> QED BY <3>1, <3>2, CopiedIs
  <2> DEFINE a == P("x2")  b == P("x1")  d == P("bias")
  <2>3. /\ IsSeq(a) /\ Within(a, DequantEvents) /\ IsSeq(b) /\ Within(b, DequantEvents)
        /\ IsSeq(d) /\ Within(d, DequantEvents)
    BY <2>2
  <2>4. ASSUME NEW x \in Slots
        PROVE  /\ Flow(a, FreeOf(x)) = f("x2", x) /\ Flow(a, ReadyOf(x)) = 0 - f("x2", x)
               /\ Flow(b, FreeOf(x)) = f("x1", x) /\ Flow(b, ReadyOf(x)) = 0 - f("x1", x)
               /\ Flow(d, FreeOf(x)) = f("bias", x) /\ Flow(d, ReadyOf(x)) = 0 - f("bias", x)
    BY <2>2
  <2>5. \A x \in Slots, p \in Pipes : /\ Fits(a, p, FreeOf(x), ReadyOf(x), 0, 0)
                                      /\ Fits(b, p, FreeOf(x), ReadyOf(x), 0, 0)
                                      /\ Fits(d, p, FreeOf(x), ReadyOf(x), 0, 0)
    BY <2>2
  <2>6. \A x \in Slots : f("x2", x) + f("x1", x) + f("bias", x) = g(x)
    <3> TAKE x \in Slots
    <3>1. x \in St <=> \E q \in SQ : x = <<q, 0>>
      OBVIOUS
    <3> HIDE DEF SQ
    <3>2. CASE x = <<"x2", 0>>
      <4>1. x \in St <=> "x2" \in SQ
        BY <3>1, <3>2
      <4>2. f("x1", x) = 0 /\ f("bias", x) = 0
        BY <3>2
      <4> HIDE DEF St
      <4> QED BY <3>2, <4>1, <4>2
    <3>3. CASE x = <<"x1", 0>>
      <4>1. x \in St <=> "x1" \in SQ
        BY <3>1, <3>3
      <4>2. f("x2", x) = 0 /\ f("bias", x) = 0
        BY <3>3
      <4> HIDE DEF St
      <4> QED BY <3>3, <4>1, <4>2
    <3>4. CASE x = <<"bias", 0>>
      <4>1. x \in St <=> "bias" \in SQ
        BY <3>1, <3>4
      <4>2. f("x2", x) = 0 /\ f("x1", x) = 0
        BY <3>4
      <4> HIDE DEF St
      <4> QED BY <3>4, <4>1, <4>2
    <3>5. CASE x \in {<<"out", 0>>, <<"out", 1>>}
      <4>1. x \notin St
        BY <1>4, <3>5 DEF Staged
      <4>2. f("x2", x) = 0 /\ f("x1", x) = 0 /\ f("bias", x) = 0
        BY <3>5
      <4> HIDE DEF St
      <4> QED BY <4>1, <4>2
    <3> QED BY <3>2, <3>3, <3>4, <3>5 DEF Slots, Staged
  <2> HIDE DEF a, b, d, f, SQ, St, C
  <2>7. IsSeq(a \o b) /\ Within(a \o b, DequantEvents)
    BY <2>3, CatSeq, WithinCat
  <2>8. IsSeq(C) /\ Within(C, DequantEvents)
    BY <2>1, <2>3, <2>7, CatSeq, WithinCat DEF a, b, d
  <2>9. C = (a \o b) \o d
    BY <2>1 DEF a, b, d
  <2>10. \A e : Flow(C, e) = (Flow(a, e) + Flow(b, e)) + Flow(d, e)
    <3> TAKE e
    <3>1. Flow((a \o b) \o d, e) = Flow(a \o b, e) + Flow(d, e)
      BY <2>3, <2>7, FlowCat
    <3>2. Flow(a \o b, e) = Flow(a, e) + Flow(b, e)
      BY <2>3, FlowCat
    <3> QED BY <2>9, <3>1, <3>2
  <2>11. ASSUME NEW x \in Slots PROVE Flow(C, FreeOf(x)) = g(x) /\ Flow(C, ReadyOf(x)) = 0 - g(x)
    <3>1. f("x2", x) \in Int /\ f("x1", x) \in Int /\ f("bias", x) \in Int
      BY DEF f
    <3>2. /\ Flow(C, FreeOf(x)) = (f("x2", x) + f("x1", x)) + f("bias", x)
          /\ Flow(C, ReadyOf(x)) = ((0 - f("x2", x)) + (0 - f("x1", x))) + (0 - f("bias", x))
      BY <2>4, <2>10
    <3>3. f("x2", x) + f("x1", x) + f("bias", x) = g(x)
      BY <2>6
    <3> HIDE DEF g
    <3> QED BY <3>1, <3>2, <3>3
  <2>12. ASSUME NEW x \in Slots, NEW p \in Pipes PROVE Fits(C, p, FreeOf(x), ReadyOf(x), 0, 0)
    <3>1. Fits(a \o b, p, FreeOf(x), ReadyOf(x), 0, 0 + 0)
      BY <2>5, FitsCat
    <3>2. Fits(a \o b, p, FreeOf(x), ReadyOf(x), 0, 0)
      BY <3>1
    <3>3. Fits((a \o b) \o d, p, FreeOf(x), ReadyOf(x), 0, 0 + 0)
      BY <2>5, <3>2, FitsCat
    <3> QED BY <2>9, <3>3
  <2> QED BY <2>8, <2>11, <2>12
<1>9. DequantGood(((<<mm>> \o C) \o Fl) \o <<fr>>, 0)
  <2> DEFINE a == <<mm>>  z == <<fr>>  ac == a \o C  af == ac \o Fl  all == af \o z
  <2>1. /\ IsSeq(z) /\ Within(z, DequantEvents)
        /\ \A x \in Slots :
             /\ Flow(z, FreeOf(x)) = 0 - g(x) /\ Flow(z, ReadyOf(x)) = 0
             /\ \A p \in Pipes : Fits(z, p, FreeOf(x), ReadyOf(x), 0, 0 - h(x, p))
    <3>1. Is(fr, "V", {}, {FreeOf(q) : q \in St})
      <4>1. Is(fr, "V", {}, {FreeOf(<<q, 0>>) : q \in SQ})
        BY DequantInstrs
      <4>2. {FreeOf(<<q, 0>>) : q \in SQ} = {FreeOf(q) : q \in St}
        <5> HIDE DEF SQ
        <5> QED OBVIOUS
      <4> HIDE DEF fr, SQ, St
      <4> QED BY <4>1, <4>2
    <3> HIDE DEF fr, St
    <3> QED BY <1>4, <3>1, FreedIs
  <2>2. /\ IsSeq(a) /\ Within(a, DequantEvents) /\ \A e : Flow(a, e) = 0
        /\ \A x \in Slots, p \in Pipes : Fits(a, p, FreeOf(x), ReadyOf(x), 0, 0)
    <3>0. Is(mm, "V", {}, {})
      BY DequantInstrs
    <3> HIDE DEF mm
    <3>1. Is(mm, "V", {}, {}) /\ "V" \in Pipes /\ \A e : Gain({}, {}, e) = 0
      BY <3>0, NothingGained DEF Pipes
    <3>2. IsSeq(a) /\ Within(a, DequantEvents) /\ \A e : Flow(a, e) = 0
      BY <3>1, OneFlow
    <3>3. ASSUME NEW x \in Slots, NEW p \in Pipes PROVE Fits(a, p, FreeOf(x), ReadyOf(x), 0, 0)
      <4>1. CASE p = "V"
        <5>1. Gain({}, {}, FreeOf(x)) + Gain({}, {}, ReadyOf(x)) = 0
          BY <3>1
        <5> QED BY <3>1, <4>1, <5>1, OneThis
      <4>2. CASE p # "V"
        BY <3>1, <4>2, OneOther
      <4> QED BY <4>1, <4>2
    <3> QED BY <3>2, <3>3
  <2>3. IsSeq(C) /\ Within(C, DequantEvents) /\ IsSeq(Fl) /\ Within(Fl, DequantEvents)
    BY <1>7, <1>8 DEF SliceGood
  <2> HIDE DEF a, z, C, Fl, mm, fr
  <2>4. IsSeq(ac) /\ Within(ac, DequantEvents)
    BY <2>2, <2>3, CatSeq, WithinCat
  <2> HIDE DEF ac
  <2>5. IsSeq(af) /\ Within(af, DequantEvents)
    BY <2>3, <2>4, CatSeq, WithinCat
  <2> HIDE DEF af
  <2>6. IsSeq(all) /\ Within(all, DequantEvents)
    BY <2>1, <2>5, CatSeq, WithinCat
  <2>7. \A e : Flow(all, e) = ((Flow(a, e) + Flow(C, e)) + Flow(Fl, e)) + Flow(z, e)
    <3> TAKE e
    <3>1. Flow(all, e) = Flow(af, e) + Flow(z, e)
      BY <2>1, <2>5, FlowCat
    <3>2. Flow(af, e) = Flow(ac, e) + Flow(Fl, e)
      BY <2>3, <2>4, FlowCat DEF af
    <3>3. Flow(ac, e) = Flow(a, e) + Flow(C, e)
      BY <2>2, <2>3, FlowCat DEF ac
    <3> QED BY <3>1, <3>2, <3>3
  <2>8. ASSUME NEW x \in Slots PROVE Flow(all, FreeOf(x)) = 0 /\ Flow(all, ReadyOf(x)) = 0
    <3>1. g(x) \in Int
      OBVIOUS
    <3>2. Flow(C, FreeOf(x)) = g(x) /\ Flow(C, ReadyOf(x)) = 0 - g(x)
      BY <1>8
    <3>3. Flow(Fl, FreeOf(x)) = 0 /\ Flow(Fl, ReadyOf(x)) = g(x)
      BY <1>7 DEF SliceGood
    <3>4. Flow(z, FreeOf(x)) = 0 - g(x) /\ Flow(z, ReadyOf(x)) = 0 /\ Flow(a, FreeOf(x)) = 0 /\ Flow(a, ReadyOf(x)) = 0
      BY <2>1, <2>2
    <3>5. /\ Flow(all, FreeOf(x)) = ((0 + g(x)) + 0) + (0 - g(x))
          /\ Flow(all, ReadyOf(x)) = ((0 + (0 - g(x))) + g(x)) + 0
      BY <2>7, <3>2, <3>3, <3>4
    <3> HIDE DEF g
    <3> QED BY <3>1, <3>5
  <2>9. ASSUME NEW x \in Slots, NEW p \in Pipes PROVE Fits(all, p, FreeOf(x), ReadyOf(x), 0, 0)
    <3> DEFINE y == h(x, p)
    <3>1. y \in Int /\ 0 <= y
      OBVIOUS
    <3>2. Fits(a, p, FreeOf(x), ReadyOf(x), 0, 0) /\ Fits(C, p, FreeOf(x), ReadyOf(x), 0, 0)
      BY <1>8, <2>2
    <3>3. Fits(Fl, p, FreeOf(x), ReadyOf(x), y, y) /\ Fits(z, p, FreeOf(x), ReadyOf(x), 0, 0 - y)
      BY <1>7, <2>1 DEF SliceGood
    <3> HIDE DEF y, g, h
    <3>4. Fits(ac, p, FreeOf(x), ReadyOf(x), 0, 0)
      <4>1. Fits(a \o C, p, FreeOf(x), ReadyOf(x), 0, 0 + 0)
        BY <3>2, FitsCat
      <4> QED BY <4>1 DEF ac
    <3>5. Fits(af, p, FreeOf(x), ReadyOf(x), y, y)
      <4>1. Fits(ac \o Fl, p, FreeOf(x), ReadyOf(x), y, 0 + y)
        <5>1. 0 + y <= y
          BY <3>1
        <5> QED BY <3>1, <3>3, <3>4, <5>1, FitsCat
      <4>2. 0 + y = y
        BY <3>1
      <4> QED BY <4>1, <4>2 DEF af
    <3>6. Fits(all, p, FreeOf(x), ReadyOf(x), 0, y + (0 - y))
      <4>1. y + (0 - y) <= 0 /\ 0 - y \in Int
        BY <3>1
      <4> QED BY <3>1, <3>3, <3>5, <4>1, FitsCat
    <3>7. y + (0 - y) = 0
      BY <3>1
    <3> QED BY <3>6, <3>7
  <2>10. DequantGood(all, 0)
    <3> HIDE DEF all
    <3> QED BY <2>6, <2>8, <2>9 DEF DequantGood
  <2> QED BY <2>10 DEF all, af, ac, a, z
<1> QED BY <1>1, <1>9

-----------------------------------------------------------------------------
(* The components share the operators of the pipes.                        *)
LEMMA SameInDequant ==
    /\ \A c, op, f, i : Dequant!Call(c, op, f, i) = Call(c, op, f, i)
    /\ \A c, op : Dequant!Calls(c, op) = Calls(c, op)
    /\ \A c : Dequant!ResultArrived(c) = ResultArrived(c)
    /\ \A f : Dequant!FlattenSeq(f) = FlattenSeq(f)
    /\ \A a, b : Dequant!CeilDiv(a, b) = CeilDiv(a, b) /\ Dequant!Least(a, b) = Least(a, b)
<1>1. \A c, op, f, i : Dequant!Call(c, op, f, i) = Call(c, op, f, i)
  BY DEF Dequant!Call, Call, Dequant!OfPipe, OfPipe, Dequant!Calls, Calls, Dequant!Pipes, Pipes
<1>2. \A c, op : Dequant!Calls(c, op) = Calls(c, op)
  BY DEF Dequant!Calls, Calls
<1>3. \A c : Dequant!ResultArrived(c) = ResultArrived(c)
  BY DEF Dequant!ResultArrived, ResultArrived
<1>4. \A f : Dequant!FlattenSeq(f) = FlattenSeq(f)
  BY DEF Dequant!FlattenSeq, FlattenSeq
<1>5. \A a, b : Dequant!CeilDiv(a, b) = CeilDiv(a, b) /\ Dequant!Least(a, b) = Least(a, b)
  BY DEF Dequant!CeilDiv, CeilDiv, Dequant!Least, Least
<1> QED BY <1>1, <1>2, <1>3, <1>4, <1>5

LEMMA SameInSwiglu ==
    /\ \A c, op, f, i : Swiglu!Call(c, op, f, i) = Call(c, op, f, i)
    /\ \A c : Swiglu!ResultArrived(c) = ResultArrived(c)
    /\ \A f : Swiglu!FlattenSeq(f) = FlattenSeq(f)
    /\ \A a, b : Swiglu!CeilDiv(a, b) = CeilDiv(a, b) /\ Swiglu!Least(a, b) = Least(a, b)
<1>1. \A c, op, f, i : Swiglu!Call(c, op, f, i) = Call(c, op, f, i)
  BY DEF Swiglu!Call, Call, Swiglu!OfPipe, OfPipe, Swiglu!Calls, Calls, Swiglu!Pipes, Pipes
<1>3. \A c : Swiglu!ResultArrived(c) = ResultArrived(c)
  BY DEF Swiglu!ResultArrived, ResultArrived
<1>4. \A f : Swiglu!FlattenSeq(f) = FlattenSeq(f)
  BY DEF Swiglu!FlattenSeq, FlattenSeq
<1>5. \A a, b : Swiglu!CeilDiv(a, b) = CeilDiv(a, b) /\ Swiglu!Least(a, b) = Least(a, b)
  BY DEF Swiglu!CeilDiv, CeilDiv, Swiglu!Least, Least
<1> QED BY <1>1, <1>3, <1>4, <1>5

LEMMA SameInFinalize ==
    /\ \A c, op, f, i : Finalize!Call(c, op, f, i) = Call(c, op, f, i)
    /\ \A c : Finalize!Drained(c) = Drained(c)
    /\ \A f : Finalize!FlattenSeq(f) = FlattenSeq(f)
    /\ \A a, b : Finalize!CeilDiv(a, b) = CeilDiv(a, b) /\ Finalize!Least(a, b) = Least(a, b)
<1>1. \A c, op, f, i : Finalize!Call(c, op, f, i) = Call(c, op, f, i)
  BY DEF Finalize!Call, Call, Finalize!OfPipe, OfPipe, Finalize!Calls, Calls, Finalize!Pipes, Pipes
<1>3. \A c : Finalize!Drained(c) = Drained(c)
  BY DEF Finalize!Drained, Drained, Finalize!Pipes, Pipes
<1>4. \A f : Finalize!FlattenSeq(f) = FlattenSeq(f)
  BY DEF Finalize!FlattenSeq, FlattenSeq
<1>5. \A a, b : Finalize!CeilDiv(a, b) = CeilDiv(a, b) /\ Finalize!Least(a, b) = Least(a, b)
  BY DEF Finalize!CeilDiv, CeilDiv, Finalize!Least, Least
<1> QED BY <1>1, <1>3, <1>4, <1>5

LEMMA SameInPrologue ==
    /\ \A c, op, f, i : Finalize!Prologue!Call(c, op, f, i) = Call(c, op, f, i)
    /\ \A f : Finalize!Prologue!FlattenSeq(f) = FlattenSeq(f)
    /\ \A a, b : /\ Finalize!Prologue!CeilDiv(a, b) = CeilDiv(a, b)
                 /\ Finalize!Prologue!Least(a, b) = Least(a, b)
                 /\ Finalize!Prologue!AlignUp(a, b) = AlignUp(a, b)
<1>1. \A c, op, f, i : Finalize!Prologue!Call(c, op, f, i) = Call(c, op, f, i)
  BY DEF Finalize!Prologue!Call, Call, Finalize!Prologue!OfPipe, OfPipe, Finalize!Prologue!Calls, Calls,
         Finalize!Prologue!Pipes, Pipes
<1>4. \A f : Finalize!Prologue!FlattenSeq(f) = FlattenSeq(f)
  BY DEF Finalize!Prologue!FlattenSeq, FlattenSeq
<1>5. \A a, b : /\ Finalize!Prologue!CeilDiv(a, b) = CeilDiv(a, b)
                /\ Finalize!Prologue!Least(a, b) = Least(a, b)
                /\ Finalize!Prologue!AlignUp(a, b) = AlignUp(a, b)
  BY DEF Finalize!Prologue!CeilDiv, CeilDiv, Finalize!Prologue!Least, Least, Finalize!Prologue!AlignUp, AlignUp
<1> QED BY <1>1, <1>4, <1>5

LEMMA SameInEpilogue ==
    /\ \A c, op, f, i : Finalize!Epilogue!Call(c, op, f, i) = Call(c, op, f, i)
    /\ \A c, op : Finalize!Epilogue!Calls(c, op) = Calls(c, op)
    /\ \A c : Finalize!Epilogue!ResultArrived(c) = ResultArrived(c)
    /\ \A f : Finalize!Epilogue!FlattenSeq(f) = FlattenSeq(f)
    /\ \A a, b : /\ Finalize!Epilogue!CeilDiv(a, b) = CeilDiv(a, b)
                 /\ Finalize!Epilogue!Least(a, b) = Least(a, b)
<1>1. \A c, op, f, i : Finalize!Epilogue!Call(c, op, f, i) = Call(c, op, f, i)
  BY DEF Finalize!Epilogue!Call, Call, Finalize!Epilogue!OfPipe, OfPipe, Finalize!Epilogue!Calls, Calls,
         Finalize!Epilogue!Pipes, Pipes
<1>2. \A c, op : Finalize!Epilogue!Calls(c, op) = Calls(c, op)
  BY DEF Finalize!Epilogue!Calls, Calls
<1>3. \A c : Finalize!Epilogue!ResultArrived(c) = ResultArrived(c)
  BY DEF Finalize!Epilogue!ResultArrived, ResultArrived
<1>4. \A f : Finalize!Epilogue!FlattenSeq(f) = FlattenSeq(f)
  BY DEF Finalize!Epilogue!FlattenSeq, FlattenSeq
<1>5. \A a, b : /\ Finalize!Epilogue!CeilDiv(a, b) = CeilDiv(a, b)
                /\ Finalize!Epilogue!Least(a, b) = Least(a, b)
  BY DEF Finalize!Epilogue!CeilDiv, CeilDiv, Finalize!Epilogue!Least, Least
<1> QED BY <1>1, <1>2, <1>3, <1>4, <1>5

-----------------------------------------------------------------------------
(* The rows of a block, and of a core.                                     *)

\* Before the last of CeilDiv(a, b) pieces something of a is left.
LEMMA CeilDivBelow ==
    ASSUME NEW a \in Nat, NEW b \in Positive, NEW k \in Nat, k < CeilDiv(a, b)
    PROVE  k * b \in Nat /\ k * b < a
<1> DEFINE x == a + b - 1  q == x \div b  r == x % b
<1>1. x \in Nat /\ b \in Nat /\ b >= 1
  BY DEF Positive
<1>2. CeilDiv(a, b) = q
  BY DEF CeilDiv
<1>3. q \in Nat /\ r \in 0 .. b - 1 /\ x = b * q + r
  <2> HIDE DEF x
  <2> QED BY <1>1, DivMod
<1> HIDE DEF q, r
<1>4. k < q
  BY <1>2
<1>5. k * b \in Nat /\ k * b + b <= q * b
  BY <1>1, <1>3, <1>4, MulMonotone
<1>6. q * b = b * q /\ b * q <= x
  BY <1>1, <1>3
<1>7. k * b + b <= x
  BY <1>1, <1>3, <1>5, <1>6
<1> QED BY <1>1, <1>5, <1>7

\* The blocks of a group lie in it: the first row of block i is one of its rows.
LEMMA BlockRows ==
    ASSUME NEW across \in Nat, NEW m \in Nat, NEW base \in Positive, NEW i \in 1 .. (across * CeilDiv(m, base))
    PROVE  ((i - 1) \div across) * base \in Nat /\ ((i - 1) \div across) * base < m
<1> DEFINE down == CeilDiv(m, base)  q == (i - 1) \div across
<1>1. down \in Nat
  BY CeilDivType
<1> HIDE DEF down
<1>2. across # 0
  <2>1. ASSUME across = 0 PROVE FALSE
    <3>1. across * down = 0
      BY <1>1, <2>1
    <3> QED BY <3>1 DEF down
  <2> QED BY <2>1
<1>3. across \in Positive
  BY <1>2 DEF Positive
<1>4. i - 1 \in Nat /\ i - 1 < across * down
  <2>1. across * down \in Nat
    BY <1>1, MulMonotone
  <2>2. i \in 1 .. across * down
    BY DEF down
  <2> QED BY <2>1, <2>2
<1>5. q \in Nat /\ (i - 1) % across \in 0 .. across - 1 /\ i - 1 = across * q + ((i - 1) % across)
  BY <1>3, <1>4, DivMod
<1> HIDE DEF q
<1>6. q < down
  <2>1. ASSUME down <= q PROVE FALSE
    <3>1. down * across <= q * across
      BY <1>1, <1>5, <2>1, MulMonotone
    <3>2. down * across = across * down /\ q * across = across * q
      BY <1>1, <1>5
    <3>3. across * q \in Nat /\ across * down \in Nat
      BY <1>1, <1>5, MulMonotone
    <3> DEFINE x == across * q  y == across * down
    <3> HIDE DEF x, y
    <3> QED BY <1>4, <1>5, <3>1, <3>2, <3>3 DEF x, y
  <2> QED BY <1>1, <1>5, <2>1
<1>7. q * base \in Nat /\ q * base < m
  BY <1>5, <1>6, CeilDivBelow DEF down
<1> QED BY <1>7 DEF q

\* A core is the first, the second, or the only one.
LEMMA TheCores ==
    /\ SubBlocks = {0} \/ SubBlocks = {0, 1}
    /\ Cardinality(SubBlocks) = (IF SubBlocks = {0} THEN 1 ELSE 2)
<1>1. SubBlocks = {0} \/ SubBlocks = {0, 1}
  BY PipesAssumption
<1>2. Cardinality({0}) = 1
  BY FS_Singleton
<1>3. Cardinality({0, 1}) = 2
  <2>1. IsFiniteSet({0}) /\ 1 \notin {0} /\ {0, 1} = {0} \cup {1}
    BY FS_Singleton
  <2>2. Cardinality({0} \cup {1}) = Cardinality({0}) + 1
    BY <2>1, FS_AddElement
  <2> QED BY <1>2, <2>1, <2>2
<1>4. {0} # {0, 1}
  <2>1. 1 \in {0, 1} /\ 1 \notin {0}
    OBVIOUS
  <2> QED BY <2>1
<1> QED BY <1>1, <1>2, <1>3, <1>4

LEMMA CoreRows ==
    ASSUME NEW c \in SubBlocks, NEW m \in Nat
    PROVE  c \in Nat /\ HalfSingleM(m) \in Nat /\ SingleMInVec(c, m) \in Nat
<1> DEFINE k == Cardinality(SubBlocks)
<1>1. k \in {1, 2} /\ c \in {0, 1} /\ (c = 1 => k = 2)
  <2>1. CASE SubBlocks = {0}
    BY <2>1, TheCores
  <2>2. CASE SubBlocks = {0, 1}
    <3>1. {0} # {0, 1}
      <4>1. 1 \in {0, 1} /\ 1 \notin {0}
        OBVIOUS
      <4> QED BY <4>1
    <3> QED BY <2>2, <3>1, TheCores
  <2> QED BY <2>1, <2>2, TheCores
<1>2. HalfSingleM(m) = (m + k - 1) \div k
  BY DEF HalfSingleM, CeilDiv
<1> HIDE DEF k
<1>3. CASE k = 1
  BY <1>1, <1>2, <1>3 DEF SingleMInVec
<1>4. CASE k = 2
  <2>1. HalfSingleM(m) = (m + 1) \div 2
    BY <1>2, <1>4
  <2>2. (m + 1) \div 2 \in Nat /\ (m + 1) \div 2 <= m
    OBVIOUS
  <2> QED BY <1>1, <2>1, <2>2 DEF SingleMInVec
<1> QED BY <1>1, <1>3, <1>4

-----------------------------------------------------------------------------
(* The calls a core has still to make.                                     *)

\* The calls of operation op hand over a number of rows.
CallsGood(s, op) == IsSeq(s) /\ \A k \in 1 .. Len(s) : s[k].op = op => s[k].m \in Nat

LEMMA CallsCat ==
    ASSUME NEW a, NEW b, NEW op, CallsGood(a, op), CallsGood(b, op)
    PROVE  CallsGood(a \o b, op)
<1>1. IsSeq(a) /\ IsSeq(b)
  BY DEF CallsGood
<1>2. /\ IsSeq(a \o b) /\ Len(a \o b) = Len(a) + Len(b) /\ Len(a) \in Nat /\ Len(b) \in Nat
      /\ \A i \in 1 .. Len(a) : (a \o b)[i] = a[i]
      /\ \A i \in 1 .. Len(b) : (a \o b)[Len(a) + i] = b[i]
  BY <1>1, CatSeq, SeqFacts
<1>3. ASSUME NEW k \in 1 .. Len(a \o b), (a \o b)[k].op = op PROVE (a \o b)[k].m \in Nat
  <2>1. CASE k <= Len(a)
    <3>1. k \in 1 .. Len(a)
      BY <1>2, <2>1
    <3> QED BY <1>2, <1>3, <3>1 DEF CallsGood
  <2>2. CASE k > Len(a)
    <3> DEFINE i == k - Len(a)
    <3>1. i \in 1 .. Len(b) /\ k = Len(a) + i
      BY <1>2, <2>2
    <3> HIDE DEF i
    <3> QED BY <1>2, <1>3, <3>1 DEF CallsGood
  <2> QED BY <1>2, <2>1, <2>2
<1> QED BY <1>2, <1>3 DEF CallsGood

LEMMA CallsFlatten ==
    ASSUME NEW s, NEW op, IsSeq(s), \A i \in 1 .. Len(s) : CallsGood(s[i], op)
    PROVE  CallsGood(FlattenSeq(s), op)
<1>1. \A i \in 1 .. Len(s) : IsSeq(s[i])
  BY DEF CallsGood
<1>2. IsSeq(FlattenSeq(s))
  <2>1. CASE Len(s) = 0
    BY <2>1, FlattenNothing, EmptyList
  <2>2. CASE Len(s) # 0
    <3> DEFINE X == UNION {{s[i][l] : l \in 1 .. Len(s[i])} : i \in 1 .. Len(s)}
    <3>1. \A i \in 1 .. Len(s) : s[i] \in Seq(X)
      <4> TAKE i \in 1 .. Len(s)
      <4>1. \A l \in 1 .. Len(s[i]) : s[i][l] \in X
        OBVIOUS
      <4> HIDE DEF X
      <4> QED BY <1>1, <4>1, SeqOver
    <3> HIDE DEF X
    <3> QED BY <3>1, FlattenIn DEF IsSeq
  <2> QED BY <2>1, <2>2
<1>3. ASSUME NEW k \in 1 .. Len(FlattenSeq(s)), FlattenSeq(s)[k].op = op PROVE FlattenSeq(s)[k].m \in Nat
  <2>1. PICK i \in 1 .. Len(s) : \E l \in 1 .. Len(s[i]) : FlattenSeq(s)[k] = s[i][l]
    BY <1>1, FlattenRange
  <2> QED BY <1>3, <2>1 DEF CallsGood
<1> QED BY <1>2, <1>3 DEF CallsGood

LEMMA CallsOne == ASSUME NEW x, NEW op, x.op # op PROVE CallsGood(<<x>>, op) /\ CallsGood(<<>>, op)
<1>1. IsSeq(<<x>>) /\ Len(<<x>>) = 1 /\ <<x>>[1] = x /\ IsSeq(<<>>)
  BY OneList, EmptyList
<1> QED BY <1>1 DEF CallsGood

LEMMA CallsTail ==
    ASSUME NEW s, NEW op, CallsGood(s, op), s # <<>>
    PROVE  CallsGood(Tail(s), op) /\ (Head(s).op = op => Head(s).m \in Nat)
<1>1. /\ IsSeq(Tail(s)) /\ Len(s) \in Nat \ {0} /\ Len(Tail(s)) = Len(s) - 1 /\ Head(s) = s[1]
      /\ \A k \in 1 .. Len(Tail(s)) : Tail(s)[k] = s[k + 1]
  BY AfterFirst DEF CallsGood
<1>2. \A k \in 1 .. Len(Tail(s)) : k + 1 \in 1 .. Len(s)
  BY <1>1
<1>3. 1 \in 1 .. Len(s)
  BY <1>1
<1> QED BY <1>1, <1>2, <1>3 DEF CallsGood

\* The blocks of a group, whichever kernel they are handed to.
LEMMA BlocksGood ==
    ASSUME NEW across \in Nat, NEW m \in Nat, NEW base \in Positive, NEW op,
           NEW s, s = [i \in 1 .. (across * CeilDiv(m, base)) |-> s[i]],
           \A i \in 1 .. (across * CeilDiv(m, base)) : s[i].m = Least(base, m - ((i - 1) \div across) * base)
    PROVE  CallsGood(s, op)
<1>1. CeilDiv(m, base) \in Nat
  BY CeilDivType
<1> DEFINE n == across * CeilDiv(m, base)
<1>2. n \in Nat
  <2> DEFINE d == CeilDiv(m, base)
  <2> HIDE DEF d
  <2>1. d \in Nat
    BY <1>1 DEF d
  <2> QED BY <2>1, MulMonotone DEF d
<1>3. ASSUME NEW i \in 1 .. n PROVE s[i].m \in Nat
  <2> DEFINE r == ((i - 1) \div across) * base
  <2>1. r \in Nat /\ r < m
    BY BlockRows
  <2>2. s[i].m = Least(base, m - r)
    OBVIOUS
  <2> HIDE DEF r
  <2> QED BY <2>1, <2>2 DEF Least, Positive
<1> HIDE DEF n
<1>4. s = [i \in 1 .. n |-> s[i]]
  BY DEF n
<1>5. IsSeq(s) /\ Len(s) = n
  <2> HIDE DEF n
  <2> QED BY <1>2, <1>4, SeqMade
<1> QED BY <1>3, <1>5 DEF CallsGood

LegalBlocks ==
    /\ job.n \in Nat /\ job.baseM \in Positive /\ job.baseN \in Positive
    /\ Len(job.ms) \in Nat /\ \A g \in 1 .. Len(job.ms) : job.ms[g] \in Nat

LEMMA JobLegal == ASSUME job \in Jobs PROVE Legal(job) /\ LegalBlocks
<1>1. Legal(job)
  BY PipesAssumption
<1>2. job.ms \in Seq(Nat) /\ job.n \in Nat /\ job.baseM \in Nat \ {0} /\ job.baseN \in Nat \ {0}
  BY <1>1 DEF Legal
<1> QED BY <1>1, <1>2 DEF LegalBlocks, Positive

LEMMA DequantCalls == ASSUME LegalBlocks PROVE CallsGood(Dequant!CallsOf, "Run")
<1> DEFINE first(g) == IF job.grouped
                       THEN <<[op |-> "UpdateGroupedParams", base |-> Dequant!GroupBase(g), groupIdx |-> g - 1]>>
                       ELSE <<>>
           pieces == [g \in 1 .. Len(job.ms) |-> first(g) \o Dequant!Blocks(g)]
<1>1. ASSUME NEW g \in 1 .. Len(job.ms) PROVE CallsGood(first(g) \o Dequant!Blocks(g), "Run")
  <2>1. CallsGood(first(g), "Run")
    <3> DEFINE x == [op |-> "UpdateGroupedParams", base |-> Dequant!GroupBase(g), groupIdx |-> g - 1]
    <3>1. x.op # "Run"
      OBVIOUS
    <3> HIDE DEF x
    <3>2. CallsGood(<<x>>, "Run") /\ CallsGood(<<>>, "Run")
      BY <3>1, CallsOne
    <3> QED BY <3>2 DEF x
  <2>2. CallsGood(Dequant!Blocks(g), "Run")
    <3> DEFINE s == Dequant!Blocks(g)  across == CeilDiv(job.n, job.baseN)
    <3>1. across \in Nat /\ job.ms[g] \in Nat
      BY CeilDivType DEF LegalBlocks
    <3>2. /\ s = [i \in 1 .. (across * CeilDiv(job.ms[g], job.baseM)) |-> s[i]]
          /\ \A i \in 1 .. (across * CeilDiv(job.ms[g], job.baseM)) :
               s[i].m = Least(job.baseM, job.ms[g] - ((i - 1) \div across) * job.baseM)
      BY SameInDequant DEF Dequant!Blocks
    <3> HIDE DEF s, across
    <3> QED BY <3>1, <3>2, BlocksGood DEF LegalBlocks, s
  <2> HIDE DEF first
  <2> QED BY <2>1, <2>2, CallsCat
<1>2. IsSeq(pieces) /\ Len(pieces) = Len(job.ms) /\ \A g \in 1 .. Len(job.ms) : pieces[g] = first(g) \o Dequant!Blocks(g)
  <2>1. pieces = [g \in 1 .. Len(job.ms) |-> pieces[g]] /\ \A g \in 1 .. Len(job.ms) : pieces[g] = first(g) \o Dequant!Blocks(g)
    OBVIOUS
  <2> HIDE DEF pieces
  <2> QED BY <2>1, SeqMade DEF LegalBlocks
<1>3. Dequant!CallsOf = <<[op |-> "Init"]>> \o FlattenSeq(pieces)
  <2>1. Dequant!CallsOf = <<[op |-> "Init"]>> \o Dequant!FlattenSeq(pieces)
    BY DEF Dequant!CallsOf
  <2> HIDE DEF pieces
  <2> QED BY <2>1, SameInDequant
<1> HIDE DEF pieces, first
<1>4. CallsGood(FlattenSeq(pieces), "Run")
  BY <1>1, <1>2, CallsFlatten
<1>5. CallsGood(<<[op |-> "Init"]>>, "Run")
  <2> DEFINE x == [op |-> "Init"]
  <2>1. x.op # "Run"
    OBVIOUS
  <2> HIDE DEF x
  <2> QED BY <2>1, CallsOne DEF x
<1> QED BY <1>3, <1>4, <1>5, CallsCat

LEMMA FinalizeBlocks ==
    ASSUME LegalBlocks, NEW g \in 1 .. Len(job.ms)
    PROVE  /\ CallsGood(Finalize!Blocks(g), "AddRows")
           /\ \A k \in 1 .. Len(Finalize!Blocks(g)) : Finalize!Blocks(g)[k].op = "AddRows"
<1> DEFINE s == Finalize!Blocks(g)  across == CeilDiv(job.n, job.baseN)
<1>1. across \in Nat /\ job.ms[g] \in Nat
  BY CeilDivType DEF LegalBlocks
<1>2. /\ s = [i \in 1 .. (across * CeilDiv(job.ms[g], job.baseM)) |-> s[i]]
      /\ DOMAIN s = 1 .. (across * CeilDiv(job.ms[g], job.baseM))
      /\ \A i \in 1 .. (across * CeilDiv(job.ms[g], job.baseM)) :
           /\ s[i].m = Least(job.baseM, job.ms[g] - ((i - 1) \div across) * job.baseM)
           /\ s[i].op = "AddRows"
  BY SameInFinalize DEF Finalize!Blocks
<1> HIDE DEF s, across
<1>3. CallsGood(s, "AddRows")
  BY <1>1, <1>2, BlocksGood DEF LegalBlocks
<1>4. DOMAIN s = 1 .. Len(s)
  BY <1>3, SeqFacts DEF CallsGood
<1> QED BY <1>2, <1>3, <1>4 DEF s

-----------------------------------------------------------------------------
(* What a step changes: one core at most.                                  *)

\* Every core has its calls, its object, its queues and its events.
Cores ==
    /\ calls = [c \in SubBlocks |-> calls[c]]
    /\ obj = [c \in SubBlocks |-> obj[c]]
    /\ queue = [c \in SubBlocks |-> queue[c]]
    /\ flag = [c \in SubBlocks |-> flag[c]]

Unchanged(c) == calls'[c] = calls[c] /\ obj'[c] = obj[c] /\ queue'[c] = queue[c] /\ flag'[c] = flag[c]

LEMMA CallChanges ==
    ASSUME Cores, NEW c \in SubBlocks, NEW op, NEW fields, NEW instrs, Call(c, op, fields, instrs)
    PROVE  /\ Cores' /\ job' = job /\ \A d \in SubBlocks : d # c => Unchanged(d)
           /\ calls[c] # <<>> /\ Head(calls[c]).op = op
           /\ calls'[c] = Tail(calls[c]) /\ obj'[c] = fields /\ flag'[c] = flag[c]
           /\ queue'[c] = [p \in Pipes |-> queue[c][p] \o OfPipe(instrs, p)]
<1>1. /\ calls[c] # <<>> /\ Head(calls[c]).op = op /\ job' = job /\ flag' = flag
      /\ calls' = [calls EXCEPT ![c] = Tail(@)]
      /\ obj' = [obj EXCEPT ![c] = fields]
      /\ queue' = [queue EXCEPT ![c] = [p \in Pipes |-> @[p] \o OfPipe(instrs, p)]]
  BY DEF Call, Calls
<1>2. calls' = [calls' EXCEPT ![c] = calls'[c]] /\ calls'[c] = Tail(calls[c])
      /\ calls' = [d \in SubBlocks |-> calls'[d]] /\ \A d \in SubBlocks : d # c => calls'[d] = calls[d]
  BY <1>1 DEF Cores
<1>3. obj'[c] = fields /\ obj' = [d \in SubBlocks |-> obj'[d]] /\ \A d \in SubBlocks : d # c => obj'[d] = obj[d]
  BY <1>1 DEF Cores
<1>4. /\ queue'[c] = [p \in Pipes |-> queue[c][p] \o OfPipe(instrs, p)]
      /\ queue' = [d \in SubBlocks |-> queue'[d]] /\ \A d \in SubBlocks : d # c => queue'[d] = queue[d]
  BY <1>1 DEF Cores
<1>5. flag' = [d \in SubBlocks |-> flag'[d]] /\ \A d \in SubBlocks : flag'[d] = flag[d]
  BY <1>1 DEF Cores
<1> QED BY <1>1, <1>2, <1>3, <1>4, <1>5 DEF Cores, Unchanged

LEMMA ExecuteChanges ==
    ASSUME Cores, NEW c \in SubBlocks, NEW p \in Pipes, Execute(c, p)
    PROVE  /\ Cores' /\ job' = job /\ \A d \in SubBlocks : d # c => Unchanged(d)
           /\ calls'[c] = calls[c] /\ obj'[c] = obj[c]
           /\ queue[c][p] # <<>> /\ Head(queue[c][p]).waits \subseteq DOMAIN flag[c]
           /\ flag'[c] = (flag[c] (-) SetToBag(Head(queue[c][p]).waits)) (+) SetToBag(Head(queue[c][p]).sets)
           /\ queue'[c] = [queue[c] EXCEPT ![p] = Tail(@)]
<1>1. /\ queue[c][p] # <<>> /\ \A e \in Head(queue[c][p]).waits : BagIn(e, flag[c])
      /\ flag' = [flag EXCEPT ![c] = (@ (-) SetToBag(Head(queue[c][p]).waits)) (+) SetToBag(Head(queue[c][p]).sets)]
      /\ queue' = [queue EXCEPT ![c][p] = Tail(@)]
      /\ job' = job /\ calls' = calls /\ obj' = obj
  BY DEF Execute
<1>2. /\ flag'[c] = (flag[c] (-) SetToBag(Head(queue[c][p]).waits)) (+) SetToBag(Head(queue[c][p]).sets)
      /\ flag' = [d \in SubBlocks |-> flag'[d]] /\ \A d \in SubBlocks : d # c => flag'[d] = flag[d]
  <2> DEFINE new == (flag[c] (-) SetToBag(Head(queue[c][p]).waits)) (+) SetToBag(Head(queue[c][p]).sets)
  <2>1. flag' = [flag EXCEPT ![c] = new]
    BY <1>1
  <2> HIDE DEF new
  <2>2. flag'[c] = new /\ flag' = [d \in SubBlocks |-> flag'[d]] /\ \A d \in SubBlocks : d # c => flag'[d] = flag[d]
    BY <2>1 DEF Cores
  <2> QED BY <2>2 DEF new
<1>3. /\ queue'[c] = [queue[c] EXCEPT ![p] = Tail(@)]
      /\ queue' = [d \in SubBlocks |-> queue'[d]] /\ \A d \in SubBlocks : d # c => queue'[d] = queue[d]
  BY <1>1 DEF Cores
<1>4. \A e \in Head(queue[c][p]).waits : e \in DOMAIN flag[c]
  BY <1>1 DEF BagIn, BagToSet
<1>5. calls' = [d \in SubBlocks |-> calls'[d]] /\ obj' = [d \in SubBlocks |-> obj'[d]]
  BY <1>1 DEF Cores
<1> QED BY <1>1, <1>2, <1>3, <1>4, <1>5 DEF Cores, Unchanged

LEMMA BootChanges ==
    ASSUME NEW s, NEW fields, NEW F, Boot(s, fields, F)
    PROVE  /\ Cores
           /\ \A c \in SubBlocks : /\ calls[c] = s /\ obj[c] = fields /\ flag[c] = SetToBag(F)
                                   /\ queue[c] = [p \in Pipes |-> <<>>]
BY DEF Boot, Cores

-----------------------------------------------------------------------------
(* The dequantising epilogue.                                              *)

DequantCore(theCalls, o, bag, qs) ==
    /\ CallsGood(theCalls, "Run")
    /\ o = [f \in DOMAIN o |-> o[f]] /\ "outBuf" \in DOMAIN o /\ o.outBuf \in Int
    /\ Paired(bag, qs, DequantEvents, DequantFree, DequantRings)

LEMMA DequantFreeIs == Dequant!FreeEvents = DequantFree
<1>1. \A q, k : Dequant!Free(q, k) = FreeOf(<<q, k>>)
  BY DEF Dequant!Free, FreeOf
<1>2. Dequant!FreeEvents = {FreeOf(<<q, 0>>) : q \in {"x2", "x1", "bias"}} \cup {FreeOf(<<"out", k>>) : k \in 0 .. 1}
  BY <1>1 DEF Dequant!FreeEvents
<1>3. 0 .. 1 = {0, 1}
  OBVIOUS
<1>4. {FreeOf(<<"out", k>>) : k \in 0 .. 1} = {FreeOf(<<"out", 0>>), FreeOf(<<"out", 1>>)}
  BY <1>3
<1>5. {FreeOf(<<q, 0>>) : q \in {"x2", "x1", "bias"}} = {FreeOf(<<"x2", 0>>), FreeOf(<<"x1", 0>>), FreeOf(<<"bias", 0>>)}
  OBVIOUS
<1>6. DequantFree = {FreeOf(<<"x2", 0>>), FreeOf(<<"x1", 0>>), FreeOf(<<"bias", 0>>),
                     FreeOf(<<"out", 0>>), FreeOf(<<"out", 1>>)}
  BY DEF DequantFree, Slots, Staged
<1> QED BY <1>2, <1>4, <1>5, <1>6

LEMMA DequantStart ==
    ASSUME LegalBlocks, Dequant!InitDequant
    PROVE  Cores /\ \A c \in SubBlocks : DequantCore(calls[c], obj[c], flag[c], queue[c])
<1>1. Boot(Dequant!CallsOf, Dequant!Constructed, DequantFree)
  BY DequantFreeIs DEF Dequant!InitDequant, Dequant!Boot, Boot, Dequant!Pipes, Pipes, Dequant!SetToBag, SetToBag
<1>2. /\ Cores
      /\ \A c \in SubBlocks : /\ calls[c] = Dequant!CallsOf /\ obj[c] = Dequant!Constructed
                              /\ flag[c] = SetToBag(DequantFree) /\ queue[c] = [p \in Pipes |-> <<>>]
  BY <1>1, BootChanges
<1>3. CallsGood(Dequant!CallsOf, "Run")
  BY DequantCalls
<1>4. LET o == Dequant!Constructed IN
      o = [f \in DOMAIN o |-> o[f]] /\ "outBuf" \in DOMAIN o /\ o.outBuf \in Int
  BY DEF Dequant!Constructed
<1>5. Paired(SetToBag(DequantFree), [p \in Pipes |-> <<>>], DequantEvents, DequantFree, DequantRings)
  BY DequantRingsGoAround, PairedAtFirst
<1> QED BY <1>2, <1>3, <1>4, <1>5 DEF DequantCore

\* A call of the epilogue keeps its core's events in pairs.
LEMMA DequantCall ==
    ASSUME Cores, NEW c \in SubBlocks, DequantCore(calls[c], obj[c], flag[c], queue[c]),
           NEW op, NEW fields, NEW instrs, Call(c, op, fields, instrs),
           fields = [f \in DOMAIN fields |-> fields[f]] /\ "outBuf" \in DOMAIN fields /\ fields.outBuf \in Int,
           Good(instrs, queue[c], DequantEvents, DequantRings)
    PROVE  /\ Cores' /\ job' = job /\ \A d \in SubBlocks : d # c => Unchanged(d)
           /\ DequantCore(calls'[c], obj'[c], flag'[c], queue'[c])
<1>1. Paired(flag[c], [p \in Pipes |-> queue[c][p] \o OfPipe(instrs, p)], DequantEvents, DequantFree, DequantRings)
  <2>1. Paired(flag[c], queue[c], DequantEvents, DequantFree, DequantRings)
    BY DEF DequantCore
  <2>2. RingsOf(DequantRings, DequantEvents, DequantFree)
    BY DequantRingsGoAround
  <2> DEFINE bag == flag[c]  qs == queue[c]
  <2>3. Paired(bag, qs, DequantEvents, DequantFree, DequantRings) /\ Good(instrs, qs, DequantEvents, DequantRings)
    BY <2>1
  <2> HIDE DEF bag, qs
  <2>4. Paired(bag, [p \in Pipes |-> qs[p] \o OfPipe(instrs, p)], DequantEvents, DequantFree, DequantRings)
    BY ONLY <2>2, <2>3, PairedCall
  <2> QED BY <2>4 DEF bag, qs
<1>2. /\ Cores' /\ job' = job /\ \A d \in SubBlocks : d # c => Unchanged(d)
      /\ calls[c] # <<>>
      /\ calls'[c] = Tail(calls[c]) /\ obj'[c] = fields /\ flag'[c] = flag[c]
      /\ queue'[c] = [p \in Pipes |-> queue[c][p] \o OfPipe(instrs, p)]
  BY CallChanges
<1>3. CallsGood(Tail(calls[c]), "Run")
  BY <1>2, CallsTail DEF DequantCore
<1> QED BY <1>1, <1>2, <1>3 DEF DequantCore

LEMMA DequantFields ==
    ASSUME NEW o, o = [f \in DOMAIN o |-> o[f]] /\ "outBuf" \in DOMAIN o /\ o.outBuf \in Int
    PROVE  LET new == Dequant!UpdateGlobalBuffer(o) IN
           new = [f \in DOMAIN new |-> new[f]] /\ "outBuf" \in DOMAIN new /\ new.outBuf \in Int
BY DEF Dequant!UpdateGlobalBuffer

LEMMA DequantStep ==
    ASSUME Cores, NEW c \in SubBlocks, DequantCore(calls[c], obj[c], flag[c], queue[c]), Dequant!NextDequant(c)
    PROVE  /\ Cores' /\ job' = job /\ \A d \in SubBlocks : d # c => Unchanged(d)
           /\ DequantCore(calls'[c], obj'[c], flag'[c], queue'[c])
<1> DEFINE o == obj[c]
           Fields(n) == n = [f \in DOMAIN n |-> n[f]] /\ "outBuf" \in DOMAIN n /\ n.outBuf \in Int
<1>1. Fields(o)
  BY DEF DequantCore
<1>2. Good(<<>>, queue[c], DequantEvents, DequantRings)
  BY DequantRingsGoAround, GoodNothing
<1>3. CASE Dequant!InitEpilogue(c)
  <2> DEFINE n == [Dequant!UpdateGlobalBuffer(o) EXCEPT !.isBias = job.bias, !.n = job.n]
  <2>1. Call(c, "Init", n, <<>>)
    BY <1>3, SameInDequant DEF Dequant!InitEpilogue
  <2>2. Fields(n)
    <3> DEFINE u == Dequant!UpdateGlobalBuffer(o)
    <3>1. Fields(u)
      BY <1>1, DequantFields
    <3> HIDE DEF u
    <3> QED BY <3>1 DEF u
  <2> HIDE DEF n
  <2> QED BY <1>2, <2>1, <2>2, DequantCall
<1>4. CASE Dequant!UpdateGroupedParams(c)
  <2> DEFINE m == [obj[c] EXCEPT !.base = Head(calls[c]).base, !.groupIdx = Head(calls[c]).groupIdx]
             n == Dequant!UpdateGlobalBuffer(m)
  <2>1. Call(c, "UpdateGroupedParams", n, <<>>)
    BY <1>4, SameInDequant DEF Dequant!UpdateGroupedParams
  <2>2. Fields(m)
    BY <1>1
  <2> HIDE DEF m
  <2>3. Fields(n)
    BY <2>2, DequantFields
  <2> HIDE DEF n
  <2> QED BY <1>2, <2>1, <2>3, DequantCall
<1>5. CASE Dequant!Run(c)
  <2> DEFINE call == Head(calls[c])
             total == SingleMInVec(c, call.m)
             n == [o EXCEPT !.outBuf = (@ + Len(Dequant!Slices(total))) % 2]
             s == Dequant!RunInstrs(c, o, call)
  <2>1. /\ Calls(c, "Run")
        /\ IF total = 0 THEN Call(c, "Run", o, <<>>) ELSE Call(c, "Run", n, s)
    <3>1. Dequant!SingleMInVec(c, call.m) = total
      BY DequantHalf
    <3> QED BY <1>5, <3>1, SameInDequant DEF Dequant!Run
  <2>2. total \in Nat
    <3>1. calls[c] # <<>> /\ call.op = "Run"
      BY <2>1 DEF Calls
    <3>2. call.m \in Nat
      BY <3>1, CallsTail DEF DequantCore
    <3> HIDE DEF call
    <3> QED BY <3>2, CoreRows
  <2> HIDE DEF s
  <2>3. CASE total = 0
    <3>1. Call(c, "Run", o, <<>>)
      BY <2>1, <2>3
    <3> QED BY <1>1, <1>2, <3>1, DequantCall
  <2>4. CASE total # 0
    <3>1. Call(c, "Run", n, s)
      BY <2>1, <2>4
    <3>2. DequantGood(s, 0)
      <4> HIDE DEF call, o
      <4> QED BY <1>1, <2>2, <2>4, RunList DEF s
    <3>3. Good(s, queue[c], DequantEvents, DequantRings)
      BY <3>2, DequantGoodIs
    <3>4. Fields(n)
      <4>1. Len(Dequant!Slices(total)) \in Nat
        <5> HIDE DEF total
        <5> QED BY <2>2, <2>4, SliceNumber
      <4> HIDE DEF total
      <4>2. (o.outBuf + Len(Dequant!Slices(total))) % 2 \in Int
        BY <1>1, <4>1
      <4> DEFINE x == (o.outBuf + Len(Dequant!Slices(total))) % 2
      <4>3. n = [o EXCEPT !.outBuf = x] /\ x \in Int
        BY <4>2
      <4> HIDE DEF x, n
      <4> QED BY <1>1, <4>3
    <3> HIDE DEF n
    <3> QED BY <3>1, <3>3, <3>4, DequantCall
  <2> QED BY <2>3, <2>4
<1> QED BY <1>3, <1>4, <1>5 DEF Dequant!NextDequant

-----------------------------------------------------------------------------
(* The swiglu epilogue.                                                    *)

\* Instructions that touch no event.
Quiet(s) == IsSeq(s) /\ \A i \in 1 .. Len(s) : s[i].waits = {} /\ s[i].sets = {}

LEMMA QuietList ==
    ASSUME NEW s, Quiet(s)
    PROVE  /\ \A p, a, b : Fits(s, p, a, b, 0, 0)
           /\ \A e : Flow(s, e) = 0
           /\ \A E : Within(s, E)
<1>1. \A i \in 1 .. Len(s) : \A p, e : Net(s[i], p, e) = 0
  BY DEF Quiet, Net
<1>2. IsSeq(s)
  BY DEF Quiet
<1>3. ASSUME NEW p, NEW a, NEW b PROVE Fits(s, p, a, b, 0, 0)
  <2>1. \A i \in 1 .. Len(s) : Net(s[i], p, a) + Net(s[i], p, b) = 0
    BY <1>1
  <2> QED BY <1>2, <2>1, Neutral
<1>4. ASSUME NEW p, NEW e PROVE Total(s, p, e) = 0
  BY <1>1, <1>2, Silent
<1> QED BY <1>3, <1>4 DEF Flow, Within, Quiet

LEMMA QuietCat == ASSUME NEW s, NEW t, Quiet(s), Quiet(t) PROVE Quiet(s \o t)
<1>1. /\ IsSeq(s \o t) /\ Len(s \o t) = Len(s) + Len(t) /\ Len(s) \in Nat /\ Len(t) \in Nat
      /\ \A i \in 1 .. Len(s) : (s \o t)[i] = s[i]
      /\ \A i \in 1 .. Len(t) : (s \o t)[Len(s) + i] = t[i]
  BY CatSeq, SeqFacts DEF Quiet
<1>2. ASSUME NEW k \in 1 .. Len(s \o t) PROVE (s \o t)[k].waits = {} /\ (s \o t)[k].sets = {}
  <2>1. CASE k <= Len(s)
    <3>1. k \in 1 .. Len(s)
      BY <1>1, <2>1
    <3> QED BY <1>1, <3>1 DEF Quiet
  <2>2. CASE k > Len(s)
    <3> DEFINE i == k - Len(s)
    <3>1. i \in 1 .. Len(t) /\ k = Len(s) + i
      BY <1>1, <2>2
    <3> HIDE DEF i
    <3> QED BY <1>1, <3>1 DEF Quiet
  <2> QED BY <1>1, <2>1, <2>2
<1> QED BY <1>1, <1>2 DEF Quiet

LEMMA QuietOne == ASSUME NEW i, i.waits = {}, i.sets = {} PROVE Quiet(<<i>>)
<1>1. IsSeq(<<i>>) /\ Len(<<i>>) = 1 /\ <<i>>[1] = i
  BY OneList
<1> DEFINE s == <<i>>
<1> HIDE DEF s
<1>2. IsSeq(s) /\ Len(s) = 1 /\ s[1] = i
  BY <1>1 DEF s
<1>3. \A k \in 1 .. Len(s) : s[k] = i
  BY <1>2
<1> QED BY <1>2, <1>3 DEF Quiet, s

SwigluEvents == {<<"V_MTE3", 0>>, <<"MTE3_V", 0>>}
SwigluRings == {Ring(<<"V_MTE3", 0>>, <<"MTE3_V", 0>>, 0, 1, 0)}

LEMMA SwigluRingsGoAround == RingsOf(SwigluRings, SwigluEvents, {})
<1> DEFINE r == Ring(<<"V_MTE3", 0>>, <<"MTE3_V", 0>>, 0, 1, 0)
<1>1. /\ r.a = <<"V_MTE3", 0>> /\ r.b = <<"MTE3_V", 0>> /\ Most(r) = 1 /\ r.most \in [Pipes -> Nat]
  BY RingFields
<1>2. <<"V_MTE3", 0>> # <<"MTE3_V", 0>>
  OBVIOUS
<1> HIDE DEF r
<1>3. SwigluRings = {r}
  BY DEF SwigluRings, r
<1> QED BY <1>1, <1>2, <1>3 DEF RingsOf, SwigluEvents, Once

\* V hands the scales over, MTE3 copies the outputs, and V waits for the last copy.
LEMMA HandedOver ==
    ASSUME NEW x, NEW y, NEW z, NEW w,
           Is(x, "V", {}, {<<"V_MTE3", 0>>}), Is(y, "MTE3", {<<"V_MTE3", 0>>}, {}),
           Is(z, "MTE3", {}, {<<"MTE3_V", 0>>}), Is(w, "V", {<<"MTE3_V", 0>>}, {})
    PROVE  /\ IsSeq(<<x, y, z, w>>) /\ Within(<<x, y, z, w>>, SwigluEvents)
           /\ \A e \in SwigluEvents : Flow(<<x, y, z, w>>, e) = 0
           /\ \A p \in Pipes : Fits(<<x, y, z, w>>, p, <<"V_MTE3", 0>>, <<"MTE3_V", 0>>, IF p = "V" THEN 1 ELSE 0, 0)
<1> DEFINE a == <<"V_MTE3", 0>>  b == <<"MTE3_V", 0>>
           xy == <<x>> \o <<y>>  xyz == xy \o <<z>>  all == xyz \o <<w>>
<1>1. <<x, y, z, w>> = all
  <2>1. <<x, y>> = xy
    BY ListCatTwo
  <2> HIDE DEF xy
  <2>2. <<x, y, z>> = xyz
    BY <2>1, ListCatThree
  <2> HIDE DEF xyz
  <2> QED BY <2>2, ListCatFour
<1>2. "V" \in Pipes /\ "MTE3" \in Pipes /\ a # b /\ SwigluEvents = {a, b}
  BY DEF Pipes, SwigluEvents
<1> HIDE DEF a, b
<1>3. /\ Is(x, "V", {}, {a}) /\ Is(y, "MTE3", {a}, {}) /\ Is(z, "MTE3", {}, {b}) /\ Is(w, "V", {b}, {})
  BY DEF a, b
<1>4. /\ Gain({}, {a}, a) = -1 /\ Gain({}, {a}, b) = 0 /\ Gain({a}, {}, a) = 1 /\ Gain({a}, {}, b) = 0
      /\ Gain({}, {b}, a) = 0 /\ Gain({}, {b}, b) = -1 /\ Gain({b}, {}, a) = 0 /\ Gain({b}, {}, b) = 1
  BY <1>2 DEF Gain, Once
<1>5. /\ IsSeq(<<x>>) /\ Within(<<x>>, SwigluEvents) /\ Flow(<<x>>, a) = -1 /\ Flow(<<x>>, b) = 0
  BY <1>2, <1>3, <1>4, OneFlow
<1>6. /\ IsSeq(<<y>>) /\ Within(<<y>>, SwigluEvents) /\ Flow(<<y>>, a) = 1 /\ Flow(<<y>>, b) = 0
  BY <1>2, <1>3, <1>4, OneFlow
<1>7. /\ IsSeq(<<z>>) /\ Within(<<z>>, SwigluEvents) /\ Flow(<<z>>, a) = 0 /\ Flow(<<z>>, b) = -1
  BY <1>2, <1>3, <1>4, OneFlow
<1>8. /\ IsSeq(<<w>>) /\ Within(<<w>>, SwigluEvents) /\ Flow(<<w>>, a) = 0 /\ Flow(<<w>>, b) = 1
  BY <1>2, <1>3, <1>4, OneFlow
<1>9. IsSeq(xy) /\ Within(xy, SwigluEvents)
  BY <1>5, <1>6, CatSeq, WithinCat
<1>10. IsSeq(xyz) /\ Within(xyz, SwigluEvents)
  <2> HIDE DEF xy
  <2> QED BY <1>7, <1>9, CatSeq, WithinCat
<1>11. IsSeq(all) /\ Within(all, SwigluEvents)
  <2> HIDE DEF xyz
  <2> QED BY <1>8, <1>10, CatSeq, WithinCat
<1>12. ASSUME NEW e \in SwigluEvents PROVE Flow(all, e) = 0
  <2>1. Flow(xy, e) = Flow(<<x>>, e) + Flow(<<y>>, e)
    BY <1>5, <1>6, FlowCat
  <2>2. Flow(xyz, e) = Flow(xy, e) + Flow(<<z>>, e)
    <3> HIDE DEF xy
    <3> QED BY <1>7, <1>9, FlowCat
  <2>3. Flow(all, e) = Flow(xyz, e) + Flow(<<w>>, e)
    <3> HIDE DEF xyz
    <3> QED BY <1>8, <1>10, FlowCat
  <2> HIDE DEF all, xyz, xy
  <2>4. CASE e = a
    BY <1>5, <1>6, <1>7, <1>8, <2>1, <2>2, <2>3, <2>4
  <2>5. CASE e = b
    BY <1>5, <1>6, <1>7, <1>8, <2>1, <2>2, <2>3, <2>5
  <2> QED BY <1>2, <2>4, <2>5
<1>13. ASSUME NEW p \in Pipes PROVE Fits(all, p, a, b, IF p = "V" THEN 1 ELSE 0, 0)
  <2>1. CASE p = "MTE2"
    <3>1. /\ Fits(<<x>>, p, a, b, 0, 0) /\ Fits(<<y>>, p, a, b, 0, 0)
          /\ Fits(<<z>>, p, a, b, 0, 0) /\ Fits(<<w>>, p, a, b, 0, 0)
      BY <1>3, <2>1, OneOther
    <3>2. Fits(xy, p, a, b, 0, 0 + 0)
      BY <3>1, FitsCat
    <3> HIDE DEF xy
    <3>3. Fits(xyz, p, a, b, 0, 0 + 0)
      BY <3>1, <3>2, FitsCat
    <3> HIDE DEF xyz
    <3>4. Fits(all, p, a, b, 0, 0 + 0)
      BY <3>1, <3>3, FitsCat
    <3> QED BY <2>1, <3>4
  <2>2. CASE p = "V"
    <3>1. /\ Fits(<<y>>, p, a, b, 0, 0) /\ Fits(<<z>>, p, a, b, 0, 0)
      BY <1>3, <2>2, OneOther
    <3>2. Fits(<<x>>, p, a, b, 0, -1)
      BY <1>3, <1>4, <2>2, OneThis
    <3>3. Fits(<<w>>, p, a, b, 1, 1)
      BY <1>3, <1>4, <2>2, OneThis
    <3>4. Fits(xy, p, a, b, 0, (-1) + 0)
      BY <3>1, <3>2, FitsCat
    <3> HIDE DEF xy
    <3>5. Fits(xyz, p, a, b, 0, -1)
      <4>1. Fits(xyz, p, a, b, 0, (-1) + 0)
        BY <3>1, <3>4, FitsCat
      <4> QED BY <4>1
    <3> HIDE DEF xyz
    <3>6. Fits(all, p, a, b, 1, (-1) + 1)
      BY <3>3, <3>5, FitsCat
    <3> QED BY <2>2, <3>6
  <2>3. CASE p = "MTE3"
    <3>1. /\ Fits(<<x>>, p, a, b, 0, 0) /\ Fits(<<w>>, p, a, b, 0, 0)
      BY <1>3, <2>3, OneOther
    <3>2. Fits(<<y>>, p, a, b, 1, 1)
      BY <1>3, <1>4, <2>3, OneThis
    <3>3. Fits(<<z>>, p, a, b, 0, -1)
      BY <1>3, <1>4, <2>3, OneThis
    <3>4. Fits(xy, p, a, b, 1, 0 + 1)
      BY <3>1, <3>2, FitsCat
    <3> HIDE DEF xy
    <3>5. Fits(xyz, p, a, b, 0, 0)
      <4>1. Fits(xyz, p, a, b, 0, 1 + (-1))
        BY <3>3, <3>4, FitsCat
      <4> QED BY <4>1
    <3> HIDE DEF xyz
    <3>6. Fits(all, p, a, b, 0, 0 + 0)
      BY <3>1, <3>5, FitsCat
    <3> QED BY <2>3, <3>6
  <2> QED BY <2>1, <2>2, <2>3, PipeCases
<1> QED BY <1>1, <1>11, <1>12, <1>13 DEF a, b

\* Issuing a list that goes around in the rings.
LEMMA CallKeeps ==
    ASSUME Cores, NEW c \in SubBlocks, NEW E, NEW F, NEW R, RingsOf(R, E, F), Paired(flag[c], queue[c], E, F, R),
           NEW op, NEW fields, NEW instrs, Call(c, op, fields, instrs), Good(instrs, queue[c], E, R)
    PROVE  Paired(flag'[c], queue'[c], E, F, R)
<1> DEFINE bag == flag[c]  qs == queue[c]
<1>1. Paired(bag, qs, E, F, R) /\ Good(instrs, qs, E, R)
  OBVIOUS
<1>2. flag'[c] = bag /\ queue'[c] = [p \in Pipes |-> qs[p] \o OfPipe(instrs, p)]
  BY CallChanges
<1> HIDE DEF bag, qs
<1>3. Paired(bag, [p \in Pipes |-> qs[p] \o OfPipe(instrs, p)], E, F, R)
  BY <1>1, PairedCall
<1> QED BY <1>2, <1>3

LEMMA SwigluPlain ==
    ASSUME NEW c, NEW o, NEW call, NEW rows, NEW n
    PROVE  Quiet(<<Swiglu!MatmulResults(c, o, call, rows)>> \o Swiglu!VFDoSwigluAndQuantForMX(rows, n))
<1> DEFINE m == Swiglu!MatmulResults(c, o, call, rows)
           x == Swiglu!Swiglu(rows, n)
           y == Swiglu!ComputeMaxExp(rows, n)
           z == Swiglu!ComputeScale(rows, n)
           w == IF Swiglu!Fp4 THEN Swiglu!ComputeDataForQuantTargetFp4(rows, n)
                              ELSE Swiglu!ComputeDataForQuantTargetFp8(rows, n)
<1>1. m.waits = {} /\ m.sets = {}
  BY DEF Swiglu!MatmulResults, Swiglu!Compute, Swiglu!Instr
<1>2. x.waits = {} /\ x.sets = {}
  BY DEF Swiglu!Swiglu, Swiglu!Compute, Swiglu!Instr
<1>3. y.waits = {} /\ y.sets = {}
  BY DEF Swiglu!ComputeMaxExp, Swiglu!Compute, Swiglu!Instr
<1>4. z.waits = {} /\ z.sets = {}
  BY DEF Swiglu!ComputeScale, Swiglu!Compute, Swiglu!Instr
<1>5. w.waits = {} /\ w.sets = {}
  BY DEF Swiglu!ComputeDataForQuantTargetFp4, Swiglu!ComputeDataForQuantTargetFp8, Swiglu!Compute, Swiglu!Instr
<1>6. Swiglu!VFDoSwigluAndQuantForMX(rows, n) = <<x, y, z, w>>
  BY DEF Swiglu!VFDoSwigluAndQuantForMX
<1> HIDE DEF m, x, y, z, w
<1>7. Quiet(<<m>>) /\ Quiet(<<x>>) /\ Quiet(<<y>>) /\ Quiet(<<z>>) /\ Quiet(<<w>>)
  BY <1>1, <1>2, <1>3, <1>4, <1>5, QuietOne
<1>8. Quiet(<<x, y>>)
  BY <1>7, QuietCat, ListCatTwo
<1>9. Quiet(<<x, y, z>>)
  BY <1>7, <1>8, QuietCat, ListCatThree
<1>10. Quiet(<<x, y, z, w>>)
  BY <1>7, <1>9, QuietCat, ListCatFour
<1> QED BY <1>6, <1>7, <1>10, QuietCat DEF m

LEMMA SwigluHandsOver ==
    ASSUME NEW o, NEW offset, NEW scaleOffset, NEW rows, NEW n
    PROVE  /\ Is(Swiglu!TransMxScaleLayout(rows, n), "V", {}, {<<"V_MTE3", 0>>})
           /\ Is(Swiglu!CopyOutputFromUb2Gm(o, offset, rows, n), "MTE3", {<<"V_MTE3", 0>>}, {})
           /\ Is(Swiglu!CopyScaleFromUb2Gm(o, scaleOffset, rows, n), "MTE3", {}, {<<"MTE3_V", 0>>})
           /\ Is(Swiglu!Compute({<<"MTE3_V", 0>>}, {}, <<>>), "V", {<<"MTE3_V", 0>>}, {})
BY DEF Is, Swiglu!TransMxScaleLayout, Swiglu!CopyOutputFromUb2Gm, Swiglu!CopyScaleFromUb2Gm, Swiglu!Compute,
       Swiglu!CopyOut, Swiglu!Instr

\* What DoBlock issues.
LEMMA SwigluList ==
    ASSUME NEW c, NEW o, NEW call, NEW rows, NEW n, NEW offset, NEW scaleOffset, NEW qs
    PROVE  Good(<<Swiglu!MatmulResults(c, o, call, rows)>>
                  \o Swiglu!VFDoSwigluAndQuantForMX(rows, n)
                  \o << Swiglu!TransMxScaleLayout(rows, n), Swiglu!CopyOutputFromUb2Gm(o, offset, rows, n),
                        Swiglu!CopyScaleFromUb2Gm(o, scaleOffset, rows, n),
                        Swiglu!Compute({<<"MTE3_V", 0>>}, {}, <<>>) >>, qs, SwigluEvents, SwigluRings)
<1> DEFINE s == <<Swiglu!MatmulResults(c, o, call, rows)>> \o Swiglu!VFDoSwigluAndQuantForMX(rows, n)
           t == << Swiglu!TransMxScaleLayout(rows, n), Swiglu!CopyOutputFromUb2Gm(o, offset, rows, n),
                   Swiglu!CopyScaleFromUb2Gm(o, scaleOffset, rows, n),
                   Swiglu!Compute({<<"MTE3_V", 0>>}, {}, <<>>) >>
           a == <<"V_MTE3", 0>>
           b == <<"MTE3_V", 0>>
           most(p) == IF p = "V" THEN 1 ELSE 0
<1>1. /\ Quiet(s) /\ IsSeq(s) /\ Within(s, SwigluEvents) /\ \A e : Flow(s, e) = 0
      /\ \A p : Fits(s, p, a, b, 0, 0)
  <2>1. Quiet(s)
    BY SwigluPlain
  <2> HIDE DEF s
  <2> QED BY <2>1, QuietList DEF Quiet
<1>2. /\ IsSeq(t) /\ Within(t, SwigluEvents) /\ \A e \in SwigluEvents : Flow(t, e) = 0
      /\ \A p \in Pipes : Fits(t, p, a, b, most(p), 0)
  BY SwigluHandsOver, HandedOver
<1> HIDE DEF s, t
<1>3. IsSeq(s \o t) /\ Within(s \o t, SwigluEvents)
  BY <1>1, <1>2, CatSeq, WithinCat
<1>4. \A e \in SwigluEvents : Flow(s \o t, e) = 0
  <2> TAKE e \in SwigluEvents
  <2>1. Flow(s \o t, e) = Flow(s, e) + Flow(t, e) /\ Flow(s, e) = 0 /\ Flow(t, e) = 0
    BY <1>1, <1>2, FlowCat
  <2> QED BY <2>1
<1>5. ASSUME NEW r \in SwigluRings, NEW p \in Pipes PROVE Fits(s \o t, p, r.a, r.b, r.most[p], 0)
  <2>1. r.a = a /\ r.b = b /\ r.most[p] = most(p)
    <3>1. r = Ring(a, b, 0, 1, 0)
      BY DEF SwigluRings
    <3>2. r.a = a /\ r.b = b /\ r.most[p] = IF p = "MTE2" THEN 0 ELSE IF p = "V" THEN 1 ELSE 0
      BY <3>1, RingFields
    <3> QED BY <3>2
  <2>2. most(p) \in Int /\ 0 <= most(p)
    OBVIOUS
  <2> HIDE DEF most, a, b
  <2>3. Fits(s \o t, p, a, b, most(p), 0 + 0)
    <3> DEFINE y == most(p)
    <3>1. y \in Int /\ 0 + 0 <= y
      BY <2>2
    <3>2. Fits(s, p, a, b, 0, 0) /\ Fits(t, p, a, b, y, 0)
      BY <1>1, <1>2
    <3> HIDE DEF y
    <3>3. Fits(s \o t, p, a, b, y, 0 + 0)
      BY <3>1, <3>2, FitsCat
    <3> QED BY <3>3 DEF y
  <2> QED BY <2>1, <2>3
<1>6. Good(s \o t, qs, SwigluEvents, SwigluRings)
  BY <1>3, <1>4, <1>5, GoodFrom
<1> QED BY <1>6 DEF s, t

SwigluCore(bag, qs) == Paired(bag, qs, SwigluEvents, {}, SwigluRings)

LEMMA SwigluStart ==
    ASSUME Swiglu!InitSwiglu
    PROVE  Cores /\ \A c \in SubBlocks : SwigluCore(flag[c], queue[c])
<1> DEFINE o == [n |-> 0, scaleN |-> 0, yGlobal |-> 0, scaleGlobal |-> 0]
<1>1. Boot(Swiglu!CallsOf, o, {})
  BY DEF Swiglu!InitSwiglu, Swiglu!Boot, Boot, Swiglu!Pipes, Pipes, Swiglu!SetToBag, SetToBag
<1>2. Cores /\ \A c \in SubBlocks : flag[c] = SetToBag({}) /\ queue[c] = [p \in Pipes |-> <<>>]
  BY <1>1, BootChanges
<1>3. Paired(SetToBag({}), [p \in Pipes |-> <<>>], SwigluEvents, {}, SwigluRings)
  BY SwigluRingsGoAround, PairedAtFirst
<1> QED BY <1>2, <1>3 DEF SwigluCore

LEMMA SwigluStep ==
    ASSUME Cores, NEW c \in SubBlocks, SwigluCore(flag[c], queue[c]), Swiglu!NextSwiglu(c)
    PROVE  /\ Cores' /\ job' = job /\ \A d \in SubBlocks : d # c => Unchanged(d)
           /\ SwigluCore(flag'[c], queue'[c])
<1>1. Good(<<>>, queue[c], SwigluEvents, SwigluRings)
  BY SwigluRingsGoAround, GoodNothing
<1>2. \E op, fields, instrs : Call(c, op, fields, instrs) /\ Good(instrs, queue[c], SwigluEvents, SwigluRings)
  <2>1. CASE Swiglu!UpdateNextProblem(c)
    <3>1. \E op, fields : Call(c, op, fields, <<>>)
      BY <2>1, SameInSwiglu DEF Swiglu!UpdateNextProblem
    <3> QED BY <1>1, <3>1
  <2>2. CASE Swiglu!UpdateGlobalAddr(c)
    <3>1. \E op, fields : Call(c, op, fields, <<>>)
      BY <2>2, SameInSwiglu DEF Swiglu!UpdateGlobalAddr
    <3> QED BY <1>1, <3>1
  <2>3. CASE Swiglu!DoBlock(c)
    <3> DEFINE call == Head(calls[c])
               o == obj[c]
               rows == Swiglu!SingleMInVec(c, call.m)
               below == c * Swiglu!HalfSingleM(call.m)
               s == <<Swiglu!MatmulResults(c, o, call, rows)>>
                      \o Swiglu!VFDoSwigluAndQuantForMX(rows, call.n)
                      \o << Swiglu!TransMxScaleLayout(rows, call.n),
                            Swiglu!CopyOutputFromUb2Gm(o, call.coord.y + (below * o.n), rows, call.n),
                            Swiglu!CopyScaleFromUb2Gm(o, call.coord.yScale + (below * o.scaleN), rows, call.n),
                            Swiglu!Compute({<<"MTE3_V", 0>>}, {}, <<>>) >>
    <3>1. Call(c, "DoBlock", o, IF rows = 0 THEN <<>> ELSE s)
      BY <2>3, SameInSwiglu DEF Swiglu!DoBlock
    <3>2. Good(s, queue[c], SwigluEvents, SwigluRings)
      BY SwigluList
    <3> HIDE DEF s, rows
    <3> QED BY <1>1, <3>1, <3>2
  <2> QED BY <2>1, <2>2, <2>3 DEF Swiglu!NextSwiglu
<1>3. PICK op, fields, instrs : Call(c, op, fields, instrs) /\ Good(instrs, queue[c], SwigluEvents, SwigluRings)
  BY <1>2
<1>4. Cores' /\ job' = job /\ \A d \in SubBlocks : d # c => Unchanged(d)
  BY <1>3, CallChanges
<1>5. SwigluCore(flag'[c], queue'[c])
  BY <1>3, SwigluRingsGoAround, CallKeeps DEF SwigluCore
<1> QED BY <1>4, <1>5

-----------------------------------------------------------------------------
(* What a list does to two events: the sums, and for each pipe how much it *)
(* takes from no place on, and as a whole.                                  *)
Does(s, a, b, f, g, m2, t2, mv, tv, m3, t3) ==
    /\ IsSeq(s) /\ Flow(s, a) = f /\ Flow(s, b) = g
    /\ Fits(s, "MTE2", a, b, m2, t2) /\ Fits(s, "V", a, b, mv, tv) /\ Fits(s, "MTE3", a, b, m3, t3)

LEMMA DoesCat ==
    ASSUME NEW s, NEW t, NEW a, NEW b,
           NEW f \in Int, NEW g \in Int, NEW m2 \in Int, NEW t2 \in Int, NEW mv \in Int, NEW tv \in Int, NEW m3 \in Int, NEW t3 \in Int,
           NEW h \in Int, NEW i \in Int, NEW n2 \in Int, NEW u2 \in Int, NEW nv \in Int, NEW uv \in Int, NEW n3 \in Int, NEW u3 \in Int,
           Does(s, a, b, f, g, m2, t2, mv, tv, m3, t3), Does(t, a, b, h, i, n2, u2, nv, uv, n3, u3),
           m2 + u2 <= n2, mv + uv <= nv, m3 + u3 <= n3
    PROVE  Does(s \o t, a, b, f + h, g + i, n2, t2 + u2, nv, tv + uv, n3, t3 + u3)
<1>1. IsSeq(s) /\ IsSeq(t)
  BY DEF Does
<1>2. IsSeq(s \o t)
  BY <1>1, CatSeq
<1>3. Flow(s \o t, a) = f + h /\ Flow(s \o t, b) = g + i
  BY <1>1, FlowCat DEF Does
<1>4. Fits(s \o t, "MTE2", a, b, n2, t2 + u2)
  BY FitsCat DEF Does
<1>5. Fits(s \o t, "V", a, b, nv, tv + uv)
  BY FitsCat DEF Does
<1>6. Fits(s \o t, "MTE3", a, b, n3, t3 + u3)
  BY FitsCat DEF Does
<1> QED BY <1>2, <1>3, <1>4, <1>5, <1>6 DEF Does

LEMMA DoesMore ==
    ASSUME NEW s, NEW a, NEW b, NEW f, NEW g,
           NEW m2 \in Int, NEW t2 \in Int, NEW mv \in Int, NEW tv \in Int, NEW m3 \in Int, NEW t3 \in Int,
           NEW n2 \in Int, NEW u2 \in Int, NEW nv \in Int, NEW uv \in Int, NEW n3 \in Int, NEW u3 \in Int,
           Does(s, a, b, f, g, m2, t2, mv, tv, m3, t3),
           m2 <= n2, mv <= nv, m3 <= n3, t2 <= u2, tv <= uv, t3 <= u3
    PROVE  Does(s, a, b, f, g, n2, u2, nv, uv, n3, u3)
<1>1. Fits(s, "MTE2", a, b, n2, u2)
  BY FitsMore DEF Does
<1>2. Fits(s, "V", a, b, nv, uv)
  BY FitsMore DEF Does
<1>3. Fits(s, "MTE3", a, b, n3, u3)
  BY FitsMore DEF Does
<1> QED BY <1>1, <1>2, <1>3 DEF Does

DoesNothing(s, a, b) == Does(s, a, b, 0, 0, 0, 0, 0, 0, 0, 0)

LEMMA NothingCat ==
    ASSUME NEW s, NEW t, NEW a, NEW b, DoesNothing(s, a, b), DoesNothing(t, a, b)
    PROVE  DoesNothing(s \o t, a, b)
<1>1. Does(s \o t, a, b, 0 + 0, 0 + 0, 0, 0 + 0, 0, 0 + 0, 0, 0 + 0)
  BY DoesCat DEF DoesNothing
<1> QED BY <1>1 DEF DoesNothing

LEMMA UntouchedDoesNothing ==
    ASSUME NEW s, IsSeq(s), NEW a, NEW b,
           \A i \in 1 .. Len(s) : a \notin s[i].waits \cup s[i].sets /\ b \notin s[i].waits \cup s[i].sets
    PROVE  DoesNothing(s, a, b)
<1>1. \A i \in 1 .. Len(s) : \A p : Net(s[i], p, a) = 0 /\ Net(s[i], p, b) = 0
  BY DEF Net
<1>2. ASSUME NEW p PROVE Fits(s, p, a, b, 0, 0) /\ Total(s, p, a) = 0 /\ Total(s, p, b) = 0
  <2>1. \A i \in 1 .. Len(s) : Net(s[i], p, a) + Net(s[i], p, b) = 0
    BY <1>1
  <2>2. \A i \in 1 .. Len(s) : Net(s[i], p, a) = 0
    BY <1>1
  <2>3. \A i \in 1 .. Len(s) : Net(s[i], p, b) = 0
    BY <1>1
  <2> QED BY <2>1, <2>2, <2>3, Neutral, Silent
<1> QED BY <1>2 DEF DoesNothing, Does, Flow

\* One instruction.
LEMMA DoesOne ==
    ASSUME NEW i, NEW q \in Pipes, NEW w, NEW s, Is(i, q, w, s), NEW a, NEW b,
           NEW f \in Int, f = Gain(w, s, a), NEW g \in Int, g = Gain(w, s, b),
           NEW m \in Int, 0 <= m, f + g <= m
    PROVE  /\ q = "MTE2" => Does(<<i>>, a, b, f, g, m, f + g, 0, 0, 0, 0)
           /\ q = "V" => Does(<<i>>, a, b, f, g, 0, 0, m, f + g, 0, 0)
           /\ q = "MTE3" => Does(<<i>>, a, b, f, g, 0, 0, 0, 0, m, f + g)
<1>1. IsSeq(<<i>>) /\ Flow(<<i>>, a) = f /\ Flow(<<i>>, b) = g
  BY OneFlow
<1>2. \A p : p # q => Fits(<<i>>, p, a, b, 0, 0)
  BY OneOther
<1>3. Fits(<<i>>, q, a, b, m, f + g)
  <2>1. f + g \in Int
    OBVIOUS
  <2> QED BY <2>1, OneThis
<1> QED BY <1>1, <1>2, <1>3 DEF Does

\* A list put together from lists: only the first takes more than it gives.
LEMMA DoesFlatten ==
    ASSUME NEW seqs, IsSeq(seqs), Len(seqs) >= 1, NEW a, NEW b,
           NEW f \in Int, NEW g \in Int, NEW m2 \in Int, NEW t2 \in Int, NEW mv \in Int, NEW tv \in Int, NEW m3 \in Int, NEW t3 \in Int,
           Does(seqs[1], a, b, f, g, m2, t2, mv, tv, m3, t3),
           \A i \in 2 .. Len(seqs) : Does(seqs[i], a, b, 0, 0, m2, 0, mv, 0, m3, 0)
    PROVE  Does(FlattenSeq(seqs), a, b, f, g, m2, t2, mv, tv, m3, t3)
<1>1. Len(seqs) \in Nat
  BY SeqFacts
<1>2. ASSUME NEW i \in 1 .. Len(seqs) PROVE IsSeq(seqs[i])
  <2>1. i = 1 \/ i \in 2 .. Len(seqs)
    BY <1>1
  <2> QED BY <2>1 DEF Does
<1>3. /\ \A i \in 2 .. Len(seqs) : Flow(seqs[i], a) = 0
      /\ \A i \in 2 .. Len(seqs) : Flow(seqs[i], b) = 0
      /\ \A i \in 2 .. Len(seqs) : Fits(seqs[i], "MTE2", a, b, m2, 0)
      /\ \A i \in 2 .. Len(seqs) : Fits(seqs[i], "V", a, b, mv, 0)
      /\ \A i \in 2 .. Len(seqs) : Fits(seqs[i], "MTE3", a, b, m3, 0)
  BY DEF Does
<1>4. Flow(FlattenSeq(seqs), a) = f
  BY <1>2, <1>3, FlattenFlow DEF Does
<1>5. Flow(FlattenSeq(seqs), b) = g
  BY <1>2, <1>3, FlattenFlow DEF Does
<1>6. Fits(FlattenSeq(seqs), "MTE2", a, b, m2, t2)
  BY <1>2, <1>3, FlattenFits DEF Does
<1>7. Fits(FlattenSeq(seqs), "V", a, b, mv, tv)
  BY <1>2, <1>3, FlattenFits DEF Does
<1>8. Fits(FlattenSeq(seqs), "MTE3", a, b, m3, t3)
  BY <1>2, <1>3, FlattenFits DEF Does
<1> QED BY <1>4, <1>5, <1>6, <1>7, <1>8 DEF Does, Fits

LEMMA FlattenWithin ==
    ASSUME NEW seqs, IsSeq(seqs), NEW E, \A i \in 1 .. Len(seqs) : IsSeq(seqs[i]) /\ Within(seqs[i], E)
    PROVE  Within(FlattenSeq(seqs), E)
<1>1. ASSUME NEW k \in 1 .. Len(FlattenSeq(seqs))
      PROVE  FlattenSeq(seqs)[k].waits \cup FlattenSeq(seqs)[k].sets \subseteq E
  <2>1. PICK i \in 1 .. Len(seqs) : \E l \in 1 .. Len(seqs[i]) : FlattenSeq(seqs)[k] = seqs[i][l]
    BY FlattenRange
  <2> QED BY <2>1 DEF Within
<1> QED BY <1>1 DEF Within

\* A list that suits a ring.
Suits(s, qs, r) ==
    /\ Flow(s, r.a) = 0 /\ Flow(s, r.b) = 0
    /\ \A p \in Pipes : /\ Below(s, p, r.a, r.b, r.most[p])
                        /\ qs[p] = <<>> \/ Pair(s, p, r.a, r.b) <= 0

LEMMA RingSuits ==
    ASSUME NEW s, NEW qs, NEW a, NEW b, NEW x \in Int, NEW y \in Int, NEW z \in Int,
           NEW t2 \in Int, NEW tv \in Int, NEW t3 \in Int, Does(s, a, b, 0, 0, x, t2, y, tv, z, t3),
           qs["MTE2"] = <<>> \/ t2 <= 0, qs["V"] = <<>> \/ tv <= 0, qs["MTE3"] = <<>> \/ t3 <= 0
    PROVE  Suits(s, qs, Ring(a, b, x, y, z))
<1> DEFINE r == Ring(a, b, x, y, z)
<1>1. /\ r.a = a /\ r.b = b /\ r.most["MTE2"] = x /\ r.most["V"] = y /\ r.most["MTE3"] = z
  <2>1. r.a = a /\ r.b = b /\ \A p \in Pipes : r.most[p] = IF p = "MTE2" THEN x ELSE IF p = "V" THEN y ELSE z
    BY RingFields
  <2> HIDE DEF r
  <2> QED BY <2>1 DEF Pipes
<1> HIDE DEF r
<1>2. \A p : Pair(s, p, a, b) \in Int
  BY TakenType DEF Pair, Does
<1>3. /\ Below(s, "MTE2", a, b, x) /\ Below(s, "V", a, b, y) /\ Below(s, "MTE3", a, b, z)
      /\ Pair(s, "MTE2", a, b) <= t2 /\ Pair(s, "V", a, b) <= tv /\ Pair(s, "MTE3", a, b) <= t3
  BY DEF Does, Fits
<1>4. ASSUME NEW p \in Pipes
      PROVE  Below(s, p, r.a, r.b, r.most[p]) /\ (qs[p] = <<>> \/ Pair(s, p, r.a, r.b) <= 0)
  <2>1. CASE p = "MTE2"
    BY <1>1, <1>2, <1>3, <2>1
  <2>2. CASE p = "V"
    BY <1>1, <1>2, <1>3, <2>2
  <2>3. CASE p = "MTE3"
    BY <1>1, <1>2, <1>3, <2>3
  <2> QED BY <2>1, <2>2, <2>3, PipeCases
<1> QED BY <1>1, <1>4 DEF Suits, Does, r

LEMMA GoodWhenSuits ==
    ASSUME NEW s, NEW qs, NEW E, NEW R, NEW F, RingsOf(R, E, F), IsSeq(s), Within(s, E), \A r \in R : Suits(s, qs, r)
    PROVE  Good(s, qs, E, R)
<1>1. \A e \in E : Flow(s, e) = 0
  BY DEF RingsOf, Suits
<1> QED BY <1>1 DEF Good, Suits

-----------------------------------------------------------------------------
(* Finalize-routing: the events of the prologue and the epilogue, and the  *)
(* rings they go around in.                                                *)
Read(k) == <<"MTE2_V", k>>
ReadBack(k) == <<"V_MTE2", k>>
Made(k) == <<"V_MTE3", k>>
Written(k) == <<"MTE3_V", k>>

FinalizeEvents ==
  {Read(0), Read(1), ReadBack(0), ReadBack(1), Made(0), Made(1), Written(0), Written(1)}

\* While the prologue fills the output: nothing is given back for Made, so it is set once.
FillingRings ==
  {Ring(Read(0), ReadBack(0), 1, 0, 0), Ring(Read(1), ReadBack(1), 1, 0, 0),
   Ring(Made(0), Written(0), 0, 0, 1), Ring(Made(1), Written(1), 0, 0, 1)}

\* While the epilogue adds rows to it.
AddingRings ==
  {Ring(Read(0), ReadBack(1), 1, 0, 0), Ring(Read(1), ReadBack(0), 1, 0, 0),
   Ring(Made(0), Written(0), 0, 1, 0), Ring(Made(1), Written(1), 0, 1, 0)}

\* What RingsOf asks of one ring.
GoesAround(r, E, F) ==
  /\ r.a \in E /\ r.b \in E /\ r.a # r.b /\ r.most \in [Pipes -> Nat]
  /\ Once(F, r.a) + Once(F, r.b) + Most(r) <= 1

LEMMA RingGoesAround ==
    ASSUME NEW a, NEW b, NEW x \in Nat, NEW y \in Nat, NEW z \in Nat, NEW E, a \in E, b \in E, a # b, x + y + z <= 1
    PROVE  GoesAround(Ring(a, b, x, y, z), E, {})
<1> DEFINE r == Ring(a, b, x, y, z)
<1>1. r.a = a /\ r.b = b /\ Most(r) = x + y + z /\ r.most \in [Pipes -> Nat]
  BY RingFields
<1>2. Once({}, a) = 0 /\ Once({}, b) = 0
  BY DEF Once
<1> HIDE DEF r
<1>3. Once({}, r.a) + Once({}, r.b) + Most(r) <= 1
  BY <1>1, <1>2
<1> QED BY <1>1, <1>3 DEF GoesAround, r

LEMMA FinalizeNames == \A j, k : Read(j) # ReadBack(k) /\ Made(j) # Written(k)
BY DEF Read, ReadBack, Made, Written

\* Two rings of each pair that hold all events.
LEMMA FourRings ==
    ASSUME NEW R, NEW p \in {0, 1}, NEW q \in {0, 1}, p # q, NEW v \in Nat, NEW z \in Nat, v + z <= 1,
           R = {Ring(Read(0), ReadBack(p), 1, 0, 0), Ring(Read(1), ReadBack(q), 1, 0, 0),
                Ring(Made(0), Written(0), 0, v, z), Ring(Made(1), Written(1), 0, v, z)}
    PROVE  RingsOf(R, FinalizeEvents, {})
<1> DEFINE E == FinalizeEvents
<1>1. /\ Read(0) \in E /\ Read(1) \in E /\ ReadBack(p) \in E /\ ReadBack(q) \in E /\ Made(0) \in E /\ Made(1) \in E
      /\ Written(0) \in E /\ Written(1) \in E
  BY DEF FinalizeEvents
<1>2. {} \subseteq E
  OBVIOUS
<1>3. ASSUME NEW e \in E PROVE \E r \in R : e \in {r.a, r.b}
  <2>1. ASSUME NEW a, NEW b, NEW x, NEW y, NEW w, Ring(a, b, x, y, w) \in R
        PROVE  \A u \in {a, b} : \E r \in R : u \in {r.a, r.b}
    <3> DEFINE s == Ring(a, b, x, y, w)
    <3>1. s.a = a /\ s.b = b
      BY RingFields
    <3> HIDE DEF s
    <3> QED BY <2>1, <3>1 DEF s
  <2>2. /\ \A u \in {Read(0), ReadBack(p)} : \E r \in R : u \in {r.a, r.b}
        /\ \A u \in {Read(1), ReadBack(q)} : \E r \in R : u \in {r.a, r.b}
        /\ \A u \in {Made(0), Written(0)} : \E r \in R : u \in {r.a, r.b}
        /\ \A u \in {Made(1), Written(1)} : \E r \in R : u \in {r.a, r.b}
    BY <2>1
  <2>3. E = {Read(0), Read(1), ReadBack(p), ReadBack(q), Made(0), Made(1), Written(0), Written(1)}
    BY DEF FinalizeEvents
  <2> QED BY <2>2, <2>3
<1>4. ASSUME NEW r \in R PROVE GoesAround(r, E, {})
  <2> HIDE DEF E
  <2>1. GoesAround(Ring(Read(0), ReadBack(p), 1, 0, 0), E, {})
    BY <1>1, FinalizeNames, RingGoesAround
  <2>2. GoesAround(Ring(Read(1), ReadBack(q), 1, 0, 0), E, {})
    BY <1>1, FinalizeNames, RingGoesAround
  <2>3. 0 + v + z <= 1
    OBVIOUS
  <2>4. GoesAround(Ring(Made(0), Written(0), 0, v, z), E, {})
    BY <1>1, <2>3, FinalizeNames, RingGoesAround
  <2>5. GoesAround(Ring(Made(1), Written(1), 0, v, z), E, {})
    BY <1>1, <2>3, FinalizeNames, RingGoesAround
  <2> QED BY <2>1, <2>2, <2>4, <2>5
<1> QED BY <1>2, <1>3, <1>4 DEF RingsOf, GoesAround

LEMMA FillingRingsGoAround == RingsOf(FillingRings, FinalizeEvents, {})
BY FourRings DEF FillingRings

LEMMA AddingRingsGoAround == RingsOf(AddingRings, FinalizeEvents, {})
BY FourRings DEF AddingRings

-----------------------------------------------------------------------------
(* Lists that go around in the rings.                                      *)

\* Lists that suit the rings.
LEMMA FillingGood ==
    ASSUME NEW s, NEW qs, IsSeq(s), Within(s, FinalizeEvents), \A p \in Pipes : qs[p] = <<>>,
           \A k \in {0, 1} : /\ Does(s, Read(k), ReadBack(k), 0, 0, 1, 0, 0, 0, 0, 0)
                             /\ Does(s, Made(k), Written(k), 0, 0, 0, 0, 0, 0, 1, 1)
    PROVE  Good(s, qs, FinalizeEvents, FillingRings)
<1>1. qs["MTE2"] = <<>> /\ qs["V"] = <<>> /\ qs["MTE3"] = <<>>
  BY DEF Pipes
<1>2. ASSUME NEW k \in {0, 1}
      PROVE  /\ Suits(s, qs, Ring(Read(k), ReadBack(k), 1, 0, 0)) /\ Suits(s, qs, Ring(Made(k), Written(k), 0, 0, 1))
  <2>1. Suits(s, qs, Ring(Read(k), ReadBack(k), 1, 0, 0))
    BY <1>1, RingSuits
  <2>2. Suits(s, qs, Ring(Made(k), Written(k), 0, 0, 1))
    BY <1>1, RingSuits
  <2> QED BY <2>1, <2>2
<1>3. \A r \in FillingRings : Suits(s, qs, r)
  BY <1>2 DEF FillingRings
<1> QED BY <1>3, FillingRingsGoAround, GoodWhenSuits

LEMMA AddingGood ==
    ASSUME NEW s, NEW qs, IsSeq(s), Within(s, FinalizeEvents), qs["V"] = <<>>,
           \A k \in {0, 1} : /\ Does(s, Read(k), ReadBack(1 - k), 0, 0, 1, 0, 0, 0, 0, 0)
                             /\ Does(s, Made(k), Written(k), 0, 0, 0, 0, 1, 1, 0, 0)
    PROVE  Good(s, qs, FinalizeEvents, AddingRings)
<1>1. ASSUME NEW k \in {0, 1}
      PROVE  /\ Suits(s, qs, Ring(Read(k), ReadBack(1 - k), 1, 0, 0)) /\ Suits(s, qs, Ring(Made(k), Written(k), 0, 1, 0))
  <2>1. Suits(s, qs, Ring(Read(k), ReadBack(1 - k), 1, 0, 0))
    BY RingSuits
  <2>2. Suits(s, qs, Ring(Made(k), Written(k), 0, 1, 0))
    BY RingSuits
  <2> QED BY <2>1, <2>2
<1>2. 1 - 0 = 1 /\ 1 - 1 = 0
  OBVIOUS
<1>3. \A r \in AddingRings : Suits(s, qs, r)
  BY <1>1, <1>2 DEF AddingRings
<1> QED BY <1>3, AddingRingsGoAround, GoodWhenSuits

-----------------------------------------------------------------------------
(* The prologue's lists.                                                   *)

LEMMA WithinUntouched ==
    ASSUME NEW s, NEW S, IsSeq(s), Within(s, S), NEW a, NEW b, a \notin S, b \notin S
    PROVE  DoesNothing(s, a, b)
<1>1. \A i \in 1 .. Len(s) : a \notin s[i].waits \cup s[i].sets /\ b \notin s[i].waits \cup s[i].sets
  BY DEF Within
<1> QED BY <1>1, UntouchedDoesNothing

LEMMA WithinMore == ASSUME NEW s, NEW S, NEW T, Within(s, S), S \subseteq T PROVE Within(s, T)
BY DEF Within

\* The sizes a core's part of a region has.
LEMMA PartSize ==
    ASSUME NEW c \in Nat, NEW total \in Nat, NEW share \in Nat, c * share <= total
    PROVE  /\ Finalize!Prologue!Part(c, total, share).size \in Nat
           /\ Finalize!Prologue!Part(c, total, share).size <= Least(total, share)
<1>1. c * share \in Nat
  BY MulMonotone
<1> DEFINE x == c * share
<1>2. Finalize!Prologue!Part(c, total, share).size = IF x + share > total THEN total - x ELSE share
  BY DEF Finalize!Prologue!Part
<1>3. x \in Nat /\ x <= total
  BY <1>1
<1> HIDE DEF x
<1> QED BY <1>2, <1>3 DEF Least

LEMMA ChunkList ==
    ASSUME NEW size \in Nat, NEW len \in Positive
    PROVE  /\ IsSeq(Finalize!Prologue!Chunks(size, len)) /\ Len(Finalize!Prologue!Chunks(size, len)) \in Nat
           /\ size <= 2 * len => Len(Finalize!Prologue!Chunks(size, len)) <= 2
<1> DEFINE s == Finalize!Prologue!Chunks(size, len)  n == CeilDiv(size, len)
<1>1. n \in Nat
  BY CeilDivType
<1>2. s = [i \in 1 .. n |-> s[i]]
  BY SameInPrologue DEF Finalize!Prologue!Chunks
<1>3. ASSUME size <= 2 * len PROVE n <= 2
  <2>1. ~(2 < CeilDiv(size, len))
    <3> SUFFICES ASSUME 2 < CeilDiv(size, len) PROVE FALSE
      OBVIOUS
    <3>1. 2 * len \in Nat /\ 2 * len < size
      BY CeilDivBelow
    <3> QED BY <1>3, <3>1
  <2> HIDE DEF n
  <2> QED BY <1>1, <2>1 DEF n
<1> HIDE DEF s, n
<1>4. IsSeq(s) /\ Len(s) = n
  BY <1>1, <1>2, SeqMade
<1> QED BY <1>1, <1>3, <1>4 DEF s

LEMMA AlignType == ASSUME NEW a \in Nat, NEW b \in Positive PROVE AlignUp(a, b) \in Nat
<1>1. CeilDiv(a, b) \in Nat /\ b \in Nat
  BY CeilDivType DEF Positive
<1> DEFINE d == CeilDiv(a, b)
<1>2. d \in Nat
  BY <1>1
<1> HIDE DEF d
<1>3. d * b \in Nat
  BY <1>1, <1>2, MulMonotone
<1> QED BY <1>3 DEF AlignUp, d

LEMMA InUInt32 == ASSUME NEW k \in Nat PROVE Finalize!Prologue!UInt32(k) \in Nat
<1>1. UInt32Max + 1 \in Positive
  BY PipesAssumption DEF Positive
<1>2. k % (UInt32Max + 1) \in Nat
  BY <1>1, DivMod
<1> QED BY <1>2 DEF Finalize!Prologue!UInt32

LEMMA Shares ==
    ASSUME NEW total \in Nat
    PROVE  /\ CeilDiv(total, Finalize!Prologue!VectorCoreNum) \in Nat
           /\ Finalize!Prologue!ZeroShare(total) \in Nat
<1>1. Finalize!Prologue!VectorCoreNum = Cardinality(SubBlocks)
  BY DEF Finalize!Prologue!VectorCoreNum, Finalize!Prologue!Cardinality, Cardinality
<1>2. Cardinality(SubBlocks) \in Positive
  BY TheCores DEF Positive
<1>3. CeilDiv(total, Finalize!Prologue!VectorCoreNum) \in Nat
  BY <1>1, <1>2, CeilDivType
<1>4. CoreAlign \in Positive
  BY PipesAssumption DEF Positive
<1> DEFINE d == Finalize!Prologue!UInt32(CeilDiv(total, Finalize!Prologue!VectorCoreNum))
           a == AlignUp(d, CoreAlign)
<1>5. Finalize!Prologue!ZeroShare(total) = Finalize!Prologue!UInt32(a)
  BY SameInPrologue DEF Finalize!Prologue!ZeroShare
<1>6. d \in Nat
  BY <1>3, InUInt32
<1> HIDE DEF d
<1>7. a \in Nat
  BY <1>4, <1>6, AlignType
<1> HIDE DEF a
<1>8. Finalize!Prologue!ZeroShare(total) \in Nat
  BY <1>5, <1>7, InUInt32
<1> QED BY <1>3, <1>8

-----------------------------------------------------------------------------
(* The zeros.                                                              *)

\* A region of zeros is filled without any event.
LEMMA ZerosList ==
    ASSUME NEW c \in SubBlocks, NEW init, NEW at, NEW total \in Nat
    PROVE  Quiet(Finalize!Prologue!InitOutputWithZeros(c, init, at, total))
<1> DEFINE s == Finalize!Prologue!InitOutputWithZeros(c, init, at, total)
           share == Finalize!Prologue!ZeroShare(total)
           part == Finalize!Prologue!Part(c, total, share)
           chunks == Finalize!Prologue!Chunks(part.size, InitZeroLen)
           zero == Finalize!Prologue!Compute({}, {},
                [l \in {<<"initWithZero", k>> : k \in 0..(InitZeroLen - 1)} |-> << <<"zero", 0>> >>])
           copy(i) == Finalize!Prologue!CopyOutShareInput({}, {}, "initWithZero",
                   at + part.from + chunks[i].at, chunks[i].size)
           t == [i \in 1 .. Len(chunks) |-> copy(i)]
<1>1. zero.waits = {} /\ zero.sets = {}
  BY DEF Finalize!Prologue!Compute, Finalize!Prologue!Instr
<1>2. \A i : copy(i).waits = {} /\ copy(i).sets = {}
  BY DEF Finalize!Prologue!CopyOutShareInput, Finalize!Prologue!CopyOut, Finalize!Prologue!Instr
<1>3. s = IF ~Finalize!Prologue!WritesZeros(c, total) THEN <<>>
          ELSE (IF init THEN <<>> ELSE <<zero>>) \o t
  BY DEF Finalize!Prologue!InitOutputWithZeros
<1>4. ASSUME Finalize!Prologue!WritesZeros(c, total) PROVE IsSeq(chunks) /\ Len(chunks) \in Nat
  <2>1. c \in Nat
    BY CoreRows
  <2>2. share \in Nat /\ c * share <= total
    BY <1>4, Shares DEF Finalize!Prologue!WritesZeros
  <2> HIDE DEF share
  <2>3. part.size \in Nat
    BY <2>1, <2>2, PartSize
  <2>4. InitZeroLen \in Positive
    BY PipesAssumption DEF Positive
  <2> HIDE DEF part
  <2> QED BY <2>3, <2>4, ChunkList
<1>5. Quiet(<<>>)
  <2>1. IsSeq(<<>>) /\ Len(<<>>) = 0
    BY EmptyList
  <2> QED BY <2>1 DEF Quiet
<1>6. Quiet(<<zero>>)
  <2> HIDE DEF zero
  <2> QED BY <1>1, QuietOne
<1> HIDE DEF s, chunks, zero, part, copy
<1>7. ASSUME Finalize!Prologue!WritesZeros(c, total) PROVE Quiet(t)
  <2> DEFINE n == Len(chunks)
  <2>1. n \in Nat
    BY <1>4, <1>7
  <2>2. t = [i \in 1 .. n |-> t[i]] /\ \A i \in 1 .. n : t[i] = copy(i)
    OBVIOUS
  <2> HIDE DEF n, t
  <2>3. IsSeq(t) /\ Len(t) = n
    BY <2>1, <2>2, SeqMade
  <2> QED BY <1>2, <2>2, <2>3 DEF Quiet
<1> HIDE DEF t
<1>8. CASE ~Finalize!Prologue!WritesZeros(c, total)
  BY <1>3, <1>5, <1>8 DEF s
<1>9. CASE Finalize!Prologue!WritesZeros(c, total)
  <2>1. Quiet(IF init THEN <<>> ELSE <<zero>>)
    BY <1>5, <1>6
  <2> QED BY <1>3, <1>7, <1>9, <2>1, QuietCat DEF s
<1> QED BY <1>8, <1>9

-----------------------------------------------------------------------------
(* A round of the shared input through one pair of buffers.                *)

\* What only MTE2 takes, and is given back; what V sets once and MTE3 takes.
ReadsBack(s, a, b) == Does(s, a, b, 0, 0, 1, 0, 0, 0, 0, 0)
SetOnce(s, a, b) == Does(s, a, b, 0, 0, 0, 0, 0, 0, 1, 1)

LEMMA NothingReadsBack ==
    ASSUME NEW s, NEW a, NEW b, DoesNothing(s, a, b)
    PROVE  ReadsBack(s, a, b) /\ SetOnce(s, a, b) /\ Does(s, a, b, 0, 0, 0, 0, 0, 0, 1, 0)
BY DoesMore DEF DoesNothing, ReadsBack, SetOnce

LEMMA RoundEvents ==
    ASSUME NEW k,
           NEW x, NEW y, NEW z, NEW w,
           Is(x, "MTE2", {}, {Read(k)}), Is(y, "V", {Read(k)}, {Made(k), ReadBack(k)}),
           Is(z, "MTE3", {Made(k)}, {}), Is(w, "MTE2", {ReadBack(k)}, {})
    PROVE  /\ IsSeq(<<x, y, z, w>>) /\ Within(<<x, y, z, w>>, {Read(k), ReadBack(k), Made(k)})
           /\ ReadsBack(<<x, y, z, w>>, Read(k), ReadBack(k))
           /\ SetOnce(<<x, y, z, w>>, Made(k), Written(k))
<1> DEFINE xy == <<x>> \o <<y>>  xyz == xy \o <<z>>  all == xyz \o <<w>>
           S == {Read(k), ReadBack(k), Made(k)}
           a == Read(k)  b == ReadBack(k)  m == Made(k)  g == Written(k)
<1>1. <<x, y, z, w>> = all
  <2>1. <<x, y>> = xy
    BY ListCatTwo
  <2> HIDE DEF xy
  <2>2. <<x, y, z>> = xyz
    BY <2>1, ListCatThree
  <2> HIDE DEF xyz
  <2> QED BY <2>2, ListCatFour
<1>2. /\ a # b /\ a # m /\ a # g /\ b # m /\ b # g /\ m # g
      /\ "MTE2" \in Pipes /\ "V" \in Pipes /\ "MTE3" \in Pipes
  BY DEF Read, ReadBack, Made, Written, Pipes
<1>3. S = {a, b, m}
  OBVIOUS
<1>4. Is(x, "MTE2", {}, {a}) /\ Is(y, "V", {a}, {m, b}) /\ Is(z, "MTE3", {m}, {}) /\ Is(w, "MTE2", {b}, {})
  OBVIOUS
<1> HIDE DEF a, b, m, g, S
<1>5. /\ Gain({}, {a}, a) = -1 /\ Gain({}, {a}, b) = 0 /\ Gain({}, {a}, m) = 0 /\ Gain({}, {a}, g) = 0
      /\ Gain({a}, {m, b}, a) = 1 /\ Gain({a}, {m, b}, b) = -1
      /\ Gain({a}, {m, b}, m) = -1 /\ Gain({a}, {m, b}, g) = 0
      /\ Gain({m}, {}, a) = 0 /\ Gain({m}, {}, b) = 0 /\ Gain({m}, {}, m) = 1 /\ Gain({m}, {}, g) = 0
      /\ Gain({b}, {}, a) = 0 /\ Gain({b}, {}, b) = 1 /\ Gain({b}, {}, m) = 0 /\ Gain({b}, {}, g) = 0
  BY <1>2 DEF Gain, Once
<1>6. /\ Within(<<x>>, S) /\ Within(<<y>>, S) /\ Within(<<z>>, S) /\ Within(<<w>>, S)
      /\ IsSeq(<<x>>) /\ IsSeq(<<y>>) /\ IsSeq(<<z>>) /\ IsSeq(<<w>>)
  BY <1>2, <1>3, <1>4, OneFlow
<1>7. IsSeq(all) /\ Within(all, S)
  <2>1. IsSeq(xy) /\ Within(xy, S)
    BY <1>6, CatSeq, WithinCat
  <2> HIDE DEF xy
  <2>2. IsSeq(xyz) /\ Within(xyz, S)
    BY <1>6, <2>1, CatSeq, WithinCat
  <2> HIDE DEF xyz
  <2> QED BY <1>6, <2>2, CatSeq, WithinCat
<1>8. ReadsBack(all, a, b)
  <2>1. Does(<<x>>, a, b, -1, 0, 0, -1, 0, 0, 0, 0)
    <3>1. Does(<<x>>, a, b, -1, 0, 0, (-1) + 0, 0, 0, 0, 0)
      BY <1>2, <1>4, <1>5, DoesOne
    <3> QED BY <3>1
  <2>2. Does(<<y>>, a, b, 1, -1, 0, 0, 0, 0, 0, 0)
    <3>1. Does(<<y>>, a, b, 1, -1, 0, 0, 0, 1 + (-1), 0, 0)
      BY <1>2, <1>4, <1>5, DoesOne
    <3> QED BY <3>1
  <2>3. Does(<<z>>, a, b, 0, 0, 0, 0, 0, 0, 0, 0)
    <3>1. Does(<<z>>, a, b, 0, 0, 0, 0, 0, 0, 0, 0 + 0)
      BY <1>2, <1>4, <1>5, DoesOne
    <3> QED BY <3>1
  <2>4. Does(<<w>>, a, b, 0, 1, 1, 1, 0, 0, 0, 0)
    <3>1. Does(<<w>>, a, b, 0, 1, 1, 0 + 1, 0, 0, 0, 0)
      BY <1>2, <1>4, <1>5, DoesOne
    <3> QED BY <3>1
  <2>5. Does(xy, a, b, 0, -1, 0, -1, 0, 0, 0, 0)
    <3>1. Does(xy, a, b, (-1) + 1, 0 + (-1), 0, (-1) + 0, 0, 0 + 0, 0, 0 + 0)
      BY <2>1, <2>2, DoesCat
    <3> QED BY <3>1
  <2> HIDE DEF xy
  <2>6. Does(xyz, a, b, 0, -1, 0, -1, 0, 0, 0, 0)
    <3>1. Does(xyz, a, b, 0 + 0, (-1) + 0, 0, (-1) + 0, 0, 0 + 0, 0, 0 + 0)
      BY <2>3, <2>5, DoesCat
    <3> QED BY <3>1
  <2> HIDE DEF xyz
  <2>7. Does(all, a, b, 0 + 0, (-1) + 1, 1, (-1) + 1, 0, 0 + 0, 0, 0 + 0)
    BY <2>4, <2>6, DoesCat
  <2> QED BY <2>7 DEF ReadsBack
<1>9. SetOnce(all, m, g)
  <2>1. Does(<<x>>, m, g, 0, 0, 0, 0, 0, 0, 0, 0)
    <3>1. Does(<<x>>, m, g, 0, 0, 0, 0 + 0, 0, 0, 0, 0)
      BY <1>2, <1>4, <1>5, DoesOne
    <3> QED BY <3>1
  <2>2. Does(<<y>>, m, g, -1, 0, 0, 0, 0, -1, 0, 0)
    <3>1. Does(<<y>>, m, g, -1, 0, 0, 0, 0, (-1) + 0, 0, 0)
      BY <1>2, <1>4, <1>5, DoesOne
    <3> QED BY <3>1
  <2>3. Does(<<z>>, m, g, 1, 0, 0, 0, 0, 0, 1, 1)
    <3>1. Does(<<z>>, m, g, 1, 0, 0, 0, 0, 0, 1, 1 + 0)
      BY <1>2, <1>4, <1>5, DoesOne
    <3> QED BY <3>1
  <2>4. Does(<<w>>, m, g, 0, 0, 0, 0, 0, 0, 1, 0)
    <3>1. Does(<<w>>, m, g, 0, 0, 0, 0 + 0, 0, 0, 0, 0)
      BY <1>2, <1>4, <1>5, DoesOne
    <3> QED BY <3>1, DoesMore
  <2>5. Does(xy, m, g, -1, 0, 0, 0, 0, -1, 0, 0)
    <3>1. Does(xy, m, g, 0 + (-1), 0 + 0, 0, 0 + 0, 0, 0 + (-1), 0, 0 + 0)
      BY <2>1, <2>2, DoesCat
    <3> QED BY <3>1
  <2> HIDE DEF xy
  <2>6. Does(xyz, m, g, 0, 0, 0, 0, 0, -1, 1, 1)
    <3>1. Does(xyz, m, g, (-1) + 1, 0 + 0, 0, 0 + 0, 0, (-1) + 0, 1, 0 + 1)
      BY <2>3, <2>5, DoesCat
    <3> QED BY <3>1
  <2> HIDE DEF xyz
  <2>7. Does(all, m, g, 0, 0, 0, 0, 0, -1, 1, 1)
    <3>1. Does(all, m, g, 0 + 0, 0 + 0, 0, 0 + 0, 0, (-1) + 0, 1, 1 + 0)
      BY <2>4, <2>6, DoesCat
    <3> QED BY <3>1
  <2>8. Does(all, m, g, 0, 0, 0, 0, 0, 0, 1, 1)
    BY <2>7, DoesMore
  <2> QED BY <2>8 DEF SetOnce
<1> QED BY <1>1, <1>7, <1>8, <1>9 DEF a, b, m, g, S

\* A round through the buffers k; a list that may be issued while the output is filled.
IsRound(s, k) ==
    /\ IsSeq(s) /\ Within(s, FinalizeEvents)
    /\ \A j \in {0, 1} : /\ ReadsBack(s, Read(j), ReadBack(j)) /\ SetOnce(s, Made(j), Written(j))
                         /\ j # k => DoesNothing(s, Made(j), Written(j))

Fills(s) ==
    /\ IsSeq(s) /\ Within(s, FinalizeEvents)
    /\ \A j \in {0, 1} : ReadsBack(s, Read(j), ReadBack(j)) /\ SetOnce(s, Made(j), Written(j))

LEMMA RoundIs ==
    ASSUME NEW o, NEW from, NEW chunk, NEW i, NEW k \in {0, 1}, (o.inId + i - 1) % 2 = k, (o.outId + i - 1) % 2 = k
    PROVE  IsRound(Finalize!Prologue!Round(o, from, chunk, i), k)
<1> DEFINE R == Finalize!Prologue!Round(o, from, chunk, i)
           S == {Read(k), ReadBack(k), Made(k)}
<1>1. \E x, y, z, w :
        /\ R = <<x, y, z, w>>
        /\ Is(x, "MTE2", {}, {Read(k)}) /\ Is(y, "V", {Read(k)}, {Made(k), ReadBack(k)})
        /\ Is(z, "MTE3", {Made(k)}, {}) /\ Is(w, "MTE2", {ReadBack(k)}, {})
  <2> DEFINE in == (o.inId + i - 1) % 2
             out == (o.outId + i - 1) % 2
             x == Finalize!Prologue!CopyInShareInput({}, in, from + chunk.at, chunk.size)
             y == Finalize!Prologue!Compute({<<"MTE2_V", in>>}, {<<"V_MTE3", out>>, <<"V_MTE2", out>>},
                    [l \in {<<Finalize!Prologue!OutBuf(out), j>> : j \in 0..(chunk.size - 1)} |->
                       << <<Finalize!Prologue!InBuf(in), l[2]>>, <<"residualScale", 0>> >>])
             z == Finalize!Prologue!CopyOutShareInput({<<"V_MTE3", out>>}, {}, Finalize!Prologue!OutBuf(out),
                    Finalize!Prologue!FirstZeroSize + from + chunk.at, chunk.size)
             w == Finalize!Prologue!CopyIn({<<"V_MTE2", out>>}, {}, <<>>)
  <2>1. R = <<x, y, z, w>>
    BY DEF Finalize!Prologue!Round
  <2>2. in = k /\ out = k
    OBVIOUS
  <2>4. Is(x, "MTE2", {}, {Read(in)})
    BY DEF Is, Read, Finalize!Prologue!CopyInShareInput, Finalize!Prologue!CopyIn, Finalize!Prologue!Instr
  <2>5. Is(y, "V", {Read(in)}, {Made(out), ReadBack(out)})
    BY DEF Is, Read, Made, ReadBack, Finalize!Prologue!Compute, Finalize!Prologue!Instr
  <2>6. Is(z, "MTE3", {Made(out)}, {})
    BY DEF Is, Made, Finalize!Prologue!CopyOutShareInput, Finalize!Prologue!CopyOut, Finalize!Prologue!Instr
  <2>7. Is(w, "MTE2", {ReadBack(out)}, {})
    BY DEF Is, ReadBack, Finalize!Prologue!CopyIn, Finalize!Prologue!Instr
  <2> HIDE DEF in, out, x, y, z, w, R
  <2> QED BY <2>1, <2>2, <2>4, <2>5, <2>6, <2>7
<1> HIDE DEF R, S
<1>3. IsSeq(R) /\ Within(R, S) /\ ReadsBack(R, Read(k), ReadBack(k)) /\ SetOnce(R, Made(k), Written(k))
  BY <1>1, RoundEvents DEF S
<1>4. S \subseteq FinalizeEvents
  BY DEF S, FinalizeEvents
<1>5. ASSUME NEW j \in {0, 1}
      PROVE  /\ ReadsBack(R, Read(j), ReadBack(j)) /\ SetOnce(R, Made(j), Written(j))
             /\ j # k => DoesNothing(R, Made(j), Written(j))
  <2>1. CASE j = k
    BY <1>3, <2>1
  <2>2. CASE j # k
    <3>1. Read(j) \notin S /\ ReadBack(j) \notin S /\ Made(j) \notin S /\ Written(j) \notin S
      BY <2>2 DEF S, Read, ReadBack, Made, Written
    <3>2. DoesNothing(R, Read(j), ReadBack(j)) /\ DoesNothing(R, Made(j), Written(j))
      BY <1>3, <3>1, WithinUntouched
    <3> QED BY <3>2, NothingReadsBack
  <2> QED BY <2>1, <2>2
<1>6. Within(R, FinalizeEvents)
  BY <1>3, <1>4, WithinMore
<1> QED BY <1>3, <1>5, <1>6 DEF IsRound, R

\* The second round goes through the other buffers.
LEMMA RoundsFill ==
    ASSUME NEW s, NEW t, IsRound(s, 0), IsRound(t, 1)
    PROVE  Fills(s \o t)
<1>1. IsSeq(s \o t) /\ Within(s \o t, FinalizeEvents)
  BY CatSeq, WithinCat DEF IsRound
<1>2. ASSUME NEW j \in {0, 1} PROVE ReadsBack(s \o t, Read(j), ReadBack(j))
  <2> DEFINE a == Read(j)  b == ReadBack(j)
  <2>1. Does(s, a, b, 0, 0, 1, 0, 0, 0, 0, 0) /\ Does(t, a, b, 0, 0, 1, 0, 0, 0, 0, 0)
    BY DEF IsRound, ReadsBack
  <2> HIDE DEF a, b
  <2>2. Does(s \o t, a, b, 0 + 0, 0 + 0, 1, 0 + 0, 0, 0 + 0, 0, 0 + 0)
    BY <2>1, DoesCat
  <2> QED BY <2>2 DEF ReadsBack, a, b
<1>3. SetOnce(s \o t, Made(0), Written(0))
  <2> DEFINE a == Made(0)  b == Written(0)
  <2>1. Does(s, a, b, 0, 0, 0, 0, 0, 0, 1, 1) /\ DoesNothing(t, a, b)
    BY DEF IsRound, SetOnce
  <2> HIDE DEF a, b
  <2>2. Does(t, a, b, 0, 0, 0, 0, 0, 0, 1, 0)
    BY <2>1, NothingReadsBack
  <2>3. Does(s \o t, a, b, 0 + 0, 0 + 0, 0, 0 + 0, 0, 0 + 0, 1, 1 + 0)
    BY <2>1, <2>2, DoesCat
  <2> QED BY <2>3 DEF SetOnce, a, b
<1>4. SetOnce(s \o t, Made(1), Written(1))
  <2> DEFINE a == Made(1)  b == Written(1)
  <2>1. Does(t, a, b, 0, 0, 0, 0, 0, 0, 1, 1) /\ Does(s, a, b, 0, 0, 0, 0, 0, 0, 0, 0)
    BY DEF IsRound, SetOnce, DoesNothing
  <2> HIDE DEF a, b
  <2>2. Does(s \o t, a, b, 0 + 0, 0 + 0, 0, 0 + 0, 0, 0 + 0, 1, 0 + 1)
    BY <2>1, DoesCat
  <2> QED BY <2>2 DEF SetOnce, a, b
<1> QED BY <1>1, <1>2, <1>3, <1>4 DEF Fills

LEMMA FlattenOne == ASSUME NEW s, IsSeq(s), Len(s) = 1, IsSeq(s[1]) PROVE FlattenSeq(s) = s[1]
<1>1. PICK X : s[1] \in Seq(X)
  BY DEF IsSeq
<1>2. \A i \in 1 .. 1 : s[i] \in Seq(X)
  BY <1>1
<1>3. PICK f : FlatBy(f, s, 1, X)
  <2>1. 1 \in Nat /\ 1 <= Len(s)
    OBVIOUS
  <2> QED BY ONLY Len(s) = 1, <1>2, <2>1, Flattened
<1> QED BY <1>3 DEF FlatBy

LEMMA FlattenTwo == ASSUME NEW s, IsSeq(s), Len(s) = 2, IsSeq(s[1]), IsSeq(s[2]) PROVE FlattenSeq(s) = s[1] \o s[2]
<1> DEFINE u == s[1]  v == s[2]
<1>1. PICK X : u \in Seq(X)
  BY DEF IsSeq
<1>2. PICK Y : v \in Seq(Y)
  BY DEF IsSeq
<1> HIDE DEF u, v
<1>3. u \in Seq(X \cup Y) /\ v \in Seq(X \cup Y)
  BY <1>1, <1>2
<1>4. \A i \in 1 .. 2 : s[i] \in Seq(X \cup Y)
  <2> TAKE i \in 1 .. 2
  <2>1. i = 1 \/ i = 2
    OBVIOUS
  <2> QED BY <1>3, <2>1 DEF u, v
<1>5. PICK f : FlatBy(f, s, 2, X \cup Y)
  <2>1. PICK Z : Z = X \cup Y
    OBVIOUS
  <2>2. 2 \in Nat /\ 2 >= 1 /\ \A i \in 1 .. 2 : s[i] \in Seq(Z)
    BY <1>4, <2>1
  <2>3. \E f : FlatBy(f, s, 2, Z)
    BY ONLY Len(s) = 2, <2>2, Flattened
  <2> QED BY <2>1, <2>3
<1>6. 2 \in 2 .. 2 /\ 2 - 1 = 1
  OBVIOUS
<1> QED BY <1>5, <1>6 DEF FlatBy

LEMMA QuietDoes ==
    ASSUME NEW s, Quiet(s)
    PROVE  IsSeq(s) /\ Within(s, FinalizeEvents) /\ \A a, b : DoesNothing(s, a, b)
BY QuietList DEF DoesNothing, Does, Quiet

\* At most two rounds together.
LEMMA FillsFlatten ==
    ASSUME NEW s, IsSeq(s), Len(s) <= 2, \A i \in 1 .. Len(s) : IsRound(s[i], i - 1)
    PROVE  Fills(FlattenSeq(s))
<1>1. Len(s) \in Nat
  BY SeqFacts
<1>2. CASE Len(s) = 0
  <2>1. FlattenSeq(s) = <<>>
    BY <1>2, FlattenNothing
  <2>2. Quiet(<<>>)
    <3>1. IsSeq(<<>>) /\ Len(<<>>) = 0
      BY EmptyList
    <3> QED BY <3>1 DEF Quiet
  <2> DEFINE e == <<>>
  <2>3. e = <<>>
    OBVIOUS
  <2> HIDE DEF e
  <2>4. Quiet(e) /\ FlattenSeq(s) = e
    BY <2>1, <2>2, <2>3
  <2> QED BY <2>4, QuietDoes, NothingReadsBack DEF Fills
<1>3. CASE Len(s) = 1
  <2>1. 1 \in 1 .. Len(s) /\ 1 - 1 = 0
    BY <1>3
  <2>2. IsRound(s[1], 0)
    BY <2>1
  <2>3. FlattenSeq(s) = s[1]
    BY <1>3, <2>2, FlattenOne DEF IsRound
  <2> QED BY <2>2, <2>3 DEF Fills, IsRound
<1>4. CASE Len(s) = 2
  <2>1. 1 \in 1 .. Len(s) /\ 2 \in 1 .. Len(s) /\ 1 - 1 = 0 /\ 2 - 1 = 1
    BY <1>4
  <2>2. IsRound(s[1], 0) /\ IsRound(s[2], 1)
    BY <2>1
  <2>3. FlattenSeq(s) = s[1] \o s[2]
    BY <1>4, <2>2, FlattenTwo DEF IsRound
  <2> QED BY <2>2, <2>3, RoundsFill
<1>5. Len(s) = 0 \/ Len(s) = 1 \/ Len(s) = 2
  <2>1. PICK n \in Nat : n = Len(s)
    BY <1>1
  <2>2. n <= 2
    BY <2>1
  <2>3. n = 0 \/ n = 1 \/ n = 2
    BY ONLY <2>2, n \in Nat
  <2> QED BY <2>1, <2>3
<1> QED BY ONLY <1>2, <1>3, <1>4, <1>5

\* What FillOutput issues: the zeros before, the zeros after, the shared input in between.
LEMMA FillList ==
    ASSUME NEW s, NEW t, NEW u, Quiet(s), Quiet(t), Fills(u), NEW qs, \A p \in Pipes : qs[p] = <<>>
    PROVE  Good(s \o t \o u, qs, FinalizeEvents, FillingRings)
<1> DEFINE st == s \o t  all == st \o u
<1>1. Quiet(st)
  BY QuietCat
<1> HIDE DEF st
<1>2. IsSeq(all) /\ Within(all, FinalizeEvents)
  BY <1>1, QuietDoes, CatSeq, WithinCat DEF Fills
<1>3. ASSUME NEW k \in {0, 1}
      PROVE  /\ Does(all, Read(k), ReadBack(k), 0, 0, 1, 0, 0, 0, 0, 0)
             /\ Does(all, Made(k), Written(k), 0, 0, 0, 0, 0, 0, 1, 1)
  <2> DEFINE a == Read(k)  b == ReadBack(k)  m == Made(k)  w == Written(k)
  <2>1. Does(u, a, b, 0, 0, 1, 0, 0, 0, 0, 0) /\ Does(u, m, w, 0, 0, 0, 0, 0, 0, 1, 1)
    BY DEF Fills, ReadsBack, SetOnce
  <2> HIDE DEF a, b, m, w
  <2>2. Does(st, a, b, 0, 0, 0, 0, 0, 0, 0, 0) /\ Does(st, m, w, 0, 0, 0, 0, 0, 0, 0, 0)
    BY <1>1, QuietDoes DEF DoesNothing
  <2>3. Does(all, a, b, 0 + 0, 0 + 0, 1, 0 + 0, 0, 0 + 0, 0, 0 + 0)
    BY ONLY <2>1, <2>2, DoesCat
  <2>4. Does(all, m, w, 0 + 0, 0 + 0, 0, 0 + 0, 0, 0 + 0, 1, 0 + 1)
    BY ONLY <2>1, <2>2, DoesCat
  <2>5. Does(all, a, b, 0, 0, 1, 0, 0, 0, 0, 0) /\ Does(all, m, w, 0, 0, 0, 0, 0, 0, 1, 1)
    BY <2>3, <2>4
  <2> QED BY <2>5 DEF a, b, m, w
<1> HIDE DEF all
<1>4. Good(all, qs, FinalizeEvents, FillingRings)
  BY <1>2, <1>3, FillingGood
<1> QED BY <1>4 DEF all, st

LegalFinalize ==
    /\ LegalBlocks /\ job.kernel = "finalize" /\ AtMostTwoRounds(job)
    /\ job.sharedInputOffset \in Nat /\ job.sharedInputLen \in Nat /\ job.batch \in Nat
    /\ job.sharedInputOffset + job.sharedInputLen <= job.batch

LEMMA Regions ==
    ASSUME LegalFinalize
    PROVE  /\ Finalize!Prologue!FirstZeroSize \in Nat /\ Finalize!Prologue!LastZeroSize \in Nat
           /\ Finalize!Prologue!TotalOutput \in Nat /\ Finalize!Prologue!ResidualShare \in Nat
           /\ Least(Finalize!Prologue!TotalOutput, Finalize!Prologue!ResidualShare) <= 2 * DoubleBufferLen
<1>1. /\ job.n \in Nat /\ job.sharedInputOffset \in Nat /\ job.sharedInputLen \in Nat
      /\ job.batch - (job.sharedInputOffset + job.sharedInputLen) \in Nat
  BY DEF LegalFinalize, LegalBlocks
<1>2. Finalize!Prologue!FirstZeroSize \in Nat
  <2> DEFINE x == job.n * job.sharedInputOffset
  <2>1. x \in Nat
    BY <1>1, MulMonotone
  <2> HIDE DEF x
  <2>2. Finalize!Prologue!UInt32(x) \in Nat
    BY <2>1, InUInt32
  <2> QED BY <2>2 DEF Finalize!Prologue!FirstZeroSize, x
<1>3. Finalize!Prologue!TotalOutput \in Nat
  BY <1>1, MulMonotone DEF Finalize!Prologue!TotalOutput
<1>4. Finalize!Prologue!LastZeroSize \in Nat
  <2> DEFINE d == job.batch - (job.sharedInputOffset + job.sharedInputLen)
  <2>1. Finalize!Prologue!LastZeroSize = job.n * d
    BY DEF Finalize!Prologue!LastZeroSize, Finalize!Prologue!Tail_
  <2>2. d \in Nat
    BY <1>1
  <2> HIDE DEF d
  <2> QED BY <1>1, <2>1, <2>2, MulMonotone
<1>5. Finalize!Prologue!ResidualShare \in Nat
  <2> DEFINE x == CeilDiv(Finalize!Prologue!TotalOutput, Finalize!Prologue!VectorCoreNum)
             y == IF Finalize!Prologue!TotalOutput > CoreAlign THEN CoreAlign ELSE CoreAlignSmall
  <2>1. x \in Nat
    BY <1>3, Shares
  <2>2. y \in Positive
    BY PipesAssumption DEF Positive
  <2>3. Finalize!Prologue!ResidualShare = AlignUp(x, y)
    BY SameInPrologue DEF Finalize!Prologue!ResidualShare, Finalize!Prologue!ShareOf
  <2> HIDE DEF x, y
  <2> QED BY <2>1, <2>2, <2>3, AlignType
<1>6. Least(Finalize!Prologue!TotalOutput, Finalize!Prologue!ResidualShare) <= 2 * DoubleBufferLen
  BY DEF LegalFinalize, AtMostTwoRounds, Finalize!Prologue!TotalOutput, Finalize!Prologue!ResidualShare
<1> QED BY <1>2, <1>3, <1>4, <1>5, <1>6

\* The fields of the epilogue in a core's object.
EpilogueFields(o) ==
    /\ o = [f \in DOMAIN o |-> o[f]] /\ "yId" \in DOMAIN o /\ "logitId" \in DOMAIN o
    /\ o.yId \in {0, 1} /\ o.logitId \in {0, 1}

LEMMA FillOutputIs ==
    ASSUME LegalFinalize, NEW c \in SubBlocks, EpilogueFields(obj[c]), obj[c].inId = 0, obj[c].outId = 0,
           \A p \in Pipes : queue[c][p] = <<>>, Finalize!Prologue!FillOutput(c)
    PROVE  \E fields, instrs : /\ Call(c, "FillOutput", fields, instrs) /\ EpilogueFields(fields)
                               /\ Good(instrs, queue[c], FinalizeEvents, FillingRings)
<1> DEFINE o == obj[c]
           first == Finalize!Prologue!WritesZeros(c, Finalize!Prologue!FirstZeroSize)
           last == Finalize!Prologue!WritesZeros(c, Finalize!Prologue!LastZeroSize)
           part == Finalize!Prologue!Part(c, Finalize!Prologue!TotalOutput, Finalize!Prologue!ResidualShare)
           chunks == IF part.from >= Finalize!Prologue!TotalOutput THEN <<>> ELSE Finalize!Prologue!Chunks(part.size, DoubleBufferLen)
           fields == [o EXCEPT !.initialized = @ \/ first \/ last,
                               !.inId = (@ + Len(chunks)) % 2, !.outId = (@ + Len(chunks)) % 2]
           at == Finalize!Prologue!Tail_ * job.n
           s == Finalize!Prologue!InitOutputWithZeros(c, o.initialized, 0, Finalize!Prologue!FirstZeroSize)
           t == Finalize!Prologue!InitOutputWithZeros(c, o.initialized \/ first, at, Finalize!Prologue!LastZeroSize)
           rounds == [i \in 1 .. Len(chunks) |-> Finalize!Prologue!Round(o, part.from, chunks[i], i)]
           u == FlattenSeq(rounds)
<1>1. Call(c, "FillOutput", fields, s \o t \o u)
  <2>1. Finalize!Prologue!Call(c, "FillOutput", fields, s \o t \o Finalize!Prologue!FlattenSeq(rounds))
    BY DEF Finalize!Prologue!FillOutput
  <2> HIDE DEF fields, s, t, rounds
  <2> QED BY <2>1, SameInPrologue
<1>2. EpilogueFields(fields)
  <2> HIDE DEF chunks, first, last
  <2> QED BY DEF EpilogueFields
<1>3. Quiet(s) /\ Quiet(t)
  <2>1. Finalize!Prologue!FirstZeroSize \in Nat /\ Finalize!Prologue!LastZeroSize \in Nat
    BY Regions
  <2> DEFINE init == o.initialized \/ first
  <2>2. t = Finalize!Prologue!InitOutputWithZeros(c, init, at, Finalize!Prologue!LastZeroSize)
    OBVIOUS
  <2> HIDE DEF o, init, at, t
  <2> QED BY <2>1, <2>2, ZerosList
<1>5. Fills(u)
  <2>1. IsSeq(chunks) /\ Len(chunks) \in Nat /\ Len(chunks) <= 2
    <3>1. CASE part.from >= Finalize!Prologue!TotalOutput
      BY <3>1, EmptyList, SeqFacts
    <3>2. CASE ~(part.from >= Finalize!Prologue!TotalOutput)
      <4> DEFINE share == Finalize!Prologue!ResidualShare  total == Finalize!Prologue!TotalOutput
      <4>1. c \in Nat /\ share \in Nat /\ total \in Nat
        BY CoreRows, Regions
      <4>2. part.from = c * share
        BY DEF Finalize!Prologue!Part
      <4>3. c * share <= total
        <5>1. c * share \in Nat
          BY <4>1, MulMonotone
        <5> DEFINE x == c * share
        <5>2. x \in Nat /\ ~(x >= total)
          BY <3>2, <4>2, <5>1
        <5> HIDE DEF x, total
        <5>3. x <= total
          BY <4>1, <5>2
        <5> QED BY <5>3 DEF x
      <4>4. part.size \in Nat /\ part.size <= Least(total, share)
        <5> HIDE DEF share, total
        <5> QED BY <4>1, <4>3, PartSize DEF share, total
      <4>5. DoubleBufferLen \in Positive
        BY PipesAssumption DEF Positive
      <4>7. part.size <= 2 * DoubleBufferLen
        <5>1. Least(total, share) \in Nat /\ Least(total, share) <= 2 * DoubleBufferLen
          BY <4>1, Regions DEF Least
        <5> HIDE DEF part, total, share
        <5> QED BY <4>4, <4>5, <5>1 DEF Positive
      <4>6. chunks = Finalize!Prologue!Chunks(part.size, DoubleBufferLen)
        BY <3>2
      <4> HIDE DEF part, chunks
      <4> QED BY <4>4, <4>5, <4>6, <4>7, ChunkList
    <3> QED BY <3>1, <3>2
  <2> HIDE DEF chunks, part
  <2>2. /\ rounds = [i \in 1 .. Len(chunks) |-> rounds[i]]
        /\ \A i \in 1 .. Len(chunks) : rounds[i] = Finalize!Prologue!Round(o, part.from, chunks[i], i)
    OBVIOUS
  <2>3. IsSeq(rounds) /\ Len(rounds) = Len(chunks)
    <3> HIDE DEF rounds
    <3> QED BY <2>1, <2>2, SeqMade
  <2>4. ASSUME NEW i \in 1 .. Len(rounds) PROVE IsRound(rounds[i], i - 1)
    <3>1. i = 1 \/ i = 2
      BY <2>1, <2>3
    <3>2. i - 1 \in {0, 1} /\ (o.inId + i - 1) % 2 = i - 1 /\ (o.outId + i - 1) % 2 = i - 1
      BY <3>1
    <3>3. rounds[i] = Finalize!Prologue!Round(o, part.from, chunks[i], i)
      BY <2>2, <2>3
    <3> HIDE DEF rounds, o
    <3> QED BY <3>2, <3>3, RoundIs
  <2> HIDE DEF rounds
  <2> QED BY <2>1, <2>3, <2>4, FillsFlatten
<1>6. Good(s \o t \o u, queue[c], FinalizeEvents, FillingRings)
  <2> HIDE DEF s, t, u
  <2> QED BY <1>3, <1>5, FillList
<1> HIDE DEF s, t, u, fields
<1> QED BY <1>1, <1>2, <1>6

-----------------------------------------------------------------------------
(* The epilogue's lists.                                                   *)

\* The rows of a slice: the first waits for V, the last gives the buffer back.
LEMMA RowsDo ==
    ASSUME NEW s, IsSeq(s), NEW n \in Nat, n >= 1, Len(s) = n, NEW a, NEW b, a # b,
           \A i \in 1 .. n : Is(s[i], "MTE3", IF i = 1 THEN {a} ELSE {}, IF i = n THEN {b} ELSE {})
    PROVE  Does(s, a, b, 1, -1, 0, 0, 0, 0, 0, 0) /\ Within(s, {a, b})
<1>1. 1 \in 1 .. n /\ n \in 1 .. n
  OBVIOUS
<1>2. ASSUME NEW i \in 1 .. n, NEW p
      PROVE  /\ Net(s[i], p, a) = IF p = "MTE3" /\ i = 1 THEN 1 ELSE 0
             /\ Net(s[i], p, b) = IF p = "MTE3" /\ i = n THEN -1 ELSE 0
  <2> DEFINE w == IF i = 1 THEN {a} ELSE {}  v == IF i = n THEN {b} ELSE {}
  <2>1. Is(s[i], "MTE3", w, v)
    OBVIOUS
  <2>2. Gain(w, v, a) = (IF i = 1 THEN 1 ELSE 0) /\ Gain(w, v, b) = (IF i = n THEN -1 ELSE 0)
    BY DEF Gain, Once
  <2> HIDE DEF w, v
  <2>3. /\ Net(s[i], p, a) = IF "MTE3" = p THEN Gain(w, v, a) ELSE 0
        /\ Net(s[i], p, b) = IF "MTE3" = p THEN Gain(w, v, b) ELSE 0
    BY <2>1, NetIs
  <2> QED BY <2>2, <2>3
<1>3. ASSUME NEW p
      PROVE  \A k \in 0 .. Len(s) : Taken(s, p, a)[k] = IF k < 1 THEN 0 ELSE IF p = "MTE3" THEN 1 ELSE 0
  <2>1. \A i \in 1 .. Len(s) : i # 1 => Net(s[i], p, a) = 0
    BY <1>2
  <2>2. \A k \in 0 .. Len(s) : Taken(s, p, a)[k] = IF k < 1 THEN 0 ELSE Net(s[1], p, a)
    BY <1>1, <2>1, Jump
  <2> QED BY <1>1, <1>2, <2>2
<1>4. ASSUME NEW p
      PROVE  \A k \in 0 .. Len(s) : Taken(s, p, b)[k] = IF k < n THEN 0 ELSE IF p = "MTE3" THEN -1 ELSE 0
  <2>1. \A i \in 1 .. Len(s) : i # n => Net(s[i], p, b) = 0
    BY <1>2
  <2>2. \A k \in 0 .. Len(s) : Taken(s, p, b)[k] = IF k < n THEN 0 ELSE Net(s[n], p, b)
    BY <1>1, <2>1, Jump
  <2> QED BY <1>1, <1>2, <2>2
<1>5. ASSUME NEW p
      PROVE  /\ Total(s, p, a) = (IF p = "MTE3" THEN 1 ELSE 0)
             /\ Total(s, p, b) = (IF p = "MTE3" THEN -1 ELSE 0)
  <2>1. n \in 0 .. Len(s) /\ ~(n < 1) /\ ~(n < n)
    OBVIOUS
  <2> QED BY <1>3, <1>4, <2>1 DEF Total
<1>6. Flow(s, a) = 1 /\ Flow(s, b) = -1
  BY <1>5 DEF Flow
<1>7. ASSUME NEW p PROVE Fits(s, p, a, b, 0, 0)
  <2>1. ASSUME NEW k \in 0 .. Len(s) PROVE Left(s, p, a, k) + Left(s, p, b, k) <= 0
    <3> DEFINE x == IF p = "MTE3" THEN 1 ELSE 0
    <3>1. /\ Taken(s, p, a)[k] = (IF k < 1 THEN 0 ELSE x) /\ Taken(s, p, b)[k] = (IF k < n THEN 0 ELSE 0 - x)
          /\ Total(s, p, a) = x /\ Total(s, p, b) = 0 - x
      BY <1>3, <1>4, <1>5
    <3>2. x \in Nat /\ k \in Nat
      OBVIOUS
    <3> HIDE DEF x
    <3> QED BY <3>1, <3>2 DEF Left
  <2>2. Pair(s, p, a, b) <= 0
    BY <1>5 DEF Pair
  <2> QED BY <2>1, <2>2 DEF Fits, Below
<1>8. Within(s, {a, b})
  BY DEF Within, Is
<1> QED BY <1>6, <1>7, <1>8 DEF Does

\* A slice: V fills the output buffer, MTE3 adds its rows.
LEMMA SliceDoes ==
    ASSUME NEW y \in {0, 1}, NEW k \in {0, 1}, NEW first \in BOOLEAN, NEW v, NEW s,
           Is(v, "V", (IF first THEN {Read(k)} ELSE {}) \cup {Written(y)}, {Made(y)}),
           IsSeq(s), Does(s, Made(y), Written(y), 1, -1, 0, 0, 0, 0, 0, 0), Within(s, {Made(y), Written(y)})
    PROVE  /\ IsSeq(<<v>> \o s) /\ Within(<<v>> \o s, {Read(k), Made(y), Written(y)})
           /\ DoesNothing(<<v>> \o s, Made(y), Written(y))
           /\ first => Does(<<v>> \o s, Read(k), ReadBack(1 - k), 1, 0, 0, 0, 1, 1, 0, 0)
           /\ ~first => DoesNothing(<<v>> \o s, Read(k), ReadBack(1 - k))
<1> DEFINE a == Read(k)  b == ReadBack(1 - k)  m == Made(y)  w == Written(y)
           W == (IF first THEN {a} ELSE {}) \cup {w}
<1>1. a # b /\ a # m /\ a # w /\ b # m /\ b # w /\ m # w /\ "V" \in Pipes
  BY DEF Read, ReadBack, Made, Written, Pipes
<1>2. /\ Is(v, "V", W, {m}) /\ Does(s, m, w, 1, -1, 0, 0, 0, 0, 0, 0) /\ Within(s, {m, w})
  OBVIOUS
<1> HIDE DEF a, b, m, w
<1>3. Gain(W, {m}, m) = -1 /\ Gain(W, {m}, w) = 1 /\ Gain(W, {m}, a) = (IF first THEN 1 ELSE 0) /\ Gain(W, {m}, b) = 0
  BY <1>1 DEF Gain, Once
<1>4. W \cup {m} \subseteq {a, m, w}
  OBVIOUS
<1> HIDE DEF W
<1>5. IsSeq(<<v>>) /\ Within(<<v>>, {a, m, w})
  BY <1>1, <1>2, <1>4, OneFlow
<1>6. Does(<<v>>, m, w, -1, 1, 0, 0, 0, 0, 0, 0)
  <2>1. Does(<<v>>, m, w, -1, 1, 0, 0, 0, (-1) + 1, 0, 0)
    BY <1>1, <1>2, <1>3, DoesOne
  <2> QED BY <2>1
<1>7. DoesNothing(<<v>> \o s, m, w)
  <2>1. Does(<<v>> \o s, m, w, (-1) + 1, 1 + (-1), 0, 0 + 0, 0, 0 + 0, 0, 0 + 0)
    BY <1>2, <1>6, DoesCat
  <2> QED BY <2>1 DEF DoesNothing
<1>8. DoesNothing(s, a, b)
  BY <1>1, <1>2, WithinUntouched
<1>9. ASSUME first PROVE Does(<<v>> \o s, a, b, 1, 0, 0, 0, 1, 1, 0, 0)
  <2>1. Does(<<v>>, a, b, 1, 0, 0, 0, 1, 1 + 0, 0, 0)
    BY <1>1, <1>2, <1>3, <1>9, DoesOne
  <2>2. Does(s, a, b, 0, 0, 0, 0, 1, 0, 0, 0)
    BY <1>8, DoesMore DEF DoesNothing
  <2>3. Does(<<v>> \o s, a, b, 1 + 0, 0 + 0, 0, 0 + 0, 1, 1 + 0, 0, 0 + 0)
    BY <2>1, <2>2, DoesCat
  <2> QED BY <2>3
<1>10. ASSUME ~first PROVE DoesNothing(<<v>> \o s, a, b)
  <2>1. Does(<<v>>, a, b, 0, 0, 0, 0, 0, 0 + 0, 0, 0)
    BY <1>1, <1>2, <1>3, <1>10, DoesOne
  <2>2. DoesNothing(<<v>>, a, b)
    BY <2>1 DEF DoesNothing
  <2> QED BY <1>8, <2>2, NothingCat
<1>11. IsSeq(<<v>> \o s) /\ Within(<<v>> \o s, {a, m, w})
  <2>1. Within(s, {a, m, w})
    BY <1>2, WithinMore
  <2> QED BY <1>5, <2>1, CatSeq, WithinCat
<1> QED BY <1>7, <1>9, <1>10, <1>11 DEF a, b, m, w

\* The block, its logits, and the buffers declared free.
LEMMA BeginDoes ==
    ASSUME NEW k \in {0, 1}, NEW x, NEW y, NEW z,
           Is(x, "V", {}, {}), Is(y, "MTE2", {}, {Read(k)}), Is(z, "MTE3", {}, {Written(0), Written(1)})
    PROVE  /\ IsSeq(<<x, y, z>>) /\ Within(<<x, y, z>>, {Read(k), Written(0), Written(1)})
           /\ Does(<<x, y, z>>, Read(k), ReadBack(1 - k), -1, 0, 0, -1, 0, 0, 0, 0)
           /\ \A j \in {0, 1} : Does(<<x, y, z>>, Made(j), Written(j), 0, -1, 0, 0, 0, 0, 0, -1)
<1> DEFINE xy == <<x>> \o <<y>>  all == xy \o <<z>>
           a == Read(k)  b == ReadBack(1 - k)  V == {Written(0), Written(1)}  S == {Read(k), Written(0), Written(1)}
<1>1. <<x, y, z>> = all
  <2>1. <<x, y>> = xy
    BY ListCatTwo
  <2> HIDE DEF xy
  <2> QED BY <2>1, ListCatThree
<1>2. a # b /\ a \notin V /\ b \notin V /\ "V" \in Pipes /\ "MTE2" \in Pipes /\ "MTE3" \in Pipes
  BY DEF Read, ReadBack, Written, Pipes
<1>3. {} \cup {a} \subseteq S /\ {} \cup V \subseteq S /\ Is(y, "MTE2", {}, {a}) /\ Is(z, "MTE3", {}, V)
  OBVIOUS
<1>4. ASSUME NEW j \in {0, 1} PROVE Made(j) # a /\ Made(j) \notin V /\ Written(j) # a /\ Written(j) \in V
  BY DEF Made, Read, Written
<1> HIDE DEF a, b, V, S
<1>5. /\ Gain({}, {a}, a) = -1 /\ Gain({}, {a}, b) = 0 /\ Gain({}, V, a) = 0 /\ Gain({}, V, b) = 0
  BY <1>2 DEF Gain, Once
<1>6. /\ IsSeq(<<x>>) /\ IsSeq(<<y>>) /\ IsSeq(<<z>>) /\ Within(<<x>>, S) /\ Within(<<y>>, S) /\ Within(<<z>>, S)
  BY <1>2, <1>3, OneFlow
<1>7. IsSeq(all) /\ Within(all, S)
  <2>1. IsSeq(xy) /\ Within(xy, S)
    BY <1>6, CatSeq, WithinCat
  <2> HIDE DEF xy
  <2> QED BY <1>6, <2>1, CatSeq, WithinCat
<1>8. \A c, d : DoesNothing(<<x>>, c, d)
  <2>1. Quiet(<<x>>)
    BY QuietOne DEF Is
  <2> QED BY <2>1, QuietList DEF DoesNothing, Does, Quiet
<1>9. Does(all, a, b, -1, 0, 0, -1, 0, 0, 0, 0)
  <2>1. Does(<<y>>, a, b, -1, 0, 0, (-1) + 0, 0, 0, 0, 0)
    BY <1>2, <1>3, <1>5, DoesOne
  <2>2. Does(<<z>>, a, b, 0, 0, 0, 0, 0, 0, 0, 0 + 0)
    BY <1>2, <1>3, <1>5, DoesOne
  <2>3. Does(<<x>>, a, b, 0, 0, 0, 0, 0, 0, 0, 0)
    BY <1>8 DEF DoesNothing
  <2>4. Does(xy, a, b, -1, 0, 0, -1, 0, 0, 0, 0)
    <3>1. Does(xy, a, b, 0 + (-1), 0 + 0, 0, 0 + (-1), 0, 0 + 0, 0, 0 + 0)
      BY <2>1, <2>3, DoesCat
    <3> QED BY <3>1
  <2> HIDE DEF xy
  <2>5. Does(all, a, b, (-1) + 0, 0 + 0, 0, (-1) + 0, 0, 0 + 0, 0, 0 + 0)
    BY <2>2, <2>4, DoesCat
  <2> QED BY <2>5
<1>10. ASSUME NEW j \in {0, 1} PROVE Does(all, Made(j), Written(j), 0, -1, 0, 0, 0, 0, 0, -1)
  <2> DEFINE m == Made(j)  w == Written(j)
  <2>1. m # a /\ m \notin V /\ w # a /\ w \in V
    BY <1>4
  <2> HIDE DEF m, w
  <2>2. Gain({}, {a}, m) = 0 /\ Gain({}, {a}, w) = 0 /\ Gain({}, V, m) = 0 /\ Gain({}, V, w) = -1
    BY <2>1 DEF Gain, Once
  <2>3. Does(<<y>>, m, w, 0, 0, 0, 0, 0, 0, 0, 0)
    <3>1. Does(<<y>>, m, w, 0, 0, 0, 0 + 0, 0, 0, 0, 0)
      BY <1>2, <1>3, <2>2, DoesOne
    <3> QED BY <3>1
  <2>4. Does(<<z>>, m, w, 0, -1, 0, 0, 0, 0, 0, 0 + (-1))
    BY <1>2, <1>3, <2>2, DoesOne
  <2>5. DoesNothing(xy, m, w)
    BY <1>8, <2>3, NothingCat DEF DoesNothing
  <2> HIDE DEF xy
  <2>6. Does(all, m, w, 0 + 0, 0 + (-1), 0, 0 + 0, 0, 0 + 0, 0, 0 + (-1))
    BY <2>4, <2>5, DoesCat DEF DoesNothing
  <2>7. Does(all, m, w, 0, -1, 0, 0, 0, 0, 0, -1)
    BY <2>6
  <2> QED BY <2>7 DEF m, w
<1> QED BY <1>1, <1>7, <1>9, <1>10 DEF a, b, S

\* V waits for both buffers, and hands the logits' other buffer over.
LEMMA EndDoes ==
    ASSUME NEW k \in {0, 1}, NEW x, NEW y,
           Is(x, "V", {Written(0), Written(1)}, {ReadBack(1 - k)}), Is(y, "MTE2", {ReadBack(1 - k)}, {})
    PROVE  /\ IsSeq(<<x, y>>) /\ Within(<<x, y>>, {ReadBack(1 - k), Written(0), Written(1)})
           /\ Does(<<x, y>>, Read(k), ReadBack(1 - k), 0, 0, 1, 1, 0, -1, 0, 0)
           /\ \A j \in {0, 1} : Does(<<x, y>>, Made(j), Written(j), 0, 1, 0, 0, 1, 1, 0, 0)
<1> DEFINE a == Read(k)  b == ReadBack(1 - k)  V == {Written(0), Written(1)}  S == {b, Written(0), Written(1)}
           all == <<x>> \o <<y>>
<1>1. <<x, y>> = all
  BY ListCatTwo
<1>2. a # b /\ a \notin V /\ b \notin V /\ "V" \in Pipes /\ "MTE2" \in Pipes
  BY DEF Read, ReadBack, Written, Pipes
<1>3. V \cup {b} \subseteq S /\ {b} \cup {} \subseteq S /\ Is(x, "V", V, {b}) /\ Is(y, "MTE2", {b}, {})
  OBVIOUS
<1>4. ASSUME NEW j \in {0, 1} PROVE Made(j) # b /\ Made(j) \notin V /\ Written(j) # b /\ Written(j) \in V
  BY DEF Made, ReadBack, Written
<1> HIDE DEF a, b, V, S
<1>5. /\ Gain(V, {b}, a) = 0 /\ Gain(V, {b}, b) = -1 /\ Gain({b}, {}, a) = 0 /\ Gain({b}, {}, b) = 1
  BY <1>2 DEF Gain, Once
<1>6. IsSeq(<<x>>) /\ IsSeq(<<y>>) /\ Within(<<x>>, S) /\ Within(<<y>>, S)
  BY <1>2, <1>3, OneFlow
<1>7. IsSeq(all) /\ Within(all, S)
  BY <1>6, CatSeq, WithinCat
<1>8. Does(all, a, b, 0, 0, 1, 1, 0, -1, 0, 0)
  <2>1. Does(<<x>>, a, b, 0, -1, 0, 0, 0, 0 + (-1), 0, 0)
    BY <1>2, <1>3, <1>5, DoesOne
  <2>2. Does(<<y>>, a, b, 0, 1, 1, 0 + 1, 0, 0, 0, 0)
    BY <1>2, <1>3, <1>5, DoesOne
  <2>3. Does(all, a, b, 0 + 0, (-1) + 1, 1, 0 + 1, 0, (-1) + 0, 0, 0 + 0)
    BY <2>1, <2>2, DoesCat
  <2> QED BY <2>3
<1>9. ASSUME NEW j \in {0, 1} PROVE Does(all, Made(j), Written(j), 0, 1, 0, 0, 1, 1, 0, 0)
  <2> DEFINE m == Made(j)  w == Written(j)
  <2>1. m # b /\ m \notin V /\ w # b /\ w \in V
    BY <1>4
  <2> HIDE DEF m, w
  <2>2. Gain(V, {b}, m) = 0 /\ Gain(V, {b}, w) = 1 /\ Gain({b}, {}, m) = 0 /\ Gain({b}, {}, w) = 0
    BY <2>1 DEF Gain, Once
  <2>3. Does(<<x>>, m, w, 0, 1, 0, 0, 1, 0 + 1, 0, 0)
    BY <1>2, <1>3, <2>2, DoesOne
  <2>4. Does(<<y>>, m, w, 0, 0, 0, 0, 1, 0, 0, 0)
    <3>1. Does(<<y>>, m, w, 0, 0, 0, 0 + 0, 0, 0, 0, 0)
      BY <1>2, <1>3, <2>2, DoesOne
    <3> QED BY <3>1, DoesMore
  <2>5. Does(all, m, w, 0 + 0, 1 + 0, 0, 0 + 0, 1, 1 + 0, 0, 0 + 0)
    BY <2>3, <2>4, DoesCat
  <2>6. Does(all, m, w, 0, 1, 0, 0, 1, 1, 0, 0)
    BY <2>5
  <2> QED BY <2>6 DEF m, w
<1> QED BY <1>1, <1>7, <1>8, <1>9 DEF a, b, S

-----------------------------------------------------------------------------
\* What AddRows issues: what comes first, the slices, and what ends it.
LEMMA AddList ==
    ASSUME NEW k \in {0, 1}, NEW s, NEW u, NEW t, NEW qs, qs["V"] = <<>>,
           IsSeq(s), Within(s, {Read(k), Written(0), Written(1)}),
           Does(s, Read(k), ReadBack(1 - k), -1, 0, 0, -1, 0, 0, 0, 0),
           \A j \in {0, 1} : Does(s, Made(j), Written(j), 0, -1, 0, 0, 0, 0, 0, -1),
           IsSeq(t), Within(t, {ReadBack(1 - k), Written(0), Written(1)}),
           Does(t, Read(k), ReadBack(1 - k), 0, 0, 1, 1, 0, -1, 0, 0),
           \A j \in {0, 1} : Does(t, Made(j), Written(j), 0, 1, 0, 0, 1, 1, 0, 0),
           IsSeq(u), Len(u) >= 1,
           \A i \in 1 .. Len(u) : /\ IsSeq(u[i]) /\ Within(u[i], {Read(k), Made(0), Written(0), Made(1), Written(1)})
                                  /\ \A j \in {0, 1} : DoesNothing(u[i], Made(j), Written(j)),
           Does(u[1], Read(k), ReadBack(1 - k), 1, 0, 0, 0, 1, 1, 0, 0),
           \A i \in 2 .. Len(u) : DoesNothing(u[i], Read(k), ReadBack(1 - k))
    PROVE  Good(s \o FlattenSeq(u) \o t, qs, FinalizeEvents, AddingRings)
<1> DEFINE a == Read(k)  b == ReadBack(1 - k)  v == FlattenSeq(u)  sv == s \o v  all == sv \o t
           S == {a, b, Made(0), Written(0), Made(1), Written(1)}
<1>1. Len(u) \in Nat
  BY SeqFacts
<1>2. Within(v, {Read(k), Made(0), Written(0), Made(1), Written(1)})
  BY FlattenWithin
<1>3. IsSeq(v) /\ Does(v, a, b, 1, 0, 0, 0, 1, 1, 0, 0)
  <2> HIDE DEF a, b
  <2>1. Does(u[1], a, b, 1, 0, 0, 0, 1, 1, 0, 0)
    BY DEF a, b
  <2>2. \A i \in 2 .. Len(u) : DoesNothing(u[i], a, b)
    BY DEF a, b
  <2>3. \A i \in 2 .. Len(u) : Does(u[i], a, b, 0, 0, 0, 0, 1, 0, 0, 0)
    <3> TAKE i \in 2 .. Len(u)
    <3>1. Does(u[i], a, b, 0, 0, 0, 0, 0, 0, 0, 0)
      BY <2>2 DEF DoesNothing
    <3> QED BY <3>1, DoesMore
  <2>4. Does(v, a, b, 1, 0, 0, 0, 1, 1, 0, 0)
    BY <2>1, <2>3, DoesFlatten
  <2> HIDE DEF v
  <2> QED BY <2>4 DEF Does
<1>4. ASSUME NEW j \in {0, 1} PROVE DoesNothing(v, Made(j), Written(j))
  <2> DEFINE m == Made(j)  w == Written(j)
  <2>1. \A i \in 1 .. Len(u) : DoesNothing(u[i], m, w)
    OBVIOUS
  <2> HIDE DEF m, w
  <2>2. /\ Does(u[1], m, w, 0, 0, 0, 0, 0, 0, 0, 0)
        /\ \A i \in 2 .. Len(u) : Does(u[i], m, w, 0, 0, 0, 0, 0, 0, 0, 0)
    <3>1. 1 \in 1 .. Len(u) /\ \A i \in 2 .. Len(u) : i \in 1 .. Len(u)
      BY <1>1
    <3> QED BY <2>1, <3>1 DEF DoesNothing
  <2>3. DoesNothing(v, m, w)
    BY <2>2, DoesFlatten DEF DoesNothing
  <2> QED BY <2>3 DEF m, w
<1> HIDE DEF v
<1>5. IsSeq(all) /\ Within(all, S)
  <2>1. Within(s, S) /\ Within(v, S) /\ Within(t, S)
    <3>1. Within(s, S)
      BY WithinMore
    <3>2. Within(v, S)
      BY <1>2, WithinMore
    <3>3. Within(t, S)
      BY WithinMore
    <3> QED BY <3>1, <3>2, <3>3
  <2> HIDE DEF S
  <2>2. IsSeq(sv) /\ Within(sv, S)
    BY <1>3, <2>1, CatSeq, WithinCat
  <2> HIDE DEF sv
  <2> QED BY <2>1, <2>2, CatSeq, WithinCat
<1>6. Does(all, a, b, 0, 0, 1, 0, 0, 0, 0, 0)
  <2>1. Does(s, a, b, -1, 0, 0, -1, 0, 0, 0, 0) /\ Does(t, a, b, 0, 0, 1, 1, 0, -1, 0, 0)
    OBVIOUS
  <2> HIDE DEF a, b
  <2>2. Does(sv, a, b, (-1) + 1, 0 + 0, 0, (-1) + 0, 1, 0 + 1, 0, 0 + 0)
    BY <1>3, <2>1, DoesCat
  <2>3. Does(sv, a, b, 0, 0, 0, -1, 1, 1, 0, 0)
    BY <2>2
  <2> HIDE DEF sv
  <2>4. Does(all, a, b, 0 + 0, 0 + 0, 1, (-1) + 1, 0, 1 + (-1), 0, 0 + 0)
    BY <2>1, <2>3, DoesCat
  <2> QED BY <2>4
<1>7. ASSUME NEW j \in {0, 1} PROVE Does(all, Made(j), Written(j), 0, 0, 0, 0, 1, 1, 0, 0)
  <2> DEFINE m == Made(j)  w == Written(j)
  <2>1. Does(s, m, w, 0, -1, 0, 0, 0, 0, 0, -1) /\ Does(t, m, w, 0, 1, 0, 0, 1, 1, 0, 0) /\ DoesNothing(v, m, w)
    BY <1>4
  <2> HIDE DEF m, w
  <2>2. Does(sv, m, w, 0 + 0, (-1) + 0, 0, 0 + 0, 0, 0 + 0, 0, (-1) + 0)
    BY <2>1, DoesCat DEF DoesNothing
  <2>3. Does(sv, m, w, 0, -1, 0, 0, 0, 0, 0, -1)
    BY <2>2
  <2> HIDE DEF sv
  <2>4. Does(all, m, w, 0 + 0, (-1) + 1, 0, 0 + 0, 1, 0 + 1, 0, (-1) + 0)
    BY <2>1, <2>3, DoesCat
  <2>5. Does(all, m, w, 0, 0, 0, 0, 1, 1, 0, -1)
    BY <2>4
  <2>6. Does(all, m, w, 0, 0, 0, 0, 1, 1, 0, 0)
    BY <2>5, DoesMore
  <2> QED BY <2>6 DEF m, w
<1> HIDE DEF sv, all
<1>8. ASSUME NEW j \in {0, 1}
      PROVE  Does(all, Read(j), ReadBack(1 - j), 0, 0, 1, 0, 0, 0, 0, 0)
  <2>1. CASE j = k
    BY <1>6, <2>1
  <2>2. CASE j # k
    <3>1. Read(j) \notin S /\ ReadBack(1 - j) \notin S
      BY <2>2 DEF S, Read, ReadBack, Made, Written
    <3>2. DoesNothing(all, Read(j), ReadBack(1 - j))
      BY <1>5, <3>1, WithinUntouched
    <3> QED BY <3>2, NothingReadsBack DEF ReadsBack
  <2> QED BY <2>1, <2>2
<1>10. Within(all, FinalizeEvents)
  <2>1. S \subseteq FinalizeEvents
    BY DEF S, FinalizeEvents
  <2> QED BY <1>5, <2>1, WithinMore
<1>11. Good(all, qs, FinalizeEvents, AddingRings)
  BY <1>5, <1>7, <1>8, <1>10, AddingGood
<1> QED BY <1>11 DEF all, sv, v

-----------------------------------------------------------------------------
\* What a slice of the epilogue does to the events, the first slice also to those of the input buffer k.
SliceGood(s, k, first) ==
    /\ IsSeq(s) /\ Within(s, {Read(k), Made(0), Written(0), Made(1), Written(1)})
    /\ \A j \in {0, 1} : DoesNothing(s, Made(j), Written(j))
    /\ first => Does(s, Read(k), ReadBack(1 - k), 1, 0, 0, 0, 1, 1, 0, 0)
    /\ ~first => DoesNothing(s, Read(k), ReadBack(1 - k))

\* A slice of the epilogue, computed into one of the output buffers.
LEMMA EpilogueSlice ==
    ASSUME NEW o, NEW y \in {0, 1}, NEW k \in {0, 1}, NEW i, NEW size \in Nat, size >= 1, NEW n, NEW offset, NEW yOffset,
           NEW first \in BOOLEAN, NEW W, W = IF first THEN {Read(k)} ELSE {}
    PROVE  SliceGood(<<Finalize!Epilogue!VFDoLogitMuls(o, y, i, size, n, W)>>
                     \o Finalize!Epilogue!VectorAtomicProcess(o, y, size, n, offset, yOffset), k, first)
<1> DEFINE v == Finalize!Epilogue!VFDoLogitMuls(o, y, i, size, n, W)
           t == Finalize!Epilogue!VectorAtomicProcess(o, y, size, n, offset, yOffset)
           s == <<v>> \o t
<1>1. Is(v, "V", W \cup {Written(y)}, {Made(y)})
  BY DEF Is, Made, Written, Finalize!Epilogue!VFDoLogitMuls, Finalize!Epilogue!LogitMuls, Finalize!Epilogue!Compute,
         Finalize!Epilogue!Instr
<1>2. IsSeq(t) /\ Len(t) = size
  <2>1. t = [m \in 1 .. size |-> t[m]]
    BY DEF Finalize!Epilogue!VectorAtomicProcess
  <2> HIDE DEF t
  <2> QED BY <2>1, SeqMade
<1>3. ASSUME NEW m \in 1 .. size
      PROVE  Is(t[m], "MTE3", IF m = 1 THEN {Made(y)} ELSE {}, IF m = size THEN {Written(y)} ELSE {})
  <2>1. (m - 1 = 0 <=> m = 1) /\ (m - 1 = size - 1 <=> m = size)
    OBVIOUS
  <2> QED BY <2>1 DEF Is, Made, Written, Finalize!Epilogue!VectorAtomicProcess, Finalize!Epilogue!CopyOut, Finalize!Epilogue!Instr
<1> HIDE DEF v, t
<1>4. Does(t, Made(y), Written(y), 1, -1, 0, 0, 0, 0, 0, 0) /\ Within(t, {Made(y), Written(y)})
  <2>1. Made(y) # Written(y)
    BY DEF Made, Written
  <2> DEFINE a == Made(y)  b == Written(y)
  <2>2. /\ a # b
        /\ \A m \in 1 .. size : Is(t[m], "MTE3", IF m = 1 THEN {a} ELSE {}, IF m = size THEN {b} ELSE {})
    BY <1>3, <2>1
  <2> HIDE DEF a, b
  <2>3. Does(t, a, b, 1, -1, 0, 0, 0, 0, 0, 0) /\ Within(t, {a, b})
    BY <1>2, <2>2, RowsDo
  <2> QED BY <2>3 DEF a, b
<1>5. /\ IsSeq(s) /\ Within(s, {Read(k), Made(y), Written(y)}) /\ DoesNothing(s, Made(y), Written(y))
      /\ first => Does(s, Read(k), ReadBack(1 - k), 1, 0, 0, 0, 1, 1, 0, 0)
      /\ ~first => DoesNothing(s, Read(k), ReadBack(1 - k))
  BY <1>1, <1>2, <1>4, SliceDoes
<1> HIDE DEF s
<1>6. Within(s, {Read(k), Made(0), Written(0), Made(1), Written(1)})
  <2>1. {Read(k), Made(y), Written(y)} \subseteq {Read(k), Made(0), Written(0), Made(1), Written(1)}
    OBVIOUS
  <2> QED BY <1>5, <2>1, WithinMore
<1>7. ASSUME NEW j \in {0, 1} PROVE DoesNothing(s, Made(j), Written(j))
  <2>1. CASE j = y
    BY <1>5, <2>1
  <2>2. CASE j # y
    <3> DEFINE S == {Read(k), Made(y), Written(y)}
    <3>1. Made(j) \notin S /\ Written(j) \notin S /\ Within(s, S)
      BY <1>5, <2>2 DEF Made, Written, Read
    <3> HIDE DEF S
    <3> QED BY <1>5, <3>1, WithinUntouched
  <2> QED BY <2>1, <2>2
<1>8. SliceGood(s, k, first)
  BY <1>5, <1>6, <1>7 DEF SliceGood
<1> QED BY <1>8 DEF s, v, t

LEMMA AddRowsIs ==
    ASSUME LegalFinalize, NEW c \in SubBlocks, EpilogueFields(obj[c]), Calls(c, "AddRows") => Head(calls[c]).m \in Nat,
           Finalize!Epilogue!AddRows(c)
    PROVE  \E fields, instrs : /\ Call(c, "AddRows", fields, instrs) /\ EpilogueFields(fields)
                               /\ Good(instrs, queue[c], FinalizeEvents, AddingRings)
<1> DEFINE call == Head(calls[c])
           o == obj[c]
           rows == SingleMInVec(c, call.m)
           offset == call.coord.logit + (c * Finalize!Epilogue!HalfSingleM(call.m))
           loopNumY == CeilDiv(rows, MaxOutputM)
           y(i) == (o.yId + i) % 2
           size(i) == Least(MaxOutputM, rows - i * MaxOutputM)
           slice(i) ==
             <<Finalize!Epilogue!VFDoLogitMuls(o, y(i), i, size(i), call.n, IF i = 0 THEN {<<"MTE2_V", o.logitId>>} ELSE {})>>
             \o Finalize!Epilogue!VectorAtomicProcess(o, y(i), size(i), call.n, offset + i * MaxOutputM, call.coord.y)
           next == (o.logitId + 1) % 2
           fields == [o EXCEPT !.logitId = next, !.yId = (@ + loopNumY) % 2]
           s == << Finalize!Epilogue!MatmulResult(c, o, call, rows), Finalize!Epilogue!CopyInLogit(o, rows, offset),
                   Finalize!Epilogue!CopyOut({}, {<<"MTE3_V", 0>>, <<"MTE3_V", 1>>}, <<>>) >>
           u == [i \in 1 .. loopNumY |-> slice(i - 1)]
           t == << Finalize!Epilogue!Compute(Finalize!Epilogue!AllCopied(o), {<<"V_MTE2", next>>}, <<>>),
                   Finalize!Epilogue!CopyIn({<<"V_MTE2", next>>}, {}, <<>>) >>
<1>1. /\ Calls(c, "AddRows") /\ ResultArrived(c)
      /\ IF rows = 0 THEN Call(c, "AddRows", o, <<>>)
         ELSE Call(c, "AddRows", fields, s \o FlattenSeq(u) \o t)
  <2>1. Finalize!Epilogue!SingleMInVec(c, call.m) = rows
    BY DEF Finalize!Epilogue!SingleMInVec, SingleMInVec, Finalize!Epilogue!HalfSingleM, HalfSingleM,
           Finalize!Epilogue!CeilDiv, CeilDiv, Finalize!Epilogue!Cardinality, Cardinality
  <2>2. TRUE
    OBVIOUS
  <2> QED BY <2>1, SameInEpilogue DEF Finalize!Epilogue!AddRows
<1>2. rows \in Nat
  <2>1. call.m \in Nat
    BY <1>1
  <2> HIDE DEF call
  <2> QED BY <2>1, CoreRows
<1>3. queue[c]["V"] = <<>>
  BY <1>1 DEF ResultArrived
<1>4. CASE rows = 0
  <2>1. Call(c, "AddRows", o, <<>>)
    BY <1>1, <1>4
  <2>2. Good(<<>>, queue[c], FinalizeEvents, AddingRings)
    BY AddingRingsGoAround, GoodNothing
  <2> QED BY <2>1, <2>2
<1>5. CASE rows # 0
  <2> DEFINE k == o.logitId
  <2>1. k \in {0, 1} /\ o.yId \in {0, 1} /\ next = 1 - k
    BY DEF EpilogueFields
  <2>2. MaxOutputM \in Positive /\ loopNumY \in Nat /\ loopNumY >= 1
    <3>1. MaxOutputM \in Positive
      BY PipesAssumption DEF Positive
    <3> HIDE DEF rows
    <3> QED BY <1>2, <1>5, <3>1, CeilDivType
  <2>3. EpilogueFields(fields)
    <3>1. (o.yId + loopNumY) % 2 \in {0, 1}
      <4> HIDE DEF loopNumY
      <4> QED BY <2>1, <2>2
    <3>2. next \in {0, 1}
      BY <2>1
    <3> DEFINE x == (o.yId + loopNumY) % 2
    <3>3. fields = [o EXCEPT !.logitId = next, !.yId = x] /\ x \in {0, 1}
      BY <3>1
    <3> HIDE DEF x, next, fields
    <3> QED BY <3>2, <3>3 DEF EpilogueFields
  <2>4. /\ IsSeq(s) /\ Within(s, {Read(k), Written(0), Written(1)})
        /\ Does(s, Read(k), ReadBack(1 - k), -1, 0, 0, -1, 0, 0, 0, 0)
        /\ \A j \in {0, 1} : Does(s, Made(j), Written(j), 0, -1, 0, 0, 0, 0, 0, -1)
    <3> DEFINE x == Finalize!Epilogue!MatmulResult(c, o, call, rows)  z == Finalize!Epilogue!CopyInLogit(o, rows, offset)
               w == Finalize!Epilogue!CopyOut({}, {<<"MTE3_V", 0>>, <<"MTE3_V", 1>>}, <<>>)
    <3>1. Is(x, "V", {}, {})
      BY DEF Is, Finalize!Epilogue!MatmulResult, Finalize!Epilogue!Compute, Finalize!Epilogue!Instr
    <3>2. Is(z, "MTE2", {}, {Read(k)})
      BY DEF Is, Read, Finalize!Epilogue!CopyInLogit, Finalize!Epilogue!CopyIn, Finalize!Epilogue!Instr
    <3>3. Is(w, "MTE3", {}, {Written(0), Written(1)})
      BY DEF Is, Written, Finalize!Epilogue!CopyOut, Finalize!Epilogue!Instr
    <3> HIDE DEF x, z, w, k
    <3> QED BY <2>1, <3>1, <3>2, <3>3, BeginDoes DEF x, z, w
  <2>5. /\ IsSeq(t) /\ Within(t, {ReadBack(1 - k), Written(0), Written(1)})
        /\ Does(t, Read(k), ReadBack(1 - k), 0, 0, 1, 1, 0, -1, 0, 0)
        /\ \A j \in {0, 1} : Does(t, Made(j), Written(j), 0, 1, 0, 0, 1, 1, 0, 0)
    <3> DEFINE x == Finalize!Epilogue!Compute(Finalize!Epilogue!AllCopied(o), {<<"V_MTE2", next>>}, <<>>)
               z == Finalize!Epilogue!CopyIn({<<"V_MTE2", next>>}, {}, <<>>)
    <3>0. Finalize!Epilogue!AllCopied(o) = {Written(0), Written(1)}
      <4>1. 0 .. 1 = {0, 1}
        OBVIOUS
      <4> QED BY <4>1 DEF Written, Finalize!Epilogue!AllCopied
    <3>1. Is(x, "V", {Written(0), Written(1)}, {ReadBack(next)})
      BY <3>0 DEF Is, ReadBack, Finalize!Epilogue!Compute, Finalize!Epilogue!Instr
    <3>2. Is(z, "MTE2", {ReadBack(next)}, {})
      BY DEF Is, ReadBack, Finalize!Epilogue!CopyIn, Finalize!Epilogue!Instr
    <3> HIDE DEF x, z, k, next
    <3> QED BY <2>1, <3>1, <3>2, EndDoes DEF x, z
  <2>6. IsSeq(u) /\ Len(u) = loopNumY /\ \A i \in 1 .. loopNumY : u[i] = slice(i - 1)
    <3>1. u = [i \in 1 .. loopNumY |-> u[i]] /\ \A i \in 1 .. loopNumY : u[i] = slice(i - 1)
      OBVIOUS
    <3> HIDE DEF u, slice, loopNumY
    <3> QED BY <2>2, <3>1, SeqMade
  <2>7. ASSUME NEW i \in 1 .. loopNumY
        PROVE  /\ IsSeq(u[i]) /\ Within(u[i], {Read(k), Made(0), Written(0), Made(1), Written(1)})
               /\ \A j \in {0, 1} : DoesNothing(u[i], Made(j), Written(j))
               /\ i = 1 => Does(u[i], Read(k), ReadBack(1 - k), 1, 0, 0, 0, 1, 1, 0, 0)
               /\ i # 1 => DoesNothing(u[i], Read(k), ReadBack(1 - k))
    <3> DEFINE l == i - 1  z == size(l)  yy == y(l)  first == (i = 1)  W == IF l = 0 THEN {<<"MTE2_V", o.logitId>>} ELSE {}
               at == offset + l * MaxOutputM
    <3>1. l \in Nat /\ l < loopNumY /\ (l = 0 <=> first) /\ first \in BOOLEAN
      <4> HIDE DEF loopNumY
      <4> QED BY <2>2
    <3>2. z \in Nat /\ z >= 1
      <4>1. l * MaxOutputM \in Nat /\ l * MaxOutputM < rows
        <5> HIDE DEF l, rows
        <5> QED BY <1>2, <2>2, <3>1, CeilDivBelow
      <4> DEFINE x == l * MaxOutputM
      <4>2. x \in Nat /\ x < rows /\ z = Least(MaxOutputM, rows - x) /\ MaxOutputM \in Nat /\ MaxOutputM >= 1
        BY <2>2, <4>1 DEF Positive
      <4> HIDE DEF x, rows, z
      <4> QED BY <1>2, <4>2 DEF Least
    <3>3. yy \in {0, 1}
      <4> HIDE DEF l
      <4> QED BY <2>1, <3>1
    <3>4. W = IF first THEN {Read(k)} ELSE {}
      BY <3>1 DEF Read
    <3>5. u[i] = <<Finalize!Epilogue!VFDoLogitMuls(o, yy, l, z, call.n, W)>>
                 \o Finalize!Epilogue!VectorAtomicProcess(o, yy, z, call.n, at, call.coord.y)
      BY <2>6
    <3> DEFINE n == call.n  yOffset == call.coord.y
    <3> HIDE DEF l, z, yy, first, W, at, k, u, n, yOffset, o, call
    <3> DEFINE v == <<Finalize!Epilogue!VFDoLogitMuls(o, yy, l, z, n, W)>>
                 \o Finalize!Epilogue!VectorAtomicProcess(o, yy, z, n, at, yOffset)
    <3>6. SliceGood(v, k, first)
      <4>1. k \in {0, 1} /\ yy \in {0, 1} /\ z \in Nat /\ z >= 1 /\ first \in BOOLEAN /\ W = IF first THEN {Read(k)} ELSE {}
        BY <2>1, <3>1, <3>2, <3>3, <3>4
      <4> QED BY ONLY <4>1, EpilogueSlice
    <3>7. u[i] = v
      BY <3>5 DEF n, yOffset
    <3> HIDE DEF v
    <3> QED BY <3>6, <3>7 DEF SliceGood, first
  <2>8. Good(s \o FlattenSeq(u) \o t, queue[c], FinalizeEvents, AddingRings)
    <3>1. \A i \in 1 .. Len(u) :
            /\ IsSeq(u[i]) /\ Within(u[i], {Read(k), Made(0), Written(0), Made(1), Written(1)})
            /\ \A j \in {0, 1} : DoesNothing(u[i], Made(j), Written(j))
      BY <2>6, <2>7
    <3>2. Does(u[1], Read(k), ReadBack(1 - k), 1, 0, 0, 0, 1, 1, 0, 0)
      <4>1. 1 \in 1 .. loopNumY
        <5> HIDE DEF loopNumY
        <5> QED BY <2>2
      <4> QED BY <2>7, <4>1
    <3>3. \A i \in 2 .. Len(u) : DoesNothing(u[i], Read(k), ReadBack(1 - k))
      <4> HIDE DEF loopNumY, u
      <4>1. \A i \in 2 .. Len(u) : i \in 1 .. loopNumY /\ i # 1
        BY <2>2, <2>6
      <4> QED BY <2>7, <4>1
    <3>4. Len(u) >= 1 /\ IsSeq(u)
      <4> HIDE DEF loopNumY, u
      <4> QED BY <2>2, <2>6
    <3> DEFINE qs == queue[c]
    <3>5. qs["V"] = <<>>
      BY <1>3
    <3> HIDE DEF s, t, u, k, qs
    <3>6. Good(s \o FlattenSeq(u) \o t, qs, FinalizeEvents, AddingRings)
      BY <2>1, <2>4, <2>5, <3>1, <3>2, <3>3, <3>4, <3>5, AddList
    <3> QED BY <3>6 DEF qs
  <2>9. Call(c, "AddRows", fields, s \o FlattenSeq(u) \o t)
    BY <1>1, <1>5
  <2> HIDE DEF s, t, u, fields
  <2> QED BY <2>3, <2>8, <2>9
<1> QED BY <1>4, <1>5

-----------------------------------------------------------------------------
(* Finalize-routing: its calls, and the events of a core.                  *)

\* The calls after the barrier.
RestGood(s) ==
    CallsGood(s, "AddRows") /\ \A k \in 1 .. Len(s) : s[k].op \notin {"FillOutput", "SyncAll"}

LEMMA RestTail ==
    ASSUME NEW s, RestGood(s), s # <<>>
    PROVE  RestGood(Tail(s)) /\ Head(s).op \notin {"FillOutput", "SyncAll"} /\ (Head(s).op = "AddRows" => Head(s).m \in Nat)
<1>1. /\ Len(s) \in Nat \ {0} /\ Len(Tail(s)) = Len(s) - 1 /\ Head(s) = s[1]
      /\ \A k \in 1 .. Len(Tail(s)) : Tail(s)[k] = s[k + 1]
  BY AfterFirst DEF RestGood, CallsGood
<1>2. 1 \in 1 .. Len(s) /\ \A k \in 1 .. Len(Tail(s)) : k + 1 \in 1 .. Len(s)
  BY <1>1
<1>3. CallsGood(Tail(s), "AddRows") /\ (Head(s).op = "AddRows" => Head(s).m \in Nat)
  BY CallsTail DEF RestGood
<1> QED BY <1>1, <1>2, <1>3 DEF RestGood

\* The prologue, the barrier, and the rest.
FromStart(s) == s # <<>> /\ Head(s).op = "FillOutput"
FromBarrier(s) == s # <<>> /\ Head(s).op = "SyncAll" /\ RestGood(Tail(s))

LEMMA FinalizeCalls ==
    ASSUME LegalBlocks
    PROVE  FromStart(Finalize!CallsOf) /\ FromBarrier(Tail(Finalize!CallsOf))
<1> DEFINE x == [op |-> "FillOutput"]  y == [op |-> "SyncAll"]
           first(g) == << [op |-> "UpdateNextProblem", n |-> job.n],
                          [op |-> "UpdateGlobalAddr", logit |-> Finalize!RowsBefore(g)] >>
           pieces == [g \in 1 .. Len(job.ms) |-> first(g) \o Finalize!Blocks(g)]
           rest == FlattenSeq(pieces)
           s == <<x, y>> \o rest
<1>1. Finalize!CallsOf = s
  <2>1. Finalize!CallsOf = <<x, y>> \o Finalize!FlattenSeq(pieces)
    BY DEF Finalize!CallsOf
  <2> HIDE DEF pieces
  <2> QED BY <2>1, SameInFinalize
<1>2. ASSUME NEW g \in 1 .. Len(job.ms) PROVE RestGood(first(g) \o Finalize!Blocks(g))
  <2> DEFINE u == [op |-> "UpdateNextProblem", n |-> job.n]
             v == [op |-> "UpdateGlobalAddr", logit |-> Finalize!RowsBefore(g)]
             b == Finalize!Blocks(g)
  <2>1. u.op = "UpdateNextProblem" /\ v.op = "UpdateGlobalAddr"
    OBVIOUS
  <2>2. CallsGood(b, "AddRows") /\ \A k \in 1 .. Len(b) : b[k].op = "AddRows"
    BY FinalizeBlocks
  <2>3. first(g) = <<u, v>>
    OBVIOUS
  <2> HIDE DEF u, v, b
  <2>4. IsSeq(<<u, v>>) /\ Len(<<u, v>>) = 2 /\ <<u, v>>[1] = u /\ <<u, v>>[2] = v
    <3>1. <<u, v>> \in Seq({u, v})
      OBVIOUS
    <3> QED BY <3>1 DEF IsSeq
  <2>5. CallsGood(<<u, v>>, "AddRows")
    <3>1. \A k \in 1 .. 2 : k = 1 \/ k = 2
      OBVIOUS
    <3> QED BY <2>1, <2>4, <3>1 DEF CallsGood
  <2>6. CallsGood(<<u, v>> \o b, "AddRows")
    BY <2>2, <2>5, CallsCat
  <2>7. ASSUME NEW k \in 1 .. Len(<<u, v>> \o b) PROVE (<<u, v>> \o b)[k].op \notin {"FillOutput", "SyncAll"}
    <3>1. IsSeq(b) /\ Len(b) \in Nat
      BY <2>2, SeqFacts DEF CallsGood
    <3>2. /\ Len(<<u, v>> \o b) = 2 + Len(b)
          /\ \A i \in 1 .. 2 : (<<u, v>> \o b)[i] = <<u, v>>[i]
          /\ \A i \in 1 .. Len(b) : (<<u, v>> \o b)[2 + i] = b[i]
      BY <2>4, <3>1, CatSeq
    <3>3. CASE k <= 2
      <4>1. k = 1 \/ k = 2
        BY <3>3
      <4>2. (<<u, v>> \o b)[k].op \in {u.op, v.op}
        BY <2>4, <3>2, <4>1
      <4> QED BY <2>1, <4>2
    <3>4. CASE ~(k <= 2)
      <4>1. k - 2 \in 1 .. Len(b) /\ k = 2 + (k - 2)
        BY <3>1, <3>2, <3>4
      <4>2. (<<u, v>> \o b)[k] = b[k - 2]
        BY <3>2, <4>1
      <4> QED BY <2>2, <4>1, <4>2
    <3> QED BY <3>3, <3>4
  <2> QED BY <2>3, <2>6, <2>7 DEF RestGood, b
<1>3. IsSeq(pieces) /\ Len(pieces) = Len(job.ms) /\ \A g \in 1 .. Len(job.ms) : pieces[g] = first(g) \o Finalize!Blocks(g)
  <2>1. pieces = [g \in 1 .. Len(job.ms) |-> pieces[g]] /\ \A g \in 1 .. Len(job.ms) : pieces[g] = first(g) \o Finalize!Blocks(g)
    OBVIOUS
  <2> HIDE DEF pieces, first
  <2> QED BY <2>1, SeqMade DEF LegalBlocks
<1> HIDE DEF first, pieces
<1>4. RestGood(rest)
  <2>1. \A i \in 1 .. Len(pieces) : RestGood(pieces[i])
    BY <1>2, <1>3
  <2>2. \A i \in 1 .. Len(pieces) : IsSeq(pieces[i]) /\ CallsGood(pieces[i], "AddRows")
    BY <2>1 DEF RestGood, CallsGood
  <2>3. CallsGood(rest, "AddRows")
    BY <1>3, <2>2, CallsFlatten
  <2>4. ASSUME NEW k \in 1 .. Len(rest) PROVE rest[k].op \notin {"FillOutput", "SyncAll"}
    <3>1. PICK i \in 1 .. Len(pieces) : \E l \in 1 .. Len(pieces[i]) : rest[k] = pieces[i][l]
      BY <1>3, <2>2, FlattenRange
    <3> QED BY <2>1, <3>1 DEF RestGood
  <2> QED BY <2>3, <2>4 DEF RestGood
<1>5. /\ s # <<>> /\ Head(s) = x /\ Tail(s) # <<>> /\ Head(Tail(s)) = y /\ Tail(Tail(s)) = rest
  <2>1. IsSeq(rest)
    BY <1>4 DEF RestGood, CallsGood
  <2> HIDE DEF x, y, rest
  <2>2. PICK X : rest \in Seq(X)
    BY <2>1 DEF IsSeq
  <2>3. rest \in Seq(X \cup {x, y}) /\ <<x, y>> \in Seq(X \cup {x, y})
    BY <2>2
  <2> QED BY <2>3
<1>6. x.op = "FillOutput" /\ y.op = "SyncAll"
  OBVIOUS
<1> HIDE DEF s, rest, x, y
<1> QED BY <1>1, <1>4, <1>5, <1>6 DEF FromStart, FromBarrier

-----------------------------------------------------------------------------
\* An instruction that runs keeps its core's events in pairs.
LEMMA RunKeeps ==
    ASSUME Cores, NEW c \in SubBlocks, NEW E, NEW F, NEW R, Paired(flag[c], queue[c], E, F, R),
           NEW p \in Pipes, Execute(c, p)
    PROVE  Paired(flag'[c], queue'[c], E, F, R)
<1> DEFINE bag == flag[c]  qs == queue[c]
<1>1. /\ Paired(bag, qs, E, F, R) /\ qs[p] # <<>> /\ Head(qs[p]).waits \subseteq DOMAIN bag
      /\ flag'[c] = (bag (-) SetToBag(Head(qs[p]).waits)) (+) SetToBag(Head(qs[p]).sets)
      /\ queue'[c] = [qs EXCEPT ![p] = Tail(@)]
  BY ExecuteChanges
<1> HIDE DEF bag, qs
<1>2. Paired((bag (-) SetToBag(Head(qs[p]).waits)) (+) SetToBag(Head(qs[p]).sets), [qs EXCEPT ![p] = Tail(@)], E, F, R)
  BY <1>1, PairedRun
<1> QED BY <1>1, <1>2

LEMMA FinalizeLegal == ASSUME FewRounds, job \in Jobs, job.kernel = "finalize" PROVE LegalFinalize
<1>1. Legal(job) /\ LegalBlocks
  BY JobLegal
<1>2. /\ job.sharedInputOffset \in Nat /\ job.sharedInputLen \in Nat /\ job.batch \in Nat
      /\ job.sharedInputOffset + job.sharedInputLen <= job.batch
  BY <1>1 DEF Legal
<1>3. AtMostTwoRounds(job)
  BY DEF FewRounds
<1> QED BY <1>1, <1>2, <1>3 DEF LegalFinalize

\* The barrier changes the rings: up to there the events of the logits' two
\* buffers belong to the shared input's, and nothing is under way when it is
\* passed.
FinalizeCore(s, o, bag, qs) ==
    /\ EpilogueFields(o)
    /\ \/ /\ FromStart(s) /\ FromBarrier(Tail(s))
          /\ o.inId = 0 /\ o.outId = 0 /\ \A p \in Pipes : qs[p] = <<>>
          /\ Paired(bag, qs, FinalizeEvents, {}, FillingRings)
       \/ FromBarrier(s) /\ Paired(bag, qs, FinalizeEvents, {}, FillingRings)
       \/ RestGood(s) /\ Paired(bag, qs, FinalizeEvents, {}, AddingRings)

LEMMA FinalizeConstructed ==
    LET o == Finalize!Constructed IN
    EpilogueFields(o) /\ o.inId = 0 /\ o.outId = 0
<1> DEFINE p == Finalize!Prologue!Constructed  e == Finalize!Epilogue!Constructed
           o == [f \in DOMAIN p \cup DOMAIN e |-> IF f \in DOMAIN p THEN p[f] ELSE e[f]]
<1>1. /\ DOMAIN p = {"initialized", "inId", "outId"} /\ p["initialized"] = FALSE /\ p["inId"] = 0 /\ p["outId"] = 0
  BY DEF Finalize!Prologue!Constructed
<1>2. /\ DOMAIN e = {"n", "logitGlobal", "yId", "logitId"} /\ e["yId"] = 0 /\ e["logitId"] = 0
  BY DEF Finalize!Epilogue!Constructed
<1>3. Finalize!Constructed = o
  BY DEF Finalize!Constructed
<1> HIDE DEF p, e
<1>4. /\ o["initialized"] = FALSE /\ o["inId"] = 0 /\ o["outId"] = 0 /\ o["yId"] = 0 /\ o["logitId"] = 0
      /\ "yId" \in DOMAIN o /\ "logitId" \in DOMAIN o /\ o = [f \in DOMAIN o |-> o[f]]
  BY <1>1, <1>2
<1> HIDE DEF o
<1> QED BY <1>3, <1>4 DEF EpilogueFields

LEMMA FinalizeStart ==
    ASSUME LegalBlocks, Finalize!InitFinalize
    PROVE  Cores /\ \A c \in SubBlocks : FinalizeCore(calls[c], obj[c], flag[c], queue[c])
<1>1. Boot(Finalize!CallsOf, Finalize!Constructed, {})
  BY DEF Finalize!InitFinalize, Finalize!Boot, Boot, Finalize!Pipes, Pipes, Finalize!SetToBag, SetToBag
<1>2. /\ Cores
      /\ \A c \in SubBlocks : /\ calls[c] = Finalize!CallsOf /\ obj[c] = Finalize!Constructed
                              /\ flag[c] = SetToBag({}) /\ queue[c] = [p \in Pipes |-> <<>>]
  BY <1>1, BootChanges
<1>3. Paired(SetToBag({}), [p \in Pipes |-> <<>>], FinalizeEvents, {}, FillingRings)
  BY FillingRingsGoAround, PairedAtFirst
<1>4. FromStart(Finalize!CallsOf) /\ FromBarrier(Tail(Finalize!CallsOf))
  BY FinalizeCalls
<1>5. /\ EpilogueFields(Finalize!Constructed) /\ Finalize!Constructed.inId = 0 /\ Finalize!Constructed.outId = 0
  BY FinalizeConstructed
<1>6. \A p \in Pipes : [q \in Pipes |-> <<>>][p] = <<>>
  OBVIOUS
<1> QED BY <1>2, <1>3, <1>4, <1>5, <1>6 DEF FinalizeCore

LEMMA FinalizeStep ==
    ASSUME LegalFinalize, Cores, NEW c \in SubBlocks, FinalizeCore(calls[c], obj[c], flag[c], queue[c]),
           Finalize!NextFinalize(c)
    PROVE  /\ Cores' /\ job' = job /\ \A d \in SubBlocks : d # c => Unchanged(d)
           /\ FinalizeCore(calls'[c], obj'[c], flag'[c], queue'[c])
<1> DEFINE E == FinalizeEvents  F == {}
<1>0. EpilogueFields(obj[c])
  BY DEF FinalizeCore
<1>1. CASE Finalize!Prologue!FillOutput(c)
  <2>1. calls[c] # <<>> /\ Head(calls[c]).op = "FillOutput"
    <3>1. \E f, i : Finalize!Prologue!Call(c, "FillOutput", f, i)
      BY <1>1 DEF Finalize!Prologue!FillOutput
    <3>2. PICK f, i : Call(c, "FillOutput", f, i)
      BY <3>1, SameInPrologue
    <3> QED BY <3>2, CallChanges
  <2>2. /\ FromBarrier(Tail(calls[c])) /\ obj[c].inId = 0 /\ obj[c].outId = 0
        /\ \A p \in Pipes : queue[c][p] = <<>>
        /\ Paired(flag[c], queue[c], E, F, FillingRings)
    <3>1. ~FromBarrier(calls[c])
      BY <2>1 DEF FromBarrier
    <3>2. ~RestGood(calls[c])
      BY <2>1, RestTail
    <3> QED BY <3>1, <3>2 DEF FinalizeCore
  <2>3. PICK fields, instrs : /\ Call(c, "FillOutput", fields, instrs) /\ EpilogueFields(fields)
                              /\ Good(instrs, queue[c], E, FillingRings)
    BY <1>0, <1>1, <2>2, FillOutputIs
  <2>4. Paired(flag'[c], queue'[c], E, F, FillingRings)
    BY <2>2, <2>3, FillingRingsGoAround, CallKeeps
  <2>5. /\ Cores' /\ job' = job /\ \A d \in SubBlocks : d # c => Unchanged(d)
        /\ calls'[c] = Tail(calls[c]) /\ obj'[c] = fields
    BY <2>3, CallChanges
  <2> QED BY <2>2, <2>3, <2>4, <2>5 DEF FinalizeCore
<1>2. CASE Finalize!SyncAll(c)
  <2>1. Call(c, "SyncAll", obj[c], <<>>)
    BY <1>2, SameInFinalize DEF Finalize!SyncAll
  <2>2. /\ Cores' /\ job' = job /\ \A d \in SubBlocks : d # c => Unchanged(d)
        /\ calls'[c] = Tail(calls[c]) /\ obj'[c] = obj[c] /\ calls[c] # <<>> /\ Head(calls[c]).op = "SyncAll"
    BY <2>1, CallChanges
  <2>3. \A p \in Pipes : queue[c][p] = <<>>
    BY <1>2, <2>2, SameInFinalize DEF Finalize!SyncAll, Drained
  <2>4. RestGood(Tail(calls[c])) /\ Paired(flag[c], queue[c], E, F, FillingRings)
    <3>1. ~FromStart(calls[c])
      BY <2>2 DEF FromStart
    <3>2. ~RestGood(calls[c])
      BY <2>2, RestTail
    <3> QED BY <3>1, <3>2 DEF FinalizeCore, FromBarrier
  <2>5. Paired(flag[c], queue[c], E, F, AddingRings)
    <3> DEFINE bag == flag[c]  qs == queue[c]
    <3>1. Paired(bag, qs, E, F, FillingRings) /\ \A p \in Pipes : qs[p] = <<>>
      BY <2>3, <2>4
    <3> HIDE DEF bag, qs
    <3>2. Paired(bag, qs, E, F, AddingRings)
      BY <3>1, AddingRingsGoAround, PairedElsewhere
    <3> QED BY <3>2 DEF bag, qs
  <2>6. Good(<<>>, queue[c], E, AddingRings)
    BY AddingRingsGoAround, GoodNothing
  <2>7. Paired(flag'[c], queue'[c], E, F, AddingRings)
    BY <2>1, <2>5, <2>6, AddingRingsGoAround, CallKeeps
  <2> QED BY <1>0, <2>2, <2>4, <2>7 DEF FinalizeCore
<1>3. ASSUME NEW op, op \notin {"FillOutput", "SyncAll"}, NEW fields, NEW instrs, Call(c, op, fields, instrs),
             EpilogueFields(fields), RestGood(calls[c]) => Good(instrs, queue[c], E, AddingRings)
      PROVE  /\ Cores' /\ job' = job /\ \A d \in SubBlocks : d # c => Unchanged(d)
             /\ FinalizeCore(calls'[c], obj'[c], flag'[c], queue'[c])
  <2>1. /\ Cores' /\ job' = job /\ \A d \in SubBlocks : d # c => Unchanged(d)
        /\ calls'[c] = Tail(calls[c]) /\ obj'[c] = fields /\ calls[c] # <<>> /\ Head(calls[c]).op = op
    BY <1>3, CallChanges
  <2>2. RestGood(calls[c]) /\ Paired(flag[c], queue[c], E, F, AddingRings)
    <3>1. ~FromStart(calls[c]) /\ ~FromBarrier(calls[c])
      BY <1>3, <2>1 DEF FromStart, FromBarrier
    <3> QED BY <3>1 DEF FinalizeCore
  <2>3. RestGood(Tail(calls[c]))
    BY <2>1, <2>2, RestTail
  <2>4. Paired(flag'[c], queue'[c], E, F, AddingRings)
    BY <1>3, <2>2, AddingRingsGoAround, CallKeeps
  <2> QED BY <1>3, <2>1, <2>3, <2>4 DEF FinalizeCore
<1>4. Good(<<>>, queue[c], E, AddingRings)
  BY AddingRingsGoAround, GoodNothing
<1>5. CASE Finalize!Epilogue!UpdateNextProblem(c)
  <2> DEFINE fields == [obj[c] EXCEPT !.n = Head(calls[c]).n]
  <2>1. Call(c, "UpdateNextProblem", fields, <<>>)
    BY <1>5, SameInEpilogue DEF Finalize!Epilogue!UpdateNextProblem
  <2>2. EpilogueFields(fields)
    <3> DEFINE o == obj[c]  x == Head(calls[c]).n
    <3>1. EpilogueFields(o) /\ fields = [o EXCEPT !.n = x]
      BY <1>0
    <3> HIDE DEF o, x, fields
    <3> QED BY <3>1 DEF EpilogueFields
  <2> HIDE DEF fields
  <2> QED BY <1>3, <1>4, <2>1, <2>2
<1>6. CASE Finalize!Epilogue!UpdateGlobalAddr(c)
  <2> DEFINE fields == [obj[c] EXCEPT !.logitGlobal = Head(calls[c]).logit]
  <2>1. Call(c, "UpdateGlobalAddr", fields, <<>>)
    BY <1>6, SameInEpilogue DEF Finalize!Epilogue!UpdateGlobalAddr
  <2>2. EpilogueFields(fields)
    <3> DEFINE o == obj[c]  x == Head(calls[c]).logit
    <3>1. EpilogueFields(o) /\ fields = [o EXCEPT !.logitGlobal = x]
      BY <1>0
    <3> HIDE DEF o, x, fields
    <3> QED BY <3>1 DEF EpilogueFields
  <2> HIDE DEF fields
  <2> QED BY <1>3, <1>4, <2>1, <2>2
<1>7. CASE Finalize!Epilogue!AddRows(c)
  <2>1. calls[c] # <<>> /\ Head(calls[c]).op = "AddRows"
    BY <1>7, SameInEpilogue DEF Finalize!Epilogue!AddRows, Calls
  <2>2. RestGood(calls[c])
    <3>1. ~FromStart(calls[c]) /\ ~FromBarrier(calls[c])
      BY <2>1 DEF FromStart, FromBarrier
    <3> QED BY <3>1 DEF FinalizeCore
  <2>3. Head(calls[c]).m \in Nat
    BY <2>1, <2>2, RestTail
  <2>4. PICK fields, instrs : /\ Call(c, "AddRows", fields, instrs) /\ EpilogueFields(fields)
                              /\ Good(instrs, queue[c], E, AddingRings)
    BY <1>0, <1>7, <2>3, AddRowsIs
  <2> QED BY <1>3, <2>4
<1> QED BY <1>1, <1>2, <1>5, <1>6, <1>7 DEF Finalize!NextFinalize

\* An instruction that runs, whatever its core has still to call.
LEMMA FinalizeRun ==
    ASSUME Cores, NEW c \in SubBlocks, FinalizeCore(calls[c], obj[c], flag[c], queue[c]), NEW p \in Pipes, Execute(c, p)
    PROVE  FinalizeCore(calls'[c], obj'[c], flag'[c], queue'[c])
<1> DEFINE E == FinalizeEvents  F == {}
<1>1. /\ calls'[c] = calls[c] /\ obj'[c] = obj[c] /\ queue[c][p] # <<>>
  BY ExecuteChanges
<1>2. \A R : Paired(flag[c], queue[c], E, F, R) => Paired(flag'[c], queue'[c], E, F, R)
  BY RunKeeps
<1> QED BY <1>1, <1>2 DEF FinalizeCore

-----------------------------------------------------------------------------
(* All kernels.                                                            *)

KernelCore(c) ==
    /\ job.kernel = "dequant" => DequantCore(calls[c], obj[c], flag[c], queue[c])
    /\ job.kernel = "swiglu" => SwigluCore(flag[c], queue[c])
    /\ job.kernel = "finalize" => FinalizeCore(calls[c], obj[c], flag[c], queue[c])

EventsInv == job \in Jobs /\ Cores /\ \A c \in SubBlocks : KernelCore(c)

LEMMA EventsInvAtFirst == ASSUME Init PROVE EventsInv
<1>1. job \in Jobs
  BY DEF Init
<1>2. LegalBlocks
  BY <1>1, JobLegal
<1>3. CASE job.kernel = "dequant" /\ Dequant!InitDequant
  <2>1. Cores /\ \A c \in SubBlocks : DequantCore(calls[c], obj[c], flag[c], queue[c])
    BY <1>2, <1>3, DequantStart
  <2> QED BY <1>1, <1>3, <2>1 DEF EventsInv, KernelCore
<1>4. CASE job.kernel = "swiglu" /\ Swiglu!InitSwiglu
  <2>1. Cores /\ \A c \in SubBlocks : SwigluCore(flag[c], queue[c])
    BY <1>4, SwigluStart
  <2> QED BY <1>1, <1>4, <2>1 DEF EventsInv, KernelCore
<1>5. CASE job.kernel = "finalize" /\ Finalize!InitFinalize
  <2>2. Cores /\ \A c \in SubBlocks : FinalizeCore(calls[c], obj[c], flag[c], queue[c])
    BY <1>2, <1>5, FinalizeStart
  <2> QED BY <1>1, <1>5, <2>2 DEF EventsInv, KernelCore
<1> QED BY <1>3, <1>4, <1>5 DEF Init

\* A core nothing happened to.
LEMMA KeepsCore ==
    ASSUME NEW c \in SubBlocks, KernelCore(c), job' = job, Unchanged(c)
    PROVE  KernelCore(c)'
BY DEF KernelCore, Unchanged

LEMMA EventsInvStep == ASSUME FewRounds, EventsInv, [Next]_vars PROVE EventsInv'
<1>1. job \in Jobs /\ Cores /\ \A c \in SubBlocks : KernelCore(c)
  BY DEF EventsInv
<1>2. ASSUME job' = job, Cores', NEW c \in SubBlocks, KernelCore(c)', \A d \in SubBlocks : d # c => Unchanged(d)
      PROVE  EventsInv'
  <2>1. ASSUME NEW d \in SubBlocks PROVE KernelCore(d)'
    BY <1>1, <1>2, KeepsCore
  <2>2. job' \in Jobs
    BY <1>1, <1>2
  <2>3. (\A d \in SubBlocks : KernelCore(d))'
    BY <2>1
  <2> QED BY <1>2, <2>2, <2>3 DEF EventsInv
<1>3. CASE UNCHANGED vars
  <2>1. job' = job /\ calls' = calls /\ obj' = obj /\ queue' = queue /\ flag' = flag
    BY <1>3 DEF vars
  <2> QED BY <1>1, <2>1 DEF EventsInv, Cores, KernelCore
<1>4. ASSUME NEW c \in SubBlocks, job.kernel = "dequant", Dequant!NextDequant(c) PROVE EventsInv'
  <2>1. DequantCore(calls[c], obj[c], flag[c], queue[c])
    BY <1>1, <1>4 DEF KernelCore
  <2>2. /\ Cores' /\ job' = job /\ \A d \in SubBlocks : d # c => Unchanged(d)
        /\ DequantCore(calls'[c], obj'[c], flag'[c], queue'[c])
    BY <1>1, <1>4, <2>1, DequantStep
  <2>3. KernelCore(c)'
    BY <1>4, <2>2 DEF KernelCore
  <2> QED BY <1>2, <2>2, <2>3
<1>5. ASSUME NEW c \in SubBlocks, job.kernel = "swiglu", Swiglu!NextSwiglu(c) PROVE EventsInv'
  <2>1. SwigluCore(flag[c], queue[c])
    BY <1>1, <1>5 DEF KernelCore
  <2>2. /\ Cores' /\ job' = job /\ \A d \in SubBlocks : d # c => Unchanged(d)
        /\ SwigluCore(flag'[c], queue'[c])
    BY <1>1, <1>5, <2>1, SwigluStep
  <2>3. KernelCore(c)'
    BY <1>5, <2>2 DEF KernelCore
  <2> QED BY <1>2, <2>2, <2>3
<1>6. ASSUME NEW c \in SubBlocks, job.kernel = "finalize", Finalize!NextFinalize(c) PROVE EventsInv'
  <2>1. FinalizeCore(calls[c], obj[c], flag[c], queue[c]) /\ LegalFinalize
    BY <1>1, <1>6, FinalizeLegal DEF KernelCore
  <2>2. /\ Cores' /\ job' = job /\ \A d \in SubBlocks : d # c => Unchanged(d)
        /\ FinalizeCore(calls'[c], obj'[c], flag'[c], queue'[c])
    BY <1>1, <1>6, <2>1, FinalizeStep
  <2>3. KernelCore(c)'
    BY <1>6, <2>2 DEF KernelCore
  <2> QED BY <1>2, <2>2, <2>3
<1>7. ASSUME NEW c \in SubBlocks, NEW p \in Pipes, Execute(c, p) PROVE EventsInv'
  <2>1. /\ Cores' /\ job' = job /\ \A d \in SubBlocks : d # c => Unchanged(d)
        /\ calls'[c] = calls[c] /\ obj'[c] = obj[c]
    BY <1>1, <1>7, ExecuteChanges
  <2>2. DequantCore(calls[c], obj[c], flag[c], queue[c]) => DequantCore(calls'[c], obj'[c], flag'[c], queue'[c])
    <3> HAVE DequantCore(calls[c], obj[c], flag[c], queue[c])
    <3>1. Paired(flag'[c], queue'[c], DequantEvents, DequantFree, DequantRings)
      BY <1>1, <1>7, RunKeeps DEF DequantCore
    <3> QED BY <2>1, <3>1 DEF DequantCore
  <2>3. SwigluCore(flag[c], queue[c]) => SwigluCore(flag'[c], queue'[c])
    BY <1>1, <1>7, RunKeeps DEF SwigluCore
  <2>4. FinalizeCore(calls[c], obj[c], flag[c], queue[c]) => FinalizeCore(calls'[c], obj'[c], flag'[c], queue'[c])
    BY <1>1, <1>7, FinalizeRun
  <2>5. KernelCore(c)'
    BY <1>1, <2>1, <2>2, <2>3, <2>4 DEF KernelCore
  <2> QED BY <1>2, <2>1, <2>5
<1>8. CASE Next
  BY <1>3, <1>4, <1>5, <1>6, <1>7, <1>8 DEF Next, Stop
<1> QED BY <1>3, <1>8

\* The events of a core, and what they are when everything is done.
LEMMA PairedEvents ==
    ASSUME NEW bag, NEW qs, NEW E, NEW F, NEW R, RingsOf(R, E, F), Paired(bag, qs, E, F, R)
    PROVE  /\ \A e \in BagToSet(bag) : bag[e] = 1
           /\ (\A p \in Pipes : qs[p] = <<>>) => BagToSet(bag) = F
<1>1. BagToSet(bag) = DOMAIN bag
  BY DEF BagToSet
<1>2. ASSUME \A p \in Pipes : qs[p] = <<>> PROVE DOMAIN bag = F
  BY <1>2, PairedDone DEF Paired, RingsOf
<1> QED BY <1>1, <1>2, PairedOnce

LEMMA EventsAreInPairs == ASSUME EventsInv PROVE EventsInPairs
<1>1. job \in Jobs /\ Cores /\ \A c \in SubBlocks : KernelCore(c)
  BY DEF EventsInv
<1>2. job.kernel \in {"dequant", "swiglu", "finalize"}
  BY <1>1, PipesAssumption DEF Legal
<1> DEFINE Free == CASE job.kernel = "dequant" -> Dequant!FreeEvents
                     [] job.kernel = "swiglu" -> {}
                     [] job.kernel = "finalize" -> {}
<1>3. ASSUME NEW c \in SubBlocks
      PROVE  (\A e \in BagToSet(flag[c]) : flag[c][e] = 1) /\ (Finished => BagToSet(flag[c]) = Free)
  <2> DEFINE bag == flag[c]  qs == queue[c]
  <2>0. Finished => \A p \in Pipes : qs[p] = <<>>
    BY DEF Finished, Drained
  <2>1. ASSUME NEW E, NEW F, NEW R, RingsOf(R, E, F), Paired(flag[c], queue[c], E, F, R)
        PROVE  (\A e \in BagToSet(flag[c]) : flag[c][e] = 1) /\ (Finished => BagToSet(flag[c]) = F)
    <3>1. Paired(bag, qs, E, F, R)
      BY <2>1
    <3> HIDE DEF bag, qs
    <3>2. (\A e \in BagToSet(bag) : bag[e] = 1) /\ ((\A p \in Pipes : qs[p] = <<>>) => BagToSet(bag) = F)
      BY <2>1, <3>1, PairedEvents
    <3> QED BY <2>0, <3>2 DEF bag
  <2>2. CASE job.kernel = "dequant"
    <3>1. Free = DequantFree
      BY <2>2, DequantFreeIs
    <3>2. Paired(flag[c], queue[c], DequantEvents, DequantFree, DequantRings)
      BY <1>1, <2>2 DEF KernelCore, DequantCore
    <3> HIDE DEF Free
    <3> QED BY <2>1, <3>1, <3>2, DequantRingsGoAround
  <2>3. CASE job.kernel = "swiglu"
    <3>1. Free = {}
      BY <2>3
    <3>2. Paired(flag[c], queue[c], SwigluEvents, {}, SwigluRings)
      BY <1>1, <2>3 DEF KernelCore, SwigluCore
    <3> HIDE DEF Free
    <3> QED BY <2>1, <3>1, <3>2, SwigluRingsGoAround
  <2>4. CASE job.kernel = "finalize"
    <3>1. Free = {}
      BY <2>4
    <3>2. \/ Paired(flag[c], queue[c], FinalizeEvents, {}, FillingRings)
          \/ Paired(flag[c], queue[c], FinalizeEvents, {}, AddingRings)
      BY <1>1, <2>4 DEF KernelCore, FinalizeCore
    <3> HIDE DEF Free
    <3> QED BY <2>1, <3>1, <3>2, FillingRingsGoAround, AddingRingsGoAround
  <2> QED BY <1>2, <2>2, <2>3, <2>4
<1> QED BY <1>3 DEF EventsInPairs

\* Whatever the jobs, the number of cores and the sizes, as long as no core has
\* more than two rounds of the shared input: no event is set again before it was
\* waited for, and at the end the events are as at first.
THEOREM EventsAlwaysInPairs == ASSUME FewRounds PROVE Spec => []EventsInPairs
<1>1. Init => EventsInv
  BY EventsInvAtFirst
<1>2. EventsInv /\ [Next]_vars => EventsInv'
  BY EventsInvStep
<1>3. EventsInv => EventsInPairs
  BY EventsAreInPairs
<1> QED BY <1>1, <1>2, <1>3, PTL DEF Spec
=============================================================================
