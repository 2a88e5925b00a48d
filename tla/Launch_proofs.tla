---------------------------- MODULE Launch_proofs ----------------------------
(***************************************************************************)
(* Proofs about a launch of the mixed matmul: the layout of L1, the        *)
(* schedule of the cores and the choice of the tiles, for every size.      *)
(***************************************************************************)
EXTENDS L1Layout, BlockScheduler, TileShapes, NumberLemmas

-----------------------------------------------------------------------------
(* The layout of L1: the vector cores and the cube core place the buffers  *)
(* at the same addresses, and no buffer overlaps another or leaves its     *)
(* half.  The inductive invariant gives the closed form of what the two    *)
(* cursors accumulate.                                                     *)

Halves == {0, 1}

\* Where the space of a kind begins in a half: behind the kinds laid out before it.
Offset(s, kind, h) ==
    (IF kind = "B" THEN 0 ELSE Need(s, "B", h))
    + (IF kind \in {"B", "BIAS"} THEN 0 ELSE Need(s, "BIAS", h))
    + (IF kind \in {"B", "BIAS", "A"} THEN 0 ELSE Need(s, "A", h))
    + (IF kind = "SCALEA" THEN Need(s, "SCALEB", h) ELSE 0)
Place(s, kind, b) == HalfOf(b) * Half + Offset(s, kind, HalfOf(b)) + Slot(b, s.size[kind])

\* The kinds are laid out in this order; a cursor stands behind the last one laid out.
Stage(d, kind) ==
    \/ d = {} /\ kind = "B"
    \/ d = {"B"} /\ kind = "BIAS"
    \/ d = {"B", "BIAS"} /\ kind = "A"
    \/ d = {"B", "BIAS", "A"} /\ kind = "SCALEB"
    \/ d = {"B", "BIAS", "A", "SCALEB"} /\ kind = "SCALEA"
InOrder == (\E kind \in Kinds : Stage(done, kind)) \/ done = Kinds
CursorsBehind ==
    \A kind \in Kinds : Stage(done, kind) =>
        part = [h \in Halves |-> h * Half + Offset(shape, kind, h)]
Placed ==
    \A kind \in done : \A b \in Buffers :
        b < Count(shape, kind) => at[kind][b] = Place(shape, kind, b)
AtShape == at \in [Kinds -> [Buffers -> Int]]
IInv == shape \in Shapes /\ InOrder /\ CursorsBehind /\ Placed /\ AtShape

-----------------------------------------------------------------------------
(* Arithmetic of one shape.                                                *)

\* Every kind has 0, 1, 2 or 4 buffers of a natural size.
LEMMA CountSize ==
    ASSUME NEW s \in Shapes, NEW k \in Kinds
    PROVE  /\ Count(s, k) \in {0, 1, 2, 4}
           /\ s.size[k] \in Nat
           /\ s.bufNum \in {1, 2, 4}
           /\ s.hasBias \in BOOLEAN
<1>1. s \in [bufNum : {1, 2, 4}, hasBias : BOOLEAN, size : [Kinds -> Nat]]
  BY LayoutAssumption
<1> QED BY <1>1 DEF Count, Kinds

\* A half has room for the buffers of a kind that lie in it.
LEMMA SlotInNeed ==
    ASSUME NEW s \in Shapes, NEW k \in Kinds, NEW b \in Buffers, b < Count(s, k)
    PROVE  /\ Slot(b, s.size[k]) \in Nat
           /\ Slot(b, s.size[k]) + s.size[k] <= Need(s, k, HalfOf(b))
<1> DEFINE n == Count(s, k)
           z == s.size[k]
<1>1. n \in {0, 1, 2, 4} /\ z \in Nat
  BY CountSize
<1>2. b \in {0, 1, 2, 3} /\ b < n
  BY DEF Buffers
<1> HIDE DEF n, z
<1>3. Slot(b, z) \in Nat /\ Slot(b, z) + z <= Space(n, HalfOf(b), z)
  BY <1>1, <1>2 DEF Slot, Space, HalfOf
<1> QED BY <1>3 DEF Need, n, z

LEMMA NeedNat ==
    ASSUME NEW s \in Shapes, NEW k \in Kinds, NEW h \in Halves
    PROVE  Need(s, k, h) \in Nat
<1> DEFINE n == Count(s, k)
           z == s.size[k]
<1>1. n \in {0, 1, 2, 4} /\ z \in Nat
  BY CountSize
<1> HIDE DEF n, z
<1>2. Space(n, h, z) \in Nat
  BY <1>1 DEF Space, Halves
<1> QED BY <1>2 DEF Need, n, z

\* Two buffers of one kind in the same half are one after the other.
LEMMA SlotsApart ==
    ASSUME NEW s \in Shapes, NEW k \in Kinds, NEW b \in Buffers, NEW c \in Buffers,
           b # c, HalfOf(b) = HalfOf(c)
    PROVE  \/ Slot(b, s.size[k]) + s.size[k] <= Slot(c, s.size[k])
           \/ Slot(c, s.size[k]) + s.size[k] <= Slot(b, s.size[k])
<1> DEFINE z == s.size[k]
<1>1. z \in Nat
  BY CountSize
<1>2. b \in {0, 1, 2, 3} /\ c \in {0, 1, 2, 3}
  BY DEF Buffers
<1> HIDE DEF z
<1>3. Slot(b, z) + z <= Slot(c, z) \/ Slot(c, z) + z <= Slot(b, z)
  BY <1>1, <1>2 DEF Slot, HalfOf
<1> QED BY <1>3 DEF z

\* The spaces of the kinds follow one another and end within the half.
LEMMA OffsetsInOrder ==
    ASSUME NEW s \in Shapes, NEW h \in Halves, NEW k \in Kinds
    PROVE  /\ Offset(s, k, h) \in Nat
           /\ Offset(s, k, h) + Need(s, k, h) <= Half
           /\ \A l \in Kinds : k # l =>
                \/ Offset(s, k, h) + Need(s, k, h) <= Offset(s, l, h)
                \/ Offset(s, l, h) + Need(s, l, h) <= Offset(s, k, h)
<1> DEFINE w == Need(s, "B", h)
           i == Need(s, "BIAS", h)
           a == Need(s, "A", h)
           sb == Need(s, "SCALEB", h)
           sa == Need(s, "SCALEA", h)
<1>1. w \in Nat /\ i \in Nat /\ a \in Nat /\ sb \in Nat /\ sa \in Nat
  BY NeedNat DEF Kinds
<1>2. w + i + a + sb + sa <= Half
  BY LayoutAssumption DEF Fits, Halves
<1>3. Half \in Nat
  BY LayoutAssumption
<1>4. /\ Offset(s, "B", h) = 0
      /\ Offset(s, "BIAS", h) = w
      /\ Offset(s, "A", h) = w + i
      /\ Offset(s, "SCALEB", h) = w + i + a
      /\ Offset(s, "SCALEA", h) = w + i + a + sb
  BY <1>1 DEF Offset
<1>5. /\ Need(s, "B", h) = w
      /\ Need(s, "BIAS", h) = i
      /\ Need(s, "A", h) = a
      /\ Need(s, "SCALEB", h) = sb
      /\ Need(s, "SCALEA", h) = sa
  OBVIOUS
<1> HIDE DEF w, i, a, sb, sa
<1> QED BY <1>1, <1>2, <1>3, <1>4, <1>5 DEF Kinds

\* Begin and end of a buffer, in its half.
LEMMA PlaceInHalf ==
    ASSUME NEW s \in Shapes, NEW k \in Kinds, NEW b \in Buffers, b < Count(s, k)
    PROVE  /\ Place(s, k, b) \in Int
           /\ HalfOf(b) * Half <= Place(s, k, b)
           /\ Place(s, k, b) + s.size[k] <= (HalfOf(b) + 1) * Half
<1> DEFINE h == HalfOf(b)
           o == Offset(s, k, h)
           t == Slot(b, s.size[k])
           z == s.size[k]
           d == Need(s, k, h)
<1>1. h \in Halves
  BY DEF HalfOf, Halves
<1>2. o \in Nat /\ o + d <= Half /\ d \in Nat
  BY <1>1, OffsetsInOrder, NeedNat
<1>3. t \in Nat /\ t + z <= d
  BY SlotInNeed
<1>4. z \in Nat /\ Half \in Nat
  BY CountSize, LayoutAssumption
<1>5. Place(s, k, b) = h * Half + o + t
  BY DEF Place
<1> HIDE DEF h, o, t, z, d
<1>6. /\ h * Half + o + t \in Int
      /\ h * Half <= h * Half + o + t
      /\ h * Half + o + t + z <= (h + 1) * Half
  <2>1. CASE h = 0
    BY <2>1, <1>2, <1>3, <1>4
  <2>2. CASE h = 1
    BY <2>2, <1>2, <1>3, <1>4
  <2> QED BY <2>1, <2>2, <1>1 DEF Halves
<1> QED BY <1>5, <1>6 DEF h, z

\* Two different buffers never overlap.
LEMMA PlacesApart ==
    ASSUME NEW s \in Shapes, NEW k \in Kinds, NEW l \in Kinds,
           NEW b \in Buffers, NEW c \in Buffers,
           b < Count(s, k), c < Count(s, l), <<k, b>> # <<l, c>>
    PROVE  \/ Place(s, k, b) + s.size[k] <= Place(s, l, c)
           \/ Place(s, l, c) + s.size[l] <= Place(s, k, b)
<1> DEFINE g == HalfOf(b)
           h == HalfOf(c)
           y == s.size[k]
           z == s.size[l]
           p == Place(s, k, b)
           q == Place(s, l, c)
<1>1. g \in Halves /\ h \in Halves
  BY DEF HalfOf, Halves
<1>2. y \in Nat /\ z \in Nat /\ Half \in Nat
  BY CountSize, LayoutAssumption
<1>3. CASE g # h
  <2>1. /\ p \in Int /\ g * Half <= p /\ p + y <= (g + 1) * Half
        /\ q \in Int /\ h * Half <= q /\ q + z <= (h + 1) * Half
    BY PlaceInHalf
  <2> HIDE DEF g, h, y, z, p, q
  <2>2. p + y <= q \/ q + z <= p
    <3>1. CASE g = 0 /\ h = 1
      BY <3>1, <2>1, <1>2
    <3>2. CASE g = 1 /\ h = 0
      BY <3>2, <2>1, <1>2
    <3> QED BY <3>1, <3>2, <1>1, <1>3 DEF Halves
  <2> QED BY <2>2 DEF p, q, y, z
<1>4. CASE g = h
  <2> DEFINE base == h * Half
             o == Offset(s, k, h)
             u == Offset(s, l, h)
             t == Slot(b, s.size[k])
             v == Slot(c, s.size[l])
             d == Need(s, k, h)
             e == Need(s, l, h)
  <2>1. p = base + o + t /\ q = base + u + v
    BY <1>4 DEF Place
  <2>2. base \in Int
    BY <1>1, <1>2 DEF Halves
  <2>3. t \in Nat /\ t + y <= d /\ v \in Nat /\ v + z <= e
    BY <1>4, SlotInNeed
  <2>4. o \in Nat /\ u \in Nat /\ d \in Nat /\ e \in Nat
    BY <1>1, OffsetsInOrder, NeedNat
  <2>5. CASE k # l
    <3>1. o + d <= u \/ u + e <= o
      BY <2>5, <1>1, OffsetsInOrder
    <3> HIDE DEF g, h, y, z, p, q, base, o, u, t, v, d, e
    <3>2. p + y <= q \/ q + z <= p
      BY <3>1, <2>1, <2>2, <2>3, <2>4, <1>2
    <3> QED BY <3>2 DEF p, q, y, z
  <2>6. CASE k = l
    <3>1. b # c /\ y = z /\ o = u
      BY <2>6
    <3>2. t + y <= v \/ v + y <= t
      BY <3>1, <2>6, <1>4, SlotsApart
    <3> HIDE DEF g, h, y, z, p, q, base, o, u, t, v, d, e
    <3>3. p + y <= q \/ q + z <= p
      BY <3>1, <3>2, <2>1, <2>2, <2>3, <2>4, <1>2
    <3> QED BY <3>3 DEF p, q, y, z
  <2> QED BY <2>5, <2>6
<1> QED BY <1>3, <1>4

-----------------------------------------------------------------------------
(* The invariant.                                                          *)

\* A cursor that has passed a kind stands where the next kind begins.
LEMMA NextOffset ==
    ASSUME NEW s \in Shapes, NEW h \in Halves, NEW k \in Kinds, NEW l \in Kinds,
           NEW d, Stage(d, k), Stage(d \cup {k}, l)
    PROVE  Offset(s, l, h) = Offset(s, k, h) + Need(s, k, h)
<1>1. /\ Need(s, "B", h) \in Nat /\ Need(s, "BIAS", h) \in Nat
      /\ Need(s, "A", h) \in Nat /\ Need(s, "SCALEB", h) \in Nat
  BY NeedNat DEF Kinds
<1>2. \/ k = "B" /\ l = "BIAS"
      \/ k = "BIAS" /\ l = "A"
      \/ k = "A" /\ l = "SCALEB"
      \/ k = "SCALEB" /\ l = "SCALEA"
  BY DEF Stage
<1> QED BY <1>1, <1>2 DEF Offset

\* Each stage leads to the next, or to the end.
LEMMA StageMoves ==
    ASSUME NEW k \in Kinds, NEW d, Stage(d, k)
    PROVE  /\ k \notin d
           /\ (\E l \in Kinds : Stage(d \cup {k}, l)) \/ d \cup {k} = Kinds
  BY DEF Stage, Kinds

LEMMA InitInv == Init => IInv
<1> SUFFICES ASSUME Init PROVE IInv
  OBVIOUS
<1>1. shape \in Shapes /\ InOrder /\ Placed
  BY DEF Init, InOrder, Stage, Kinds, Placed
<1>2. AtShape
  BY DEF Init, AtShape, NotYet
<1>3. CursorsBehind
  <2> SUFFICES ASSUME NEW kind \in Kinds, Stage(done, kind)
               PROVE part = [h \in Halves |-> h * Half + Offset(shape, kind, h)]
    BY DEF CursorsBehind
  <2>1. kind = "B"
    BY DEF Init, Stage
  <2>2. \A h \in Halves : h * Half = h * Half + Offset(shape, kind, h)
    BY <2>1, LayoutAssumption DEF Offset, Halves
  <2> QED BY <2>2 DEF Init, Halves
<1> QED BY <1>1, <1>2, <1>3 DEF IInv

\* Laying out one kind preserves the invariant.
LEMMA LayOutInv ==
    ASSUME IInv, NEW kind \in Kinds, NEW before, Stage(before, kind), LayOut(kind, before)
    PROVE  IInv'
<1>1. /\ done = before /\ done' = done \cup {kind}
      /\ shape' = shape /\ shape \in Shapes
  BY DEF LayOut, IInv
<1>2. part = [h \in Halves |-> h * Half + Offset(shape, kind, h)]
  BY <1>1 DEF IInv, CursorsBehind
<1>3. InOrder'
  BY <1>1, StageMoves DEF InOrder
<1>4. CursorsBehind'
  <2> SUFFICES ASSUME NEW l \in Kinds, Stage(done', l)
               PROVE part' = [h \in Halves |-> h * Half + Offset(shape, l, h)]
    BY <1>1 DEF CursorsBehind
  <2>1. \A h \in Halves : Offset(shape, l, h) = Offset(shape, kind, h) + Need(shape, kind, h)
    BY <1>1, NextOffset
  <2>2. \A h \in Halves : /\ h * Half \in Int
                          /\ Offset(shape, kind, h) \in Nat
                          /\ Need(shape, kind, h) \in Nat
    <3>1. \A h \in Halves : h * Half \in Int
      BY LayoutAssumption DEF Halves
    <3> QED BY <3>1, <1>1, OffsetsInOrder, NeedNat
  <2>3. part' = [h \in Halves |-> part[h] + Need(shape, kind, h)]
    BY DEF LayOut, Halves
  <2>4. \A h \in Halves : part[h] + Need(shape, kind, h) = h * Half + Offset(shape, l, h)
    <3> TAKE h \in Halves
    <3> DEFINE x == h * Half
               o == Offset(shape, kind, h)
               n == Need(shape, kind, h)
    <3>1. part[h] = x + o /\ Offset(shape, l, h) = o + n
      BY <1>2, <2>1
    <3>2. x \in Int /\ o \in Nat /\ n \in Nat
      BY <2>2
    <3> HIDE DEF x, o, n
    <3>3. part[h] + n = x + Offset(shape, l, h)
      BY <3>1, <3>2
    <3> QED BY <3>3 DEF x, n
  <2> QED BY <2>3, <2>4
<1> DEFINE row == [b \in Buffers |-> IF b < Count(shape, kind)
                     THEN part[HalfOf(b)] + Slot(b, shape.size[kind]) ELSE NotYet]
<1>5. at' = [at EXCEPT ![kind] = row] /\ at \in [Kinds -> [Buffers -> Int]]
  BY DEF LayOut, IInv, AtShape
<1>6. \A b \in Buffers : b < Count(shape, kind) => row[b] = Place(shape, kind, b)
  <2> SUFFICES ASSUME NEW b \in Buffers, b < Count(shape, kind)
               PROVE row[b] = Place(shape, kind, b)
    OBVIOUS
  <2>1. HalfOf(b) \in Halves
    BY DEF HalfOf, Halves
  <2>2. part[HalfOf(b)] = HalfOf(b) * Half + Offset(shape, kind, HalfOf(b))
    BY <1>2, <2>1
  <2> QED BY <2>2 DEF Place
<1>7. row \in [Buffers -> Int]
  <2> SUFFICES ASSUME NEW b \in Buffers PROVE row[b] \in Int
    OBVIOUS
  <2>1. CASE b < Count(shape, kind)
    BY <2>1, <1>1, <1>6, PlaceInHalf
  <2>2. CASE ~(b < Count(shape, kind))
    BY <2>2 DEF NotYet
  <2> QED BY <2>1, <2>2
<1> HIDE DEF row
<1>8. AtShape'
  BY <1>5, <1>7 DEF AtShape
<1>9. Placed'
  <2> SUFFICES ASSUME NEW k \in done', NEW b \in Buffers, b < Count(shape, k)
               PROVE at'[k][b] = Place(shape, k, b)
    BY <1>1 DEF Placed
  <2>1. CASE k = kind
    <3>1. at'[k] = row
      BY <2>1, <1>5
    <3> QED BY <3>1, <2>1, <1>6
  <2>2. CASE k # kind
    <3>1. k \in done
      BY <2>2, <1>1
    <3>2. k \in Kinds
      BY <3>1, <1>1 DEF Stage, Kinds
    <3>3. at'[k] = at[k]
      BY <2>2, <3>2, <1>5
    <3> QED BY <3>1, <3>3 DEF IInv, Placed
  <2> QED BY <2>1, <2>2
<1> QED BY <1>1, <1>3, <1>4, <1>8, <1>9 DEF IInv

LEMMA NextInv == IInv /\ [Next]_vars => IInv'
<1> SUFFICES ASSUME IInv, [Next]_vars PROVE IInv'
  OBVIOUS
<1>1. CASE LayOutB
  BY <1>1, LayOutInv DEF LayOutB, Stage, Kinds
<1>2. CASE LayOutBias
  BY <1>2, LayOutInv DEF LayOutBias, Stage, Kinds
<1>3. CASE LayOutA
  BY <1>3, LayOutInv DEF LayOutA, Stage, Kinds
<1>4. CASE LayOutScaleB
  BY <1>4, LayOutInv DEF LayOutScaleB, Stage, Kinds
<1>5. CASE LayOutScaleA
  BY <1>5, LayOutInv DEF LayOutScaleA, Stage, Kinds
<1>6. CASE UNCHANGED vars
  BY <1>6 DEF vars, IInv, InOrder, CursorsBehind, Placed, AtShape
<1> QED BY <1>1, <1>2, <1>3, <1>4, <1>5, <1>6 DEF Next

LEMMA InvHolds == Spec => []IInv
  BY InitInv, NextInv, PTL DEF Spec

-----------------------------------------------------------------------------
LEMMA DoneAreKinds == IInv => done \subseteq Kinds
  BY DEF IInv, InOrder, Stage, Kinds

\* No two buffers of L1 overlap and none leaves its half (InitBuf), for every size of L1
\* and every shape that fits.
THEOREM LayoutIsDisjoint == Spec => []BuffersDisjoint
<1>1. IInv => BuffersDisjoint
  <2> SUFFICES ASSUME IInv PROVE BuffersDisjoint
    OBVIOUS
  <2>1. \A k \in Kinds, b \in Buffers : LaidOut(k, b) =>
            shape \in Shapes /\ b < Count(shape, k) /\ at[k][b] = Place(shape, k, b)
    BY DEF IInv, Placed, LaidOut
  <2>2. InsideHalf
    BY <2>1, PlaceInHalf DEF InsideHalf, Begin, End
  <2>3. NoOverlap
    BY <2>1, PlacesApart DEF NoOverlap, Begin, End
  <2> QED BY <2>2, <2>3 DEF BuffersDisjoint
<1> QED BY <1>1, InvHolds, PTL

\* The vector cores write the weights (ProcessL1NK4Buffer, ProcessL1NK) and the bias
\* (CopyBiasVecOut2L1) exactly where the cube core laid their buffers out (InitBuf), for
\* every size of L1 and every shape that fits.
THEOREM CoresAgreeOnLayout == Spec => []CoresAgree
<1>1. IInv => CoresAgree
  <2> SUFFICES ASSUME IInv, NEW b \in Buffers
               PROVE /\ LaidOut("B", b) => Begin("B", b) = AivWeight(shape, b)
                     /\ LaidOut("BIAS", b) => Begin("BIAS", b) = AivBias(shape, b)
    BY DEF CoresAgree
  <2> DEFINE w == shape.size["B"]
             i == shape.size["BIAS"]
             a == shape.size["A"]
             n == shape.bufNum
             h == HalfOf(b)
  <2>1. /\ shape \in Shapes /\ Half \in Nat
        /\ w \in Nat /\ i \in Nat /\ a \in Nat /\ n \in {1, 2, 4}
        /\ shape.hasBias \in BOOLEAN
    BY CountSize, LayoutAssumption DEF IInv, Kinds
  <2>2. Count(shape, "B") = n /\ Count(shape, "A") = n
    BY DEF Count
  <2>3. h \in Halves /\ b \in {0, 1, 2, 3}
    BY DEF HalfOf, Halves, Buffers
  <2>4. ASSUME LaidOut("B", b) PROVE Begin("B", b) = AivWeight(shape, b)
    <3>1. b < n /\ Begin("B", b) = h * Half + 0 + Slot(b, w)
      BY <2>2, <2>4 DEF LaidOut, Begin, IInv, Placed, Place, Offset
    <3>2. CASE n = 4
      <4>1. Larger(Half, 2 * w + a) = Half
        <5>1. Offset(shape, "A", 0) + Need(shape, "A", 0) <= Half
          BY <2>1, OffsetsInOrder DEF Halves, Kinds
        <5>2. Need(shape, "A", 0) = 2 * a /\ Need(shape, "B", 0) = 2 * w
          BY <2>2, <3>2 DEF Need, Space
        <5>3. Need(shape, "BIAS", 0) \in Nat
          BY <2>1, NeedNat DEF Halves, Kinds
        <5>4. Offset(shape, "A", 0) = Need(shape, "B", 0) + Need(shape, "BIAS", 0)
          BY <5>2, <5>3, <2>1 DEF Offset
        <5> HIDE DEF w, a
        <5> QED BY <5>1, <5>2, <5>3, <5>4, <2>1 DEF Larger
      <4>2. AivWeight(shape, b) = h * Half + Slot(b, w)
        BY <4>1, <3>2 DEF AivWeight
      <4> HIDE DEF w, h
      <4>3. h * Half \in Int
        BY <2>1, <2>3 DEF Halves
      <4> QED BY <3>1, <4>2, <4>3
    <3>3. CASE n # 4
      <4>1. Slot(b, w) = 0
        BY <3>1, <3>3, <2>1, <2>3 DEF Slot
      <4>2. AivWeight(shape, b) = h * Half
        BY <3>3 DEF AivWeight
      <4> HIDE DEF w, h
      <4>3. h * Half \in Int
        BY <2>1, <2>3 DEF Halves
      <4> QED BY <3>1, <4>1, <4>2, <4>3
    <3> QED BY <3>2, <3>3
  <2>5. ASSUME LaidOut("BIAS", b) PROVE Begin("BIAS", b) = AivBias(shape, b)
    <3>1. /\ b < Count(shape, "BIAS")
          /\ Begin("BIAS", b) = h * Half + Need(shape, "B", h) + Slot(b, i)
      <4>1. b < Count(shape, "BIAS") /\ Begin("BIAS", b) = Place(shape, "BIAS", b)
        BY <2>5 DEF LaidOut, Begin, IInv, Placed
      <4>2. Need(shape, "B", h) \in Nat
        BY <2>1, <2>3, NeedNat DEF Kinds
      <4>3. Offset(shape, "BIAS", h) = Need(shape, "B", h)
        BY <4>2 DEF Offset
      <4> QED BY <4>1, <4>3 DEF Place
    <3>2. b < n
      BY <3>1, <2>1, <2>3 DEF Count
    <3>3. Need(shape, "B", h) = IF n = 4 THEN 2 * w ELSE w
      <4> HIDE DEF w, n
      <4>1. Need(shape, "B", h) = Space(n, h, w)
        BY <2>2 DEF Need, w
      <4>2. n > h
        BY <3>2, <2>1, <2>3 DEF HalfOf, h
      <4> QED BY <4>1, <4>2 DEF Space
    <3> QED BY <3>1, <3>3 DEF AivBias
  <2> QED BY <2>4, <2>5
<1> QED BY <1>1, InvHolds, PTL

-----------------------------------------------------------------------------
(* The schedule of the cube cores, for every result, tile, grid of cores   *)
(* and order.  Each dimension is first treated by itself: a row lies in    *)
(* the share of one core and in one block of that share.  The two          *)
(* dimensions are then put together through the mixed-radix codes of a     *)
(* core's index and of a task's.                                           *)

LEMMA CeilDivBounds ==
    ASSUME NEW a \in Positive, NEW b \in Positive
    PROVE  /\ CeilDiv(a, b) \in Positive
           /\ a <= CeilDiv(a, b) * b
           /\ (CeilDiv(a, b) - 1) * b < a
<1>. DEFINE q == (a + b - 1) \div b
<1>1. q \in Nat /\ (a + b - 1) % b \in 0 .. b - 1 /\ a + b - 1 = b * q + ((a + b - 1) % b)
  <2>1. a + b - 1 \in Nat
    BY DEF Positive
  <2>. QED  BY <2>1, DivMod
<1>2. b * q = q * b /\ (q - 1) * b = q * b - b
  BY <1>1 DEF Positive
<1>3. q # 0
  BY <1>1, <1>2 DEF Positive
<1>. QED  BY <1>1, <1>2, <1>3 DEF CeilDiv, Positive

\* A code of two digits: the low one below m, the high one below n.
LEMMA TwoDigits ==
    ASSUME NEW m \in Positive, NEW n \in Positive, NEW x \in 0 .. m * n - 1
    PROVE  /\ x % m \in 0 .. m - 1
           /\ x \div m \in 0 .. n - 1
           /\ x = m * (x \div m) + (x % m)
<1>1. m * n \in Nat /\ x \in Nat /\ x < m * n
  BY MulMonotone DEF Positive
<1>2. /\ x \div m \in Nat /\ x % m \in 0 .. m - 1 /\ x = m * (x \div m) + (x % m)
  BY <1>1, DivMod
<1>3. x \div m < n
  <2>. DEFINE k == x \div m
  <2>. SUFFICES ASSUME n <= k
                PROVE  FALSE
    BY <1>2 DEF Positive
  <2>1. n * m <= k * m
    BY <1>2, MulMonotone DEF Positive
  <2>2. n * m = m * n /\ k * m = m * k /\ m * k \in Nat /\ k \in Nat
    BY <1>2 DEF Positive
  <2>3. x = m * k + (x % m) /\ x % m >= 0
    BY <1>2
  <2>. HIDE DEF k
  <2>. QED  BY <1>1, <1>2, <2>1, <2>2, <2>3 DEF Positive
<1>. QED  BY <1>2, <1>3 DEF Positive

LEMMA TwoDigitsCode ==
    ASSUME NEW m \in Positive, NEW n \in Positive, NEW lo \in 0 .. m - 1, NEW hi \in 0 .. n - 1
    PROVE  /\ m * hi + lo \in 0 .. m * n - 1
           /\ (m * hi + lo) % m = lo
           /\ (m * hi + lo) \div m = hi
<1>1. hi * m + m <= n * m /\ hi * m \in Nat
  BY MulMonotone DEF Positive
<1>2. hi * m = m * hi /\ n * m = m * n
  BY DEF Positive
<1>. QED  BY <1>1, <1>2, DivModUnique DEF Positive
-----------------------------------------------------------------------------
\* One dimension: size rows, in shares of S of which the last of the D cores has the rest, in
\* blocks of T.
Share(size, S, D, x) == IF x # D - 1 THEN S ELSE size - (D - 1) * S

LEMMA ShareInside ==
    ASSUME NEW size \in Positive, NEW S \in Positive, NEW D \in Positive, NEW x \in 0 .. D - 1,
           (D - 1) * S < size, size <= D * S
    PROVE  /\ Share(size, S, D, x) \in 1 .. S
           /\ x * S \in Nat
           /\ x * S + Share(size, S, D, x) <= size
<1>1. (D - 1) * S \in Nat /\ D * S = (D - 1) * S + S /\ x * S \in Nat
  BY MulMonotone DEF Positive
<1>2. CASE x = D - 1
  BY <1>1, <1>2 DEF Share, Positive
<1>3. CASE x # D - 1
  <2>1. x * S + S <= (D - 1) * S
    BY <1>3, MulMonotone DEF Positive
  <2>. QED  BY <1>1, <1>3, <2>1 DEF Share, Positive
<1>. QED  BY <1>2, <1>3

\* Every block of a share starts inside it, and inside the result.
LEMMA BlockStartsInside ==
    ASSUME NEW size \in Positive, NEW S \in Positive, NEW D \in Positive, NEW T \in Positive,
           NEW x \in 0 .. D - 1, (D - 1) * S < size, size <= D * S,
           NEW k \in 0 .. CeilDiv(Share(size, S, D, x), T) - 1
    PROVE  /\ k * T \in Nat
           /\ k * T < Share(size, S, D, x)
           /\ x * S + k * T \in 0 .. size - 1
<1>. DEFINE share == Share(size, S, D, x)
            q == CeilDiv(share, T)
<1>1. share \in Positive /\ x * S \in Nat /\ x * S + share <= size
  BY ShareInside DEF Positive
<1>. HIDE DEF share
<1>2. q \in Positive /\ (q - 1) * T < share
  BY <1>1, CeilDivBounds
<1>3. k \in 0 .. q - 1
  BY DEF share
<1>. HIDE DEF q
<1>4. k * T <= (q - 1) * T /\ k * T \in Nat
  BY <1>2, <1>3, MulMonotone DEF Positive
<1>5. k * T < share
  BY <1>1, <1>2, <1>4 DEF Positive
<1>. QED  BY <1>1, <1>4, <1>5 DEF share, Positive

\* Every row lies in the share of one core and in one block of that share.
LEMMA RowHasBlock ==
    ASSUME NEW size \in Positive, NEW S \in Positive, NEW D \in Positive, NEW T \in Positive,
           (D - 1) * S < size, size <= D * S, NEW r \in 0 .. size - 1
    PROVE  \E x \in 0 .. D - 1 : \E k \in 0 .. CeilDiv(Share(size, S, D, x), T) - 1 :
             x * S + k * T <= r /\ r < x * S + k * T + T
<1>. DEFINE x == r \div S
            off == r % S
            k == off \div T
            share == Share(size, S, D, x)
            q == CeilDiv(share, T)
<1>1. r \in Nat /\ D * S \in Nat /\ r \in 0 .. S * D - 1 /\ S * D = D * S
  BY MulMonotone DEF Positive
<1>2. x \in 0 .. D - 1 /\ off \in 0 .. S - 1 /\ r = S * x + off
  BY <1>1, TwoDigits
<1>. HIDE DEF x, off
<1>3. k \in Nat /\ off = T * k + (off % T) /\ off % T \in 0 .. T - 1 /\ T * k = k * T
  BY <1>2, DivMod DEF Positive
<1>. HIDE DEF k
<1>4. share \in Positive /\ x * S \in Nat /\ S * x = x * S /\ off < share
  <2>1. share \in 1 .. S /\ x * S \in Nat
    BY <1>2, ShareInside
  <2>2. off < share
    BY <1>2, <2>1, MulMonotone DEF Share, Positive
  <2>3. S * x = x * S
    BY <1>2 DEF Positive
  <2>. QED  BY <2>1, <2>2, <2>3 DEF Positive
<1>. HIDE DEF share
<1>5. k < q
  <2>1. q \in Positive /\ share <= q * T
    BY <1>4, CeilDivBounds DEF Positive
  <2>. HIDE DEF q
  <2>2. q <= k => q * T <= k * T
    BY <1>3, <2>1, MulMonotone DEF Positive
  <2>3. q * T \in Nat /\ k * T \in Nat
    BY <1>3, <2>1, MulMonotone DEF Positive
  <2>. QED  BY <1>2, <1>3, <1>4, <2>1, <2>2, <2>3 DEF Positive
<1>6. k \in 0 .. q - 1
  <2>1. q \in Nat
    BY <1>4, CeilDivBounds DEF Positive
  <2>. HIDE DEF q
  <2>. QED  BY <1>3, <1>5, <2>1
<1>7. x * S + k * T <= r /\ r < x * S + k * T + T
  BY <1>2, <1>3, <1>4 DEF Positive
<1>. QED  BY <1>2, <1>6, <1>7 DEF share, q

\* When T divides S, a block ends inside its share, ...
LEMMA BlockEndsInside ==
    ASSUME NEW S \in Positive, NEW T \in Positive, S % T = 0, NEW k \in Nat, k * T < S
    PROVE  k * T + T <= S
<1>. DEFINE q == S \div T
<1>1. q \in Nat /\ S = T * q /\ T * q = q * T
  BY DivMod DEF Positive
<1>. HIDE DEF q
<1>2. k < q
  <2>1. q <= k => q * T <= k * T
    BY <1>1, MulMonotone DEF Positive
  <2>2. q * T \in Nat /\ k * T \in Nat
    BY <1>1, MulMonotone DEF Positive
  <2>. QED  BY <1>1, <2>1, <2>2 DEF Positive
<1>. QED  BY <1>1, <1>2, MulMonotone DEF Positive

\* ... so that a row determines its core and its block.
LEMMA RowDeterminesBlock ==
    ASSUME NEW S \in Positive, NEW T \in Positive, NEW x \in Nat, NEW k \in Nat, NEW r \in Nat,
           k * T + T <= S, x * S + k * T <= r, r < x * S + k * T + T
    PROVE  x = r \div S /\ k = (r % S) \div T
<1>1. x * S \in Nat /\ k * T \in Nat /\ x * S = S * x /\ k * T = T * k
  BY MulMonotone DEF Positive
<1>. DEFINE off == r - x * S
            rest == off - k * T
<1>2. off \in 0 .. S - 1 /\ rest \in 0 .. T - 1 /\ r = S * x + off /\ off = T * k + rest
  BY <1>1 DEF Positive
<1>. HIDE DEF off, rest
<1>3. x = r \div S /\ off = r % S
  BY <1>2, DivModUnique
<1>4. k = off \div T
  BY <1>2, DivModUnique
<1>. QED  BY <1>3, <1>4
-----------------------------------------------------------------------------
\* The shares of a launch are as the lemmas above want them: the alignment of the share never
\* makes it smaller, and the host leaves the last core some work.
LEMMA LaunchFacts ==
    ASSUME NEW p \in Problems, NEW d \in Dims
    PROVE  /\ p.size[d] \in Positive /\ p.blockDim[d] \in Positive /\ p.tile[d] \in Positive
           /\ SingleOf(p, d) \in Positive
           /\ (p.blockDim[d] - 1) * SingleOf(p, d) < p.size[d]
           /\ p.size[d] <= p.blockDim[d] * SingleOf(p, d)
           /\ p.taskRation \in Nat
<1>1. /\ p.size[d] \in Positive /\ p.blockDim[d] \in Positive /\ p.tile[d] \in Positive
      /\ p.taskRation \in Nat
  BY SchedulerAssumption DEF Sizes, Positive
<1>2. (p.blockDim[d] - 1) * SingleOf(p, d) < p.size[d]
  BY SchedulerAssumption DEF LastHasWork
<1>. DEFINE q == CeilDiv(p.size[d], p.blockDim[d])
            S == SingleOf(p, d)
<1>3. q \in Positive /\ p.size[d] <= q * p.blockDim[d]
  BY <1>1, CeilDivBounds
<1>4. S = CeilDiv(q, BLOCK_CUBE) * BLOCK_CUBE
  BY DEF SingleOf, CeilAlign
<1>. HIDE DEF q, S
<1>5. q <= S /\ S \in Nat
  <2>1. BLOCK_CUBE \in Positive
    BY SchedulerAssumption DEF Positive
  <2>. QED  BY <1>3, <1>4, <2>1, CeilDivBounds, MulMonotone DEF Positive
<1>6. S \in Positive
  BY <1>3, <1>5 DEF Positive
<1>7. p.size[d] <= p.blockDim[d] * S
  <2>. DEFINE D == p.blockDim[d]
              n == p.size[d]
  <2>0. D \in Positive /\ n \in Positive /\ n <= q * D
    BY <1>1, <1>3
  <2>. HIDE DEF D, n
  <2>1. q * D <= S * D /\ q * D \in Nat /\ S * D \in Nat
    BY <1>3, <1>5, <2>0, MulMonotone DEF Positive
  <2>2. S * D = D * S
    BY <1>6, <2>0 DEF Positive
  <2>3. n <= D * S
    BY <2>0, <2>1, <2>2 DEF Positive
  <2>. QED  BY <2>3 DEF D, n
<1>. QED  BY <1>1, <1>2, <1>6, <1>7 DEF S

\* A core and its place in the grid.
Iters(p, c) == Iter(p, c, "M") * Iter(p, c, "N")

LEMMA CoreFacts ==
    ASSUME NEW p \in Problems, NEW c \in Cores(p)
    PROVE  /\ BlockNum(p) \in Positive
           /\ CurBlockIdx(p, c) \in 0 .. BlockNum(p) - 1
           /\ \A d \in Dims : /\ DimIdx(p, c, d) \in 0 .. p.blockDim[d] - 1
                              /\ SingleCoreSize(p, c, d)
                                   = Share(p.size[d], SingleOf(p, d), p.blockDim[d], DimIdx(p, c, d))
                              /\ SingleCoreSize(p, c, d) \in Positive
                              /\ Iter(p, c, d) \in Positive
           /\ Iters(p, c) \in Positive
           /\ CoreLoops(p, c) = Iters(p, c) * BlockNum(p)
<1>. DEFINE m == p.blockDim["M"]
            n == p.blockDim["N"]
            cur == CurBlockIdx(p, c)
<1>1. m \in Positive /\ n \in Positive /\ p.taskRation \in Nat
  BY LaunchFacts DEF Dims
<1>2. BlockNum(p) = m * n /\ BlockNum(p) \in Positive
  BY <1>1 DEF BlockNum, Positive
<1>3. cur \in 0 .. BlockNum(p) - 1
  <2>1. CASE c[1] = "AIC"
    BY <1>2, <2>1 DEF Cores, CurBlockIdx
  <2>2. CASE c[1] = "AIV"
    <3>1. c[2] \in 0 .. p.taskRation * BlockNum(p) - 1
      BY <2>2 DEF Cores
    <3>2. p.taskRation \in Positive
      <4>1. p.taskRation = 0 => p.taskRation * BlockNum(p) = 0
        BY <1>2 DEF Positive
      <4>. QED  BY <1>1, <3>1, <4>1 DEF Positive
    <3>3. c[2] \div p.taskRation \in 0 .. BlockNum(p) - 1
      BY <1>2, <3>1, <3>2, TwoDigits
    <3>. QED  BY <2>2, <3>3 DEF CurBlockIdx
  <2>. QED  BY <2>1, <2>2 DEF Cores
<1>. HIDE DEF cur
<1>4. cur % m \in 0 .. m - 1 /\ cur \div m \in 0 .. n - 1
  BY <1>1, <1>2, <1>3, TwoDigits
<1>5. ASSUME NEW d \in Dims
      PROVE  /\ DimIdx(p, c, d) \in 0 .. p.blockDim[d] - 1
             /\ SingleCoreSize(p, c, d)
                  = Share(p.size[d], SingleOf(p, d), p.blockDim[d], DimIdx(p, c, d))
             /\ SingleCoreSize(p, c, d) \in Positive
             /\ Iter(p, c, d) \in Positive
  <2>1. DimIdx(p, c, d) \in 0 .. p.blockDim[d] - 1
    BY <1>4 DEF DimIdx, cur, Dims
  <2>2. SingleCoreSize(p, c, d)
          = Share(p.size[d], SingleOf(p, d), p.blockDim[d], DimIdx(p, c, d))
    BY DEF SingleCoreSize, Share
  <2>3. SingleCoreSize(p, c, d) \in 1 .. SingleOf(p, d) /\ SingleOf(p, d) \in Positive
    BY <2>1, <2>2, LaunchFacts, ShareInside
  <2>4. SingleCoreSize(p, c, d) \in Positive
    BY <2>3 DEF Positive
  <2>. QED  BY <2>1, <2>2, <2>4, LaunchFacts, CeilDivBounds DEF Iter
<1>6. Iters(p, c) \in Positive /\ CoreLoops(p, c) = Iters(p, c) * BlockNum(p)
  <2>1. Iter(p, c, "M") \in Positive /\ Iter(p, c, "N") \in Positive
    BY <1>5 DEF Dims
  <2>. QED  BY <2>1 DEF Iters, CoreLoops, Positive
<1>. QED  BY <1>2, <1>3, <1>5, <1>6 DEF cur

\* The loop counter of a core after i passes.
LoopIdxAfter(p, c, i) == BlockNum(p) * i + CurBlockIdx(p, c)

LEMMA TaskFacts ==
    ASSUME NEW p \in Problems, NEW c \in Cores(p), NEW i \in Nat
    PROVE  /\ LoopIdxAfter(p, c, i) \in Nat
           /\ LoopIdxAfter(p, c, i) \div BlockNum(p) = i
           /\ (LoopIdxAfter(p, c, i) - CurBlockIdx(p, c)) \div BlockNum(p) = i
           /\ LoopIdxAfter(p, c, i) < CoreLoops(p, c) <=> i < Iters(p, c)
           /\ LoopIdxAfter(p, c, i) = CurBlockIdx(p, c) + i * BlockNum(p)
           /\ LoopIdxAfter(p, c, i + 1) = LoopIdxAfter(p, c, i) + BlockNum(p)
<1>. DEFINE b == BlockNum(p)
            cur == CurBlockIdx(p, c)
            n == Iters(p, c)
<1>1. b \in Positive /\ cur \in 0 .. b - 1 /\ n \in Positive /\ CoreLoops(p, c) = n * b
  BY CoreFacts
<1>2. LoopIdxAfter(p, c, i) = b * i + cur /\ LoopIdxAfter(p, c, i + 1) = b * (i + 1) + cur
  BY DEF LoopIdxAfter
<1>. HIDE DEF b, cur, n
<1>3. b * i = i * b /\ b * (i + 1) = b * i + b /\ i * b \in Nat /\ n * b \in Nat
  BY <1>1 DEF Positive
<1>4. (b * i + cur) \div b = i /\ (b * i + 0) \div b = i
  BY <1>1, DivModUnique DEF Positive
<1>5. b * i + cur < n * b <=> i < n
  <2>1. i < n => i * b + b <= n * b
    BY <1>1, MulMonotone DEF Positive
  <2>2. n <= i => n * b <= i * b
    BY <1>1, MulMonotone DEF Positive
  <2>. QED  BY <1>1, <1>3, <2>1, <2>2 DEF Positive
<1>6. (b * i + cur) - cur = b * i + 0
  BY <1>1, <1>3 DEF Positive
<1>. QED  BY <1>1, <1>2, <1>3, <1>4, <1>5, <1>6 DEF b, cur, n, Positive

LoopInv ==
    /\ problem \in Problems
    /\ loopIdx \in [Cores(problem) -> Nat]
    /\ \A c \in Cores(problem) :
         \E i \in 0 .. Iters(problem, c) : loopIdx[c] = LoopIdxAfter(problem, c, i)

LEMMA LoopInvInductive ==
    /\ SchedulerInit => LoopInv
    /\ LoopInv /\ [SchedulerNext]_schedulerVars => LoopInv'
<1>1. ASSUME SchedulerInit
      PROVE  LoopInv
  <2>1. problem \in Problems /\ loopIdx = [c \in Cores(problem) |-> CurBlockIdx(problem, c)]
    BY <1>1 DEF SchedulerInit
  <2>2. ASSUME NEW c \in Cores(problem)
        PROVE  /\ CurBlockIdx(problem, c) \in Nat
               /\ CurBlockIdx(problem, c) = LoopIdxAfter(problem, c, 0)
               /\ 0 \in 0 .. Iters(problem, c)
    BY <2>1, CoreFacts DEF LoopIdxAfter, Positive
  <2>. QED  BY <2>1, <2>2 DEF LoopInv
<1>2. ASSUME LoopInv, SchedulerNext
      PROVE  LoopInv'
  <2>1. PICK c \in Cores(problem) : Pass(c)
    BY <1>2 DEF SchedulerNext, LoopInv
  <2>2. problem' = problem /\ loopIdx[c] < CoreLoops(problem, c)
        /\ loopIdx' = [loopIdx EXCEPT ![c] = @ + BlockNum(problem)]
    BY <2>1 DEF Pass
  <2>3. PICK i \in 0 .. Iters(problem, c) : loopIdx[c] = LoopIdxAfter(problem, c, i)
    BY <1>2 DEF LoopInv
  <2>4. /\ i + 1 \in 0 .. Iters(problem, c)
        /\ loopIdx'[c] = LoopIdxAfter(problem, c, i + 1)
        /\ LoopIdxAfter(problem, c, i + 1) \in Nat
    <3>1. problem \in Problems /\ i \in Nat /\ i + 1 \in Nat /\ Iters(problem, c) \in Positive
      BY <1>2, CoreFacts DEF LoopInv
    <3>2. i < Iters(problem, c)
      BY <2>2, <2>3, <3>1, TaskFacts
    <3>3. loopIdx'[c] = LoopIdxAfter(problem, c, i + 1)
      BY <1>2, <2>2, <2>3, <3>1, TaskFacts DEF LoopInv
    <3>4. LoopIdxAfter(problem, c, i + 1) \in Nat
      BY <3>1, TaskFacts
    <3>. QED  BY <3>1, <3>2, <3>3, <3>4 DEF Positive
  <2>5. loopIdx' \in [Cores(problem) -> Nat]
    BY <1>2, <2>2, <2>4 DEF LoopInv
  <2>6. ASSUME NEW e \in Cores(problem)
        PROVE  \E j \in 0 .. Iters(problem, e) : loopIdx'[e] = LoopIdxAfter(problem, e, j)
    <3>1. CASE e = c
      BY <2>4, <3>1
    <3>2. CASE e # c
      BY <1>2, <2>2, <3>2 DEF LoopInv
    <3>. QED  BY <3>1, <3>2
  <2>. QED  BY <1>2, <2>2, <2>5, <2>6 DEF LoopInv
<1>3. ASSUME LoopInv, UNCHANGED schedulerVars
      PROVE  LoopInv'
  BY <1>3 DEF LoopInv, schedulerVars
<1>. QED  BY <1>1, <1>2, <1>3

LEMMA LoopInvariant == SchedulerSpec => []LoopInv
BY LoopInvInductive, PTL DEF SchedulerSpec
-----------------------------------------------------------------------------
\* What the counter of a core says of the tasks it has done.
LEMMA PassFacts ==
    ASSUME LoopInv, NEW c \in Cores(problem)
    PROVE  /\ Passes(c) \in 0 .. Iters(problem, c)
           /\ loopIdx[c] = LoopIdxAfter(problem, c, Passes(c))
           /\ Finished(c) <=> Passes(c) = Iters(problem, c)
           /\ TasksDone(c) = {LoopIdxAfter(problem, c, j) : j \in 0 .. Passes(c) - 1}
<1>. DEFINE n == Iters(problem, c)
<1>1. problem \in Problems /\ n \in Positive
  BY CoreFacts DEF LoopInv
<1>2. PICK i \in 0 .. n : loopIdx[c] = LoopIdxAfter(problem, c, i)
  BY DEF LoopInv
<1>. HIDE DEF n
<1>3. Passes(c) = i
  BY <1>1, <1>2, TaskFacts DEF Passes
<1>4. Finished(c) <=> i = n
  <2>1. CoreLoops(problem, c) \in Nat /\ loopIdx[c] \in Nat
    BY <1>1, CoreFacts DEF LoopInv, Positive
  <2>2. loopIdx[c] < CoreLoops(problem, c) <=> i < n
    BY <1>1, <1>2, TaskFacts DEF n
  <2>. QED  BY <1>1, <1>2, <2>1, <2>2 DEF Finished, Positive
<1>5. \A j \in 0 .. i - 1 : CurBlockIdx(problem, c) + j * BlockNum(problem)
                              = LoopIdxAfter(problem, c, j)
  BY <1>1, <1>2, TaskFacts
<1>. QED  BY <1>2, <1>3, <1>4, <1>5 DEF n, TasksDone

\* A task is a pair of blocks, one of each dimension; the order says which is the low digit.
LEMMA TaskDigits ==
    ASSUME NEW p \in Problems, NEW c \in Cores(p), NEW j \in 0 .. Iters(p, c) - 1
    PROVE  /\ \A d \in Dims : TaskIdx(p, c, LoopIdxAfter(p, c, j), d) \in 0 .. Iter(p, c, d) - 1
           /\ j = IF p.order = 1
                  THEN Iter(p, c, "M") * TaskIdx(p, c, LoopIdxAfter(p, c, j), "N")
                         + TaskIdx(p, c, LoopIdxAfter(p, c, j), "M")
                  ELSE Iter(p, c, "N") * TaskIdx(p, c, LoopIdxAfter(p, c, j), "M")
                         + TaskIdx(p, c, LoopIdxAfter(p, c, j), "N")
<1>. DEFINE m == Iter(p, c, "M")
            n == Iter(p, c, "N")
            task == LoopIdxAfter(p, c, j)
<1>1. m \in Positive /\ n \in Positive /\ Iters(p, c) = m * n /\ m * n = n * m
  BY CoreFacts DEF Dims, Iters, Positive
<1>2. task \div BlockNum(p) = j
  BY CoreFacts, TaskFacts DEF Positive
<1>. HIDE DEF task
<1>3. CASE p.order = 1
  <2>1. TaskIdx(p, c, task, "M") = j % m /\ TaskIdx(p, c, task, "N") = j \div m
    BY <1>2, <1>3 DEF TaskIdx
  <2>2. j % m \in 0 .. m - 1 /\ j \div m \in 0 .. n - 1 /\ j = m * (j \div m) + (j % m)
    BY <1>1, TwoDigits
  <2>. QED  BY <1>3, <2>1, <2>2 DEF Dims, task
<1>4. CASE p.order # 1
  <2>1. TaskIdx(p, c, task, "N") = j % n /\ TaskIdx(p, c, task, "M") = j \div n
    BY <1>2, <1>4 DEF TaskIdx
  <2>2. j % n \in 0 .. n - 1 /\ j \div n \in 0 .. m - 1 /\ j = n * (j \div n) + (j % n)
    BY <1>1, TwoDigits
  <2>. QED  BY <1>4, <2>1, <2>2 DEF Dims, task
<1>. QED  BY <1>3, <1>4

LEMMA TaskOfBlocks ==
    ASSUME NEW p \in Problems, NEW c \in Cores(p),
           NEW kM \in 0 .. Iter(p, c, "M") - 1, NEW kN \in 0 .. Iter(p, c, "N") - 1
    PROVE  \E j \in 0 .. Iters(p, c) - 1 :
             /\ TaskIdx(p, c, LoopIdxAfter(p, c, j), "M") = kM
             /\ TaskIdx(p, c, LoopIdxAfter(p, c, j), "N") = kN
<1>. DEFINE m == Iter(p, c, "M")
            n == Iter(p, c, "N")
<1>1. m \in Positive /\ n \in Positive /\ Iters(p, c) = m * n /\ m * n = n * m
  BY CoreFacts DEF Dims, Iters, Positive
<1>2. \A j \in 0 .. Iters(p, c) - 1 : LoopIdxAfter(p, c, j) \div BlockNum(p) = j
  BY CoreFacts, TaskFacts DEF Positive
<1>3. CASE p.order = 1
  <2>. DEFINE j == m * kN + kM
  <2>1. j \in 0 .. Iters(p, c) - 1 /\ j % m = kM /\ j \div m = kN
    BY <1>1, TwoDigitsCode
  <2>. HIDE DEF j
  <2>. QED  BY <1>2, <1>3, <2>1 DEF TaskIdx
<1>4. CASE p.order # 1
  <2>. DEFINE j == n * kM + kN
  <2>1. j \in 0 .. Iters(p, c) - 1 /\ j % n = kN /\ j \div n = kM
    BY <1>1, TwoDigitsCode
  <2>. HIDE DEF j
  <2>. QED  BY <1>2, <1>4, <2>1 DEF TaskIdx
<1>. QED  BY <1>3, <1>4

\* The rows (columns) of the block of a task: from coord, clipped at the edge of the result.
LEMMA BlockRows ==
    ASSUME NEW p \in Problems, NEW c \in Cores(p), NEW j \in 0 .. Iters(p, c) - 1, NEW d \in Dims
    PROVE  LET k     == TaskIdx(p, c, LoopIdxAfter(p, c, j), d)
               coord == BlockCoord(p, c, LoopIdxAfter(p, c, j))
               T     == p.tile[d]
           IN  /\ coord[d] = DimIdx(p, c, d) * SingleOf(p, d) + k * T
               /\ coord[d] \in 0 .. p.size[d] - 1
               /\ k \in Nat
               /\ k * T \in Nat
               /\ k * T < SingleOf(p, d)
               /\ \A r \in Int :
                    r \in coord[d] .. coord[d] + ActualBlockShape(p, coord)[d] - 1
                      <=> /\ coord[d] <= r
                          /\ r < coord[d] + T
                          /\ r < p.size[d]
<1>. DEFINE k == TaskIdx(p, c, LoopIdxAfter(p, c, j), d)
            coord == BlockCoord(p, c, LoopIdxAfter(p, c, j))
            T == p.tile[d]
            S == SingleOf(p, d)
            x == DimIdx(p, c, d)
            size == p.size[d]
            D == p.blockDim[d]
<1>1. /\ size \in Positive /\ D \in Positive /\ T \in Positive /\ S \in Positive
      /\ (D - 1) * S < size /\ size <= D * S
  BY LaunchFacts
<1>2. x \in 0 .. D - 1 /\ k \in 0 .. CeilDiv(Share(size, S, D, x), T) - 1
  BY CoreFacts, TaskDigits DEF Iter
<1>3. coord[d] = x * S + k * T
  BY DEF BlockCoord, BlockOffset
<1>4. ActualBlockShape(p, coord)[d] = Smaller(size - coord[d], T)
  BY DEF ActualBlockShape
<1>5. CeilDiv(Share(size, S, D, x), T) \in Positive /\ Share(size, S, D, x) \in 1 .. S
  BY <1>1, <1>2, CoreFacts, ShareInside DEF Iter
<1>. HIDE DEF coord, k, T, S, x, size, D
<1>6. k * T \in Nat /\ k * T < Share(size, S, D, x) /\ x * S + k * T \in 0 .. size - 1
  BY <1>1, <1>2, BlockStartsInside
<1>7. k * T < S /\ k \in Nat
  BY <1>1, <1>2, <1>5, <1>6 DEF Positive
<1>8. \A r \in Int : r \in coord[d] .. coord[d] + ActualBlockShape(p, coord)[d] - 1
                      <=> coord[d] <= r /\ r < coord[d] + T /\ r < size
  BY <1>1, <1>3, <1>4, <1>6 DEF Smaller, Positive
<1>. QED  BY <1>3, <1>6, <1>7, <1>8 DEF coord, k, T, S, x, size
-----------------------------------------------------------------------------
\* A task done is one of the core's Iters tasks.
LEMMA DoneTask ==
    ASSUME LoopInv, NEW c \in DOMAIN loopIdx, NEW t \in TasksDone(c)
    PROVE  /\ problem \in Problems /\ c \in Cores(problem)
           /\ \E j \in 0 .. Iters(problem, c) - 1 : t = LoopIdxAfter(problem, c, j)
<1>1. problem \in Problems /\ c \in Cores(problem)
  BY DEF LoopInv
<1>2. PICK j \in 0 .. Passes(c) - 1 : t = LoopIdxAfter(problem, c, j)
  BY <1>1, PassFacts
<1>3. Passes(c) \in 0 .. Iters(problem, c) /\ Iters(problem, c) \in Positive
  BY <1>1, PassFacts, CoreFacts
<1>. QED  BY <1>1, <1>2, <1>3 DEF Positive

\* A cell of a block is a row and a column of it, within the result.
LEMMA CellOfBlock ==
    ASSUME LoopInv, NEW c \in DOMAIN loopIdx, NEW t \in TasksDone(c), NEW cell \in Cells(c, t)
    PROVE  LET coord == BlockCoord(problem, c, t)
               T     == problem.tile
           IN  /\ cell = <<cell[1], cell[2]>>
               /\ cell[1] \in 0 .. problem.size["M"] - 1
               /\ cell[2] \in 0 .. problem.size["N"] - 1
               /\ coord["M"] <= cell[1] /\ cell[1] < coord["M"] + T["M"]
               /\ coord["N"] <= cell[2] /\ cell[2] < coord["N"] + T["N"]
<1>. DEFINE coord == BlockCoord(problem, c, t)
            sh == ActualBlockShape(problem, coord)
<1>1. PICK j \in 0 .. Iters(problem, c) - 1 : t = LoopIdxAfter(problem, c, j)
  BY DoneTask
<1>2. problem \in Problems /\ c \in Cores(problem)
  BY DoneTask
<1>3. /\ cell = <<cell[1], cell[2]>>
      /\ cell[1] \in coord["M"] .. coord["M"] + sh["M"] - 1
      /\ cell[2] \in coord["N"] .. coord["N"] + sh["N"] - 1
  BY DEF Cells
<1>. HIDE DEF coord, sh
<1>4. ASSUME NEW d \in Dims
      PROVE  /\ coord[d] \in 0 .. problem.size[d] - 1
             /\ \A r \in Int : r \in coord[d] .. coord[d] + sh[d] - 1 =>
                  coord[d] <= r /\ r < coord[d] + problem.tile[d] /\ r < problem.size[d]
             /\ problem.size[d] \in Positive
  BY <1>1, <1>2, BlockRows, LaunchFacts DEF coord, sh
<1>5. cell[1] \in Int /\ cell[2] \in Int
  BY <1>3
<1>. QED  BY <1>3, <1>4, <1>5 DEF Dims, coord, Positive

\* GetActualBlockShape clips the blocks at the edges of the result
\* (block_scheduler_swizzle_in_mn_core.h:93-99): none reaches outside it.
THEOREM ScheduleInsideResult == SchedulerSpec => []BlocksInsideResult
<1>1. LoopInv => BlocksInsideResult
  <2>. SUFFICES ASSUME LoopInv, NEW c \in DOMAIN loopIdx, NEW t \in TasksDone(c),
                       NEW cell \in Cells(c, t)
                PROVE  cell \in Result
    BY DEF BlocksInsideResult, CellsOf
  <2>. QED  BY CellOfBlock DEF Result
<1>. QED  BY <1>1, LoopInvariant, PTL

\* Once the cube cores have left their loops every cell of the result is computed: the grid, the
\* rest the last core of a row or column gets and the clipped blocks leave no gap
\* (block_scheduler_swizzle_in_mn_core.h:68-114).
THEOREM ScheduleCoversResult == SchedulerSpec => []ResultIsCovered
<1>1. ASSUME LoopInv, \A c \in CubeCores : Finished(c),
             NEW r \in 0 .. problem.size["M"] - 1, NEW q \in 0 .. problem.size["N"] - 1
      PROVE  \E c \in CubeCores : \E t \in TasksDone(c) : <<r, q>> \in Cells(c, t)
  <2>. DEFINE p == problem
              m == p.blockDim["M"]
              n == p.blockDim["N"]
              Sh(d, x) == Share(p.size[d], SingleOf(p, d), p.blockDim[d], x)
  <2>0. p \in Problems
    BY <1>1 DEF LoopInv
  <2>. HIDE DEF p
  <2>1. PICK xM \in 0 .. m - 1 : \E k \in 0 .. CeilDiv(Sh("M", xM), p.tile["M"]) - 1 :
          xM * SingleOf(p, "M") + k * p.tile["M"] <= r /\
          r < xM * SingleOf(p, "M") + k * p.tile["M"] + p.tile["M"]
    BY <1>1, <2>0, LaunchFacts, RowHasBlock DEF Dims, p
  <2>2. PICK kM \in 0 .. CeilDiv(Sh("M", xM), p.tile["M"]) - 1 :
          xM * SingleOf(p, "M") + kM * p.tile["M"] <= r /\
          r < xM * SingleOf(p, "M") + kM * p.tile["M"] + p.tile["M"]
    BY <2>1
  <2>3. PICK xN \in 0 .. n - 1 : \E k \in 0 .. CeilDiv(Sh("N", xN), p.tile["N"]) - 1 :
          xN * SingleOf(p, "N") + k * p.tile["N"] <= q /\
          q < xN * SingleOf(p, "N") + k * p.tile["N"] + p.tile["N"]
    BY <1>1, <2>0, LaunchFacts, RowHasBlock DEF Dims, p
  <2>4. PICK kN \in 0 .. CeilDiv(Sh("N", xN), p.tile["N"]) - 1 :
          xN * SingleOf(p, "N") + kN * p.tile["N"] <= q /\
          q < xN * SingleOf(p, "N") + kN * p.tile["N"] + p.tile["N"]
    BY <2>3
  <2>. DEFINE cur == m * xN + xM
              c == <<"AIC", cur>>
  <2>5. m \in Positive /\ n \in Positive /\ BlockNum(p) = m * n
    BY <2>0, LaunchFacts DEF Dims, BlockNum
  <2>6. cur \in 0 .. BlockNum(p) - 1 /\ cur % m = xM /\ cur \div m = xN
    BY <2>5, TwoDigitsCode
  <2>. HIDE DEF cur
  <2>7. /\ c \in Cores(p) /\ CurBlockIdx(p, c) = cur
        /\ DimIdx(p, c, "M") = xM /\ DimIdx(p, c, "N") = xN
    BY <2>6 DEF Cores, CurBlockIdx, DimIdx
  <2>. HIDE DEF c
  <2>8. c \in CubeCores /\ Finished(c)
    BY <1>1, <2>7 DEF CubeCores, LoopInv, c, p
  <2>9. kM \in 0 .. Iter(p, c, "M") - 1 /\ kN \in 0 .. Iter(p, c, "N") - 1
    <3>1. /\ SingleCoreSize(p, c, "M") = Sh("M", xM)
          /\ SingleCoreSize(p, c, "N") = Sh("N", xN)
      BY <2>0, <2>7, CoreFacts DEF Dims
    <3>. QED  BY <2>2, <2>4, <3>1 DEF Iter
  <2>10. PICK j \in 0 .. Iters(p, c) - 1 :
           /\ TaskIdx(p, c, LoopIdxAfter(p, c, j), "M") = kM
           /\ TaskIdx(p, c, LoopIdxAfter(p, c, j), "N") = kN
    BY <2>0, <2>7, <2>9, TaskOfBlocks
  <2>. DEFINE t == LoopIdxAfter(p, c, j)
  <2>11. t \in TasksDone(c)
    BY <1>1, <2>7, <2>8, PassFacts DEF p
  <2>12. /\ r \in BlockCoord(p, c, t)["M"] ..
                    BlockCoord(p, c, t)["M"] + ActualBlockShape(p, BlockCoord(p, c, t))["M"] - 1
         /\ q \in BlockCoord(p, c, t)["N"] ..
                    BlockCoord(p, c, t)["N"] + ActualBlockShape(p, BlockCoord(p, c, t))["N"] - 1
    <3>1. /\ r \in Int /\ r < p.size["M"] /\ q \in Int /\ q < p.size["N"]
      BY <2>0, LaunchFacts DEF Dims, Positive, p
    <3>2. /\ BlockCoord(p, c, t)["M"] = xM * SingleOf(p, "M") + kM * p.tile["M"]
          /\ r \in BlockCoord(p, c, t)["M"] ..
                    BlockCoord(p, c, t)["M"] + ActualBlockShape(p, BlockCoord(p, c, t))["M"] - 1
               <=> /\ BlockCoord(p, c, t)["M"] <= r
                   /\ r < BlockCoord(p, c, t)["M"] + p.tile["M"]
                   /\ r < p.size["M"]
      BY <2>0, <2>7, <2>10, <3>1, BlockRows DEF Dims
    <3>3. /\ BlockCoord(p, c, t)["N"] = xN * SingleOf(p, "N") + kN * p.tile["N"]
          /\ q \in BlockCoord(p, c, t)["N"] ..
                    BlockCoord(p, c, t)["N"] + ActualBlockShape(p, BlockCoord(p, c, t))["N"] - 1
               <=> /\ BlockCoord(p, c, t)["N"] <= q
                   /\ q < BlockCoord(p, c, t)["N"] + p.tile["N"]
                   /\ q < p.size["N"]
      BY <2>0, <2>7, <2>10, <3>1, BlockRows DEF Dims
    <3>. HIDE DEF t
    <3>. QED  BY <2>2, <2>4, <3>1, <3>2, <3>3
  <2>13. <<r, q>> \in Cells(c, t)
    BY <2>12 DEF Cells, p
  <2>. QED  BY <2>8, <2>11, <2>13
<1>2. LoopInv => ResultIsCovered
  <2>. SUFFICES ASSUME LoopInv, \A c \in CubeCores : Finished(c), NEW cell \in Result
                PROVE  \E c \in CubeCores : cell \in CellsOf(c)
    BY DEF ResultIsCovered
  <2>1. PICK r \in 0 .. problem.size["M"] - 1, q \in 0 .. problem.size["N"] - 1 : cell = <<r, q>>
    BY DEF Result
  <2>2. PICK c \in CubeCores : \E t \in TasksDone(c) : <<r, q>> \in Cells(c, t)
    BY <1>1
  <2>. QED  BY <2>1, <2>2 DEF CellsOf
<1>. QED  BY <1>2, LoopInvariant, PTL

\* Two tasks that share a row and a column are the same task of the same core, when the tile
\* divides the shares: in each dimension the row determines the core's place in the grid and the
\* block (block_scheduler_swizzle_in_mn_core.h:68-114).
LEMMA SharedRow ==
    ASSUME NEW p \in Problems, NEW c \in Cores(p), NEW j \in 0 .. Iters(p, c) - 1, NEW d \in Dims,
           SingleOf(p, d) % p.tile[d] = 0, NEW r \in 0 .. p.size[d] - 1,
           BlockCoord(p, c, LoopIdxAfter(p, c, j))[d] <= r,
           r < BlockCoord(p, c, LoopIdxAfter(p, c, j))[d] + p.tile[d]
    PROVE  /\ DimIdx(p, c, d) = r \div SingleOf(p, d)
           /\ TaskIdx(p, c, LoopIdxAfter(p, c, j), d) = (r % SingleOf(p, d)) \div p.tile[d]
<1>. DEFINE k == TaskIdx(p, c, LoopIdxAfter(p, c, j), d)
            first == BlockCoord(p, c, LoopIdxAfter(p, c, j))[d]
            T == p.tile[d]
            S == SingleOf(p, d)
            x == DimIdx(p, c, d)
<1>1. S \in Positive /\ T \in Positive /\ p.size[d] \in Positive /\ x \in Nat
  BY LaunchFacts, CoreFacts DEF Positive
<1>2. first = x * S + k * T /\ k \in Nat /\ k * T < S
  BY BlockRows
<1>3. S % T = 0 /\ first <= r /\ r < first + T /\ r \in Nat
  BY <1>1
<1>. HIDE DEF k, first, T, S, x
<1>4. k * T + T <= S
  BY <1>1, <1>2, <1>3, BlockEndsInside
<1>5. x = r \div S /\ k = (r % S) \div T
  BY <1>1, <1>2, <1>3, <1>4, RowDeterminesBlock
<1>. QED  BY <1>5 DEF k, T, S, x

\* The place in the grid determines the cube core.
LEMMA PlaceIsOfOneCore ==
    ASSUME NEW p \in Problems, NEW c1 \in Cores(p), NEW c2 \in Cores(p),
           c1[1] = "AIC", c2[1] = "AIC",
           \A d \in Dims : DimIdx(p, c1, d) = DimIdx(p, c2, d)
    PROVE  c1 = c2
<1>. DEFINE m == p.blockDim["M"]
            n == p.blockDim["N"]
<1>1. m \in Positive /\ n \in Positive /\ BlockNum(p) = m * n
  BY LaunchFacts DEF Dims, BlockNum
<1>2. CurBlockIdx(p, c1) \in 0 .. m * n - 1 /\ CurBlockIdx(p, c2) \in 0 .. m * n - 1
  BY <1>1, CoreFacts
<1>3. /\ CurBlockIdx(p, c1) % m = CurBlockIdx(p, c2) % m
      /\ CurBlockIdx(p, c1) \div m = CurBlockIdx(p, c2) \div m
  BY DEF DimIdx, Dims
<1>4. CurBlockIdx(p, c1) = CurBlockIdx(p, c2)
  BY <1>1, <1>2, <1>3, TwoDigits
<1>5. c1[2] = c2[2]
  BY <1>4 DEF CurBlockIdx
<1>. QED  BY <1>5 DEF Cores

\* No cell is computed twice when the tile divides the cores' shares: blocks are clipped at the
\* edge of the result only, so that without the division the last block of a share reaches into
\* the next one (block_scheduler_swizzle_in_mn_core.h:93-99).
THEOREM ScheduleComputesOnce == SchedulerSpec => []NothingComputedTwice
<1>1. ASSUME LoopInv, TileDividesShare, NEW c1 \in CubeCores, NEW c2 \in CubeCores,
             NEW t1 \in TasksDone(c1), NEW t2 \in TasksDone(c2),
             NEW cell \in Cells(c1, t1), cell \in Cells(c2, t2)
      PROVE  c1 = c2 /\ t1 = t2
  <2>. DEFINE p == problem
              row(d) == IF d = "M" THEN cell[1] ELSE cell[2]
  <2>1. /\ c1 \in DOMAIN loopIdx /\ c2 \in DOMAIN loopIdx /\ c1[1] = "AIC" /\ c2[1] = "AIC"
        /\ p \in Problems /\ c1 \in Cores(p) /\ c2 \in Cores(p)
    BY <1>1, DoneTask DEF CubeCores
  <2>2. PICK j1 \in 0 .. Iters(p, c1) - 1 : t1 = LoopIdxAfter(p, c1, j1)
    BY <1>1, <2>1, DoneTask
  <2>3. PICK j2 \in 0 .. Iters(p, c2) - 1 : t2 = LoopIdxAfter(p, c2, j2)
    BY <1>1, <2>1, DoneTask
  <2>4. ASSUME NEW d \in Dims
        PROVE  /\ row(d) \in 0 .. p.size[d] - 1
               /\ BlockCoord(p, c1, t1)[d] <= row(d) /\ row(d) < BlockCoord(p, c1, t1)[d] + p.tile[d]
               /\ BlockCoord(p, c2, t2)[d] <= row(d) /\ row(d) < BlockCoord(p, c2, t2)[d] + p.tile[d]
               /\ SingleOf(p, d) % p.tile[d] = 0
    BY <1>1, <2>1, CellOfBlock DEF Dims, TileDividesShare
  <2>. HIDE DEF p, row
  <2>5. ASSUME NEW d \in Dims
        PROVE  /\ DimIdx(p, c1, d) = DimIdx(p, c2, d)
               /\ TaskIdx(p, c1, LoopIdxAfter(p, c1, j1), d)
                    = TaskIdx(p, c2, LoopIdxAfter(p, c2, j2), d)
    BY <2>1, <2>2, <2>3, <2>4, SharedRow
  <2>6. c1 = c2
    BY <2>1, <2>5, PlaceIsOfOneCore
  <2>7. j1 = j2
    BY <2>1, <2>5, <2>6, TaskDigits DEF Dims
  <2>. QED  BY <2>2, <2>3, <2>6, <2>7
<1>2. LoopInv => NothingComputedTwice
  BY <1>1 DEF NothingComputedTwice
<1>. QED  BY <1>2, LoopInvariant, PTL

\* A vector core that has made as many passes as the cube core it works for is at the same block:
\* only the arithmetic keeps the group together (block_scheduler_swizzle_in_mn_core.h:71-76).
THEOREM ScheduleKeepsGroup == SchedulerSpec => []GroupOnOneBlock
<1>1. ASSUME LoopInv, NEW c \in DOMAIN loopIdx, NEW v \in DOMAIN loopIdx, c[1] = "AIC",
             v[1] = "AIV", v[2] \div problem.taskRation = c[2], Passes(c) = Passes(v)
      PROVE  /\ Finished(c) <=> Finished(v)
             /\ BlockCoord(problem, c, loopIdx[c]) = BlockCoord(problem, v, loopIdx[v])
  <2>1. CurBlockIdx(problem, c) = CurBlockIdx(problem, v)
    BY <1>1 DEF CurBlockIdx
  <2>2. c \in Cores(problem) /\ v \in Cores(problem)
    BY <1>1 DEF LoopInv
  <2>3. loopIdx[c] = loopIdx[v]
    BY <1>1, <2>1, <2>2, PassFacts DEF LoopIdxAfter
  <2>4. \A d \in Dims : Iter(problem, c, d) = Iter(problem, v, d)
                        /\ BlockOffset(problem, c, d) = BlockOffset(problem, v, d)
    BY <2>1 DEF Iter, SingleCoreSize, BlockOffset, DimIdx
  <2>5. CoreLoops(problem, c) = CoreLoops(problem, v)
    BY <2>4 DEF CoreLoops, Dims
  <2>6. \A d \in Dims : TaskIdx(problem, c, loopIdx[c], d) = TaskIdx(problem, v, loopIdx[v], d)
    BY <2>3, <2>4 DEF TaskIdx, Dims
  <2>. QED  BY <2>3, <2>4, <2>5, <2>6 DEF Finished, BlockCoord
<1>2. LoopInv => GroupOnOneBlock
  BY <1>1 DEF GroupOnOneBlock
<1>. QED  BY <1>2, LoopInvariant, PTL

-----------------------------------------------------------------------------
(* The least common multiple, by Euclid's algorithm.                       *)

\* Euclid's recursion, for second numbers up to k.
Recurs(g, L, k) ==
    \A x \in 0 .. L : \A y \in 0 .. k : g[<<x, y>>] = IF y = 0 THEN x ELSE g[<<y, x % y>>]

LEMMA GcdExists ==
    ASSUME NEW L \in Nat
    PROVE  \E g \in [(0 .. L) \X (0 .. L) -> 0 .. L] : Recurs(g, L, L)
<1> DEFINE D == (0 .. L) \X (0 .. L)
           S == {k \in 0 .. L : \E g \in [D -> 0 .. L] : Recurs(g, L, k)}
<1>1. 0 \in S
  <2> DEFINE g == [p \in D |-> p[1]]
  <2>1. g \in [D -> 0 .. L]
    OBVIOUS
  <2>2. \A x \in 0 .. L : g[<<x, 0>>] = x
    OBVIOUS
  <2> HIDE DEF g
  <2>3. Recurs(g, L, 0)
    BY <2>2 DEF Recurs
  <2> QED BY <2>1, <2>3
<1>2. ASSUME NEW k \in 1 .. L, k - 1 \in S
      PROVE  k \in S
  <2>1. PICK g \in [D -> 0 .. L] : Recurs(g, L, k - 1)
    BY <1>2
  <2> DEFINE h == [p \in D |-> IF p[2] = k THEN g[<<k, p[1] % k>>] ELSE g[p]]
  <2>2. \A x \in 0 .. L : x % k \in 0 .. k - 1 /\ x % k \in 0 .. L /\ <<k, x % k>> \in D
    OBVIOUS
  <2>3. h \in [D -> 0 .. L]
    BY <2>2
  <2>4. \A x \in 0 .. L : h[<<x, k>>] = g[<<k, x % k>>]
    OBVIOUS
  <2>5. \A x \in 0 .. L : \A y \in 0 .. L : y # k => h[<<x, y>>] = g[<<x, y>>]
    OBVIOUS
  <2> HIDE DEF h, D
  <2>6. ASSUME NEW x \in 0 .. L, NEW y \in 0 .. k
        PROVE  h[<<x, y>>] = IF y = 0 THEN x ELSE h[<<y, x % y>>]
    <3>1. CASE y = k
      <4>1. k \in 0 .. L /\ x % k \in 0 .. L /\ x % k # k
        BY <2>2
      <4> QED BY <3>1, <4>1, <2>4, <2>5
    <3>2. CASE y # k
      <4>1. y \in 0 .. k - 1 /\ y \in 0 .. L
        BY <3>2
      <4>2. g[<<x, y>>] = IF y = 0 THEN x ELSE g[<<y, x % y>>]
        BY <2>1, <4>1 DEF Recurs
      <4>3. CASE y = 0
        BY <4>1, <4>2, <4>3, <3>2, <2>5
      <4>4. CASE y # 0
        <5>1. x % y \in 0 .. y - 1
          BY <4>1, <4>4
        <5>2. x % y \in 0 .. L /\ x % y # k
          BY <5>1, <4>1
        <5>3. h[<<x, y>>] = g[<<x, y>>] /\ h[<<y, x % y>>] = g[<<y, x % y>>]
          BY <5>2, <4>1, <3>2, <2>5
        <5> QED BY <5>3, <4>2, <4>4
      <4> QED BY <4>3, <4>4
    <3> QED BY <3>1, <3>2
  <2>7. Recurs(h, L, k)
    BY <2>6 DEF Recurs
  <2> QED BY <2>3, <2>7
<1>3. \A k \in 0 .. L : k \in S
  <2> HIDE DEF S
  <2> QED BY <1>1, <1>2, InductionUpTo
<1> QED BY <1>3

\* d divides x and y and is a sum of multiples of them.
Common(d, x, y) ==
    /\ d \in Nat \ {0}
    /\ \E a \in Nat, b \in Nat : x = a * d /\ y = b * d
    /\ \E u \in Int, v \in Int : d = u * x + v * y

LEMMA CommonStep ==
    ASSUME NEW x \in Nat, NEW y \in Nat \ {0}, NEW d, Common(d, y, x % y)
    PROVE  Common(d, x, y)
<1> DEFINE q == x \div y
           r == x % y
<1>1. q \in Nat /\ r \in Nat /\ x = y * q + r
  <2>1. y \in Positive
    BY DEF Positive
  <2>2. x \div y \in Nat /\ x % y \in 0 .. y - 1 /\ x = y * (x \div y) + (x % y)
    BY <2>1, DivMod
  <2> QED BY <2>2
<1>2. PICK a \in Nat, b \in Nat : y = a * d /\ r = b * d
  BY DEF Common
<1>3. PICK u \in Int, v \in Int : d = u * y + v * r
  BY DEF Common
<1>4. d \in Nat \ {0}
  BY DEF Common
<1> HIDE DEF q, r
<1>5. x = (a * q + b) * d /\ a * q + b \in Nat
  <2>1. a * q \in Nat /\ y * q = (a * q) * d
    BY <1>1, <1>2, <1>4
  <2>2. (a * q + b) * d = (a * q) * d + b * d
    BY <2>1, <1>4
  <2> QED BY <2>1, <2>2, <1>1, <1>2, <1>4
<1>6. d = v * x + (u - v * q) * y /\ u - v * q \in Int
  <2>1. v * q \in Int /\ v * x = v * (y * q) + v * r
    BY <1>1
  <2>2. v * (y * q) = (v * q) * y /\ (u - v * q) * y = u * y - (v * q) * y
    BY <1>1
  <2>3. v * (y * q) \in Int /\ v * r \in Int /\ u * y \in Int
    BY <1>1
  <2> QED BY <2>1, <2>2, <2>3, <1>3, <1>1
<1>7. \E aa \in Nat, bb \in Nat : x = aa * d /\ y = bb * d
  BY <1>2, <1>5
<1>8. \E uu \in Int, vv \in Int : d = uu * x + vv * y
  BY <1>6
<1> QED BY <1>4, <1>7, <1>8 DEF Common

LEMMA GcdIsCommon ==
    ASSUME NEW L \in Nat, NEW g, Recurs(g, L, L)
    PROVE  \A x \in 0 .. L : \A y \in 0 .. L : x # 0 \/ y # 0 => Common(g[<<x, y>>], x, y)
<1> DEFINE S == {k \in 0 .. L : \A y \in 0 .. k : \A x \in 0 .. L :
                                   x # 0 \/ y # 0 => Common(g[<<x, y>>], x, y)}
<1>1. 0 \in S
  <2>1. ASSUME NEW x \in 0 .. L, x # 0 PROVE Common(g[<<x, 0>>], x, 0)
    <3>0. \A y \in 0 .. L : g[<<x, y>>] = IF y = 0 THEN x ELSE g[<<y, x % y>>]
      BY DEF Recurs
    <3>1. g[<<x, 0>>] = x
      <4>1. 0 \in 0 .. L
        OBVIOUS
      <4> HIDE DEF Recurs
      <4> QED BY <3>0, <4>1, Zenon
    <3>2. x \in Nat \ {0} /\ x = 1 * x /\ 0 = 0 * x /\ x = 1 * x + 0 * 0
      BY <2>1
    <3>3. \E a \in Nat, b \in Nat : x = a * x /\ 0 = b * x
      BY <3>2
    <3>4. \E u \in Int, v \in Int : x = u * x + v * 0
      BY <3>2
    <3> QED BY <3>1, <3>2, <3>3, <3>4 DEF Common
  <2> QED BY <2>1
<1>2. ASSUME NEW k \in 1 .. L, k - 1 \in S PROVE k \in S
  <2>1. ASSUME NEW y \in 0 .. k, NEW x \in 0 .. L, x # 0 \/ y # 0
        PROVE  Common(g[<<x, y>>], x, y)
    <3>1. CASE y # k
      <4>1. y \in 0 .. k - 1
        BY <3>1
      <4> QED BY <1>2, <2>1, <4>1
    <3>2. CASE y = k
      <4>1. y \in 0 .. L /\ y \in Nat \ {0} /\ x \in Nat
        BY <3>2
      <4>2. x % y \in 0 .. k - 1
        BY <4>1, <3>2
      <4>3. Common(g[<<y, x % y>>], y, x % y)
        BY <1>2, <4>1, <4>2
      <4>4. g[<<x, y>>] = g[<<y, x % y>>]
        BY <4>1 DEF Recurs
      <4> QED BY <4>1, <4>3, <4>4, CommonStep
    <3> QED BY <3>1, <3>2
  <2> QED BY <2>1
<1>3. \A k \in 0 .. L : k \in S
  <2> HIDE DEF S
  <2> QED BY <1>1, <1>2, InductionUpTo
<1> QED BY <1>3

LEMMA MMLcmDivides ==
    ASSUME NEW m \in Nat \ {0}, NEW n \in Nat \ {0}
    PROVE  \E d : Common(d, m, n) /\ MMLcm(m, n) = (m * n) \div d
<1> DEFINE L == m + n
           D == (0 .. L) \X (0 .. L)
           G == CHOOSE g : g = [p \in (0 .. m + n) \X (0 .. m + n) |->
                                  IF p[2] = 0 THEN p[1] ELSE g[<<p[2], p[1] % p[2]>>]]
<1>1. L \in Nat /\ m \in 0 .. L /\ n \in 0 .. L
  OBVIOUS
<1>2. PICK g \in [D -> 0 .. L] : Recurs(g, L, L)
  BY <1>1, GcdExists
<1>3. g = [p \in D |-> IF p[2] = 0 THEN p[1] ELSE g[<<p[2], p[1] % p[2]>>]]
  <2> DEFINE h == [p \in D |-> IF p[2] = 0 THEN p[1] ELSE g[<<p[2], p[1] % p[2]>>]]
  <2>1. ASSUME NEW p \in D PROVE g[p] = h[p]
    BY <1>2 DEF Recurs
  <2>2. DOMAIN g = D /\ DOMAIN h = D /\ h = [p \in D |-> h[p]] /\ g = [p \in D |-> g[p]]
    BY <1>2
  <2> QED BY <2>1, <2>2, Zenon
<1>4. G = [p \in D |-> IF p[2] = 0 THEN p[1] ELSE G[<<p[2], p[1] % p[2]>>]]
  BY <1>3
<1>5. MMLcm(m, n) = (m * n) \div G[<<m, n>>]
  BY Zenon DEF MMLcm
<1>6. Recurs(G, L, L)
  <2> HIDE DEF G
  <2> QED BY <1>4 DEF Recurs
<1>7. Common(G[<<m, n>>], m, n)
  <2> HIDE DEF G
  <2> QED BY <1>1, <1>6, GcdIsCommon
<1> QED BY <1>5, <1>7

\* MMLcm is the least common multiple: a common multiple x times the divisor d = u m + v n is a
\* multiple of m n, so x is one of m n / d.
LEMMA MMLcmIsLeast ==
    ASSUME NEW m \in Nat, NEW n \in Nat
    PROVE  IsLeastCommonMultiple(MMLcm(m, n), m, n)
<1> SUFFICES ASSUME m > 0, n > 0
             PROVE  {x \in 1 .. MMLcm(m, n) : x % m = 0 /\ x % n = 0} = {MMLcm(m, n)}
  BY DEF IsLeastCommonMultiple
<1>1. PICK d : Common(d, m, n) /\ MMLcm(m, n) = (m * n) \div d
  BY MMLcmDivides
<1>2. d \in Nat \ {0}
  BY <1>1 DEF Common
<1>3. PICK a \in Nat, b \in Nat : m = a * d /\ n = b * d
  BY <1>1 DEF Common
<1>4. PICK u \in Int, v \in Int : d = u * m + v * n
  BY <1>1 DEF Common
<1> DEFINE l == (a * b) * d
<1>5. l \in Nat /\ l = b * m /\ l = a * n /\ m * n = d * l
  <2>1. a * b \in Nat /\ (a * b) * d = b * (a * d) /\ (a * b) * d = a * (b * d)
    BY <1>2
  <2>2. l \in Nat
    BY <2>1, <1>2
  <2>3. m * n = m * (b * d) /\ m * (b * d) = d * (b * m)
    BY <1>2, <1>3
  <2> QED BY <2>1, <2>2, <2>3, <1>3
<1>6. a # 0 /\ b # 0
  BY <1>2, <1>3
<1>7. l > 0
  <2>1. b * m >= m
    BY <1>6
  <2> QED BY <2>1, <1>5
<1> HIDE DEF l
<1>8. MMLcm(m, n) = l
  <2>1. d \in Positive /\ 0 \in 0 .. d - 1
    BY <1>2 DEF Positive
  <2>2. (d * l + 0) \div d = l
    BY <2>1, <1>5, DivModUnique
  <2>3. d * l + 0 = m * n
    BY <1>5, <1>2
  <2> QED BY <1>1, <2>2, <2>3
<1>9. l % m = 0 /\ l % n = 0
  <2>1. m \in Positive /\ n \in Positive /\ 0 \in 0 .. m - 1 /\ 0 \in 0 .. n - 1
    BY DEF Positive
  <2>2. (m * b + 0) % m = 0 /\ (n * a + 0) % n = 0
    BY <2>1, DivModUnique
  <2>3. m * b + 0 = l /\ n * a + 0 = l
    BY <1>5
  <2> QED BY <2>2, <2>3
<1>10. ASSUME NEW x \in 1 .. l, x % m = 0, x % n = 0 PROVE x = l
  <2> DEFINE j == x \div m
             k == x \div n
  <2>1. j \in Nat /\ k \in Nat /\ x = m * j /\ x = n * k
    <3>1. m \in Positive /\ n \in Positive /\ x \in Nat
      BY <1>5 DEF Positive
    <3>2. j \in Nat /\ x = m * j + (x % m) /\ k \in Nat /\ x = n * k + (x % n)
      BY <3>1, DivMod
    <3> HIDE DEF j, k
    <3> QED BY <3>1, <3>2, <1>10
  <2> HIDE DEF j, k
  <2> DEFINE t == u * k + v * j
  <2>2. x * d = (m * n) * t
    <3>1. u * m \in Int /\ v * n \in Int /\ x \in Int
      BY <1>5
    <3>2. x * d = x * (u * m) + x * (v * n)
      BY <3>1, <1>4, <1>2
    <3>3. x * (u * m) = (n * k) * (u * m) /\ x * (v * n) = (m * j) * (v * n)
      BY <2>1
    <3>4. (n * k) * (u * m) = (m * n) * (u * k) /\ (m * j) * (v * n) = (m * n) * (v * j)
      BY <2>1
    <3>5. (m * n) * (u * k) + (m * n) * (v * j) = (m * n) * t
      <4>1. m * n \in Int /\ u * k \in Int /\ v * j \in Int
        BY <2>1
      <4> QED BY <4>1
    <3> QED BY <3>2, <3>3, <3>4, <3>5
  <2>3. t \in Int
    BY <2>1
  <2> HIDE DEF t
  <2>4. x = l * t
    <3>1. x * d = (l * t) * d
      BY <2>2, <2>3, <1>5, <1>2
    <3>2. l * t \in Int /\ x \in Int
      BY <2>3, <1>5
    <3> QED BY <3>1, <3>2, <1>2
  <2>5. t >= 1
    BY <2>3, <2>4, <1>7, <1>5
  <2>6. t <= 1
    <3> SUFFICES ASSUME t >= 2 PROVE FALSE
      BY <2>3
    <3>1. l * t >= l * 2
      BY <2>3, <1>5
    <3> QED BY <3>1, <2>4, <1>5, <1>7
  <2> QED BY <2>3, <2>4, <2>5, <2>6, <1>5
<1>11. l \in 1 .. l
  BY <1>5, <1>7
<1> QED BY <1>8, <1>9, <1>10, <1>11

-----------------------------------------------------------------------------
(* The tiles of a dimension.                                               *)

LEMMA CeilDivOrAllIs ==
    ASSUME NEW a \in Nat, NEW b \in Nat
    PROVE  /\ CeilDivOrAll(a, b) \in Nat
           /\ b > 0 => /\ a <= CeilDivOrAll(a, b) * b
                       /\ a > 0 => (CeilDivOrAll(a, b) - 1) * b < a /\ CeilDivOrAll(a, b) > 0
                       /\ a = 0 => CeilDivOrAll(a, b) = 0
           /\ b = 0 => CeilDivOrAll(a, b) = a
<1>1. CASE b = 0
  BY <1>1 DEF CeilDivOrAll
<1>2. CASE b > 0
  <2> DEFINE q == (a + b - 1) \div b
             r == (a + b - 1) % b
  <2>1. a + b - 1 \in Nat /\ b \in Positive
    BY <1>2 DEF Positive
  <2>2. q \in Nat /\ r \in 0 .. b - 1 /\ a + b - 1 = b * q + r
    BY <2>1, DivMod
  <2>3. CeilDivOrAll(a, b) = q
    BY <1>2 DEF CeilDivOrAll
  <2> HIDE DEF q, r
  <2>4. b * q = q * b /\ (q - 1) * b = q * b - b /\ q * b \in Nat
    BY <2>2
  <2>5. a > 0 => q # 0
    BY <2>2, <2>4
  <2>6. a = 0 => q = 0
    <3> SUFFICES ASSUME a = 0, q >= 1 PROVE FALSE
      BY <2>2
    <3>1. b * q >= b
      BY <1>2, <2>2
    <3> QED BY <3>1, <2>2
  <2> QED BY <1>2, <2>2, <2>3, <2>4, <2>5, <2>6
<1> QED BY <1>1, <1>2

\* The quotient is the only number with these bounds.
LEMMA CeilDivOrAllUnique ==
    ASSUME NEW a \in Nat \ {0}, NEW b \in Nat \ {0}, NEW q \in Nat, a <= q * b, (q - 1) * b < a
    PROVE  CeilDivOrAll(a, b) = q
<1> DEFINE c == CeilDivOrAll(a, b)
<1>1. c \in Nat /\ a <= c * b /\ (c - 1) * b < a
  BY CeilDivOrAllIs
<1> HIDE DEF c
<1>2. (c - 1) * b = c * b - b /\ (q - 1) * b = q * b - b
  BY <1>1
<1>3. ~(c < q)
  <2> SUFFICES ASSUME c < q PROVE FALSE
    OBVIOUS
  <2>1. c * b + b <= q * b
    BY <1>1, MulMonotone
  <2> QED BY <2>1, <1>1, <1>2
<1>4. ~(q < c)
  <2> SUFFICES ASSUME q < c PROVE FALSE
    OBVIOUS
  <2>1. q * b + b <= c * b
    BY <1>1, MulMonotone
  <2> QED BY <2>1, <1>1, <1>2
<1>5. c = q
  BY <1>1, <1>3, <1>4
<1> QED BY <1>5 DEF c

\* Only the last tile is a tail, in each dimension.
LEMMA TailIsLast ==
    ASSUME NEW n \in Nat \ {0}, NEW i \in 0 .. n - 1
    PROVE  IsMTail(i, n) /\ IsNTail(i, n) /\ IsKTail(i, n) <=> i = n - 1
<1>1. CASE i = n - 1
  <2>1. i - (n - 1) = 0 /\ n \in Positive
    BY <1>1 DEF Positive
  <2>2. 0 % n = 0
    OBVIOUS
  <2> QED BY <1>1, <2>1, <2>2 DEF IsMTail, IsNTail, IsKTail
<1>2. CASE i # n - 1
  BY <1>2 DEF IsNTail
<1> QED BY <1>1, <1>2

LEMMA SizeIsTilesAndTail ==
    ASSUME NEW size \in Nat, NEW tile \in Nat \ {0}, CeilDivOrAll(size, tile) > 0
    PROVE  /\ GetTailNum(size, tile) \in Nat
           /\ (CeilDivOrAll(size, tile) - 1) * tile + GetTailNum(size, tile) = size
<1> DEFINE n == CeilDivOrAll(size, tile)
           q == size \div tile
           r == size % tile
<1>1. size \in Nat \ {0}
  BY CeilDivOrAllIs
<1>2. tile \in Positive
  BY DEF Positive
<1>3. q \in Nat /\ r \in 0 .. tile - 1 /\ size = tile * q + r
  BY <1>2, DivMod
<1>4. tile * q = q * tile /\ (q - 1) * tile = q * tile - tile /\ (q + 1) * tile = q * tile + tile
  BY <1>3
<1>5. CASE r = 0
  <2>1. n = q
    <3>1. size <= q * tile /\ (q - 1) * tile < size
      BY <1>3, <1>4, <1>5
    <3> HIDE DEF q, r
    <3> QED BY <3>1, <1>1, <1>3, CeilDivOrAllUnique
  <2>2. GetTailNum(size, tile) = tile
    BY <1>5 DEF GetTailNum
  <2> HIDE DEF q, r, n
  <2> QED BY <2>1, <2>2, <1>3, <1>4, <1>5 DEF n
<1>6. CASE r # 0
  <2>1. n = q + 1
    <3>1. size <= (q + 1) * tile /\ ((q + 1) - 1) * tile < size /\ q + 1 \in Nat
      BY <1>3, <1>4, <1>6
    <3> HIDE DEF q, r
    <3> QED BY <3>1, <1>1, CeilDivOrAllUnique
  <2>2. GetTailNum(size, tile) = r
    BY <1>6 DEF GetTailNum
  <2> HIDE DEF q, r, n
  <2> QED BY <2>1, <2>2, <1>3, <1>4, <1>6 DEF n
<1> QED BY <1>5, <1>6

LEMMA TilesMakeUpSize ==
    ASSUME NEW size \in Nat, NEW tile \in Nat
    PROVE  TilesMakeUp(size, tile)
<1> DEFINE n == CeilDivOrAll(size, tile)
           Length(i) == IF IsMTail(i, n) /\ IsNTail(i, n) /\ IsKTail(i, n)
                        THEN GetTailNum(size, tile) ELSE tile
           Sum == CHOOSE f : f = [i \in 0 .. n |-> IF i = 0 THEN 0 ELSE f[i - 1] + Length(i - 1)]
<1>1. n \in Nat
  BY CeilDivOrAllIs
<1>2. SUFFICES ASSUME n > 0, tile > 0 PROVE Sum[n] = size
  BY Zenon DEF TilesMakeUp
<1>3. GetTailNum(size, tile) \in Nat /\ (n - 1) * tile + GetTailNum(size, tile) = size
  BY <1>1, <1>2, SizeIsTilesAndTail
<1> HIDE DEF n
<1>4. \A i \in 0 .. n - 1 : Length(i) = IF i = n - 1 THEN GetTailNum(size, tile) ELSE tile
  BY <1>1, <1>2, TailIsLast
<1> HIDE DEF Length
<1>5. Sum = [i \in 0 .. n |-> IF i = 0 THEN 0 ELSE Sum[i - 1] + Length(i - 1)]
  <2> DEFINE Step == [i \in 1 .. n |-> [s \in Nat |-> s + Length(i - 1)]]
  <2>1. \A i \in 1 .. n : Length(i - 1) \in Nat
    <3>1. \A i \in 1 .. n : i - 1 \in 0 .. n - 1
      BY <1>1
    <3> QED BY <3>1, <1>3, <1>4
  <2>2. Step \in [1 .. n -> [Nat -> Nat]]
    BY <2>1
  <2>3. \A i \in 1 .. n : \A s \in Nat : Step[i][s] = s + Length(i - 1)
    OBVIOUS
  <2> HIDE DEF Step
  <2>4. PICK f \in [0 .. n -> Nat] : f[0] = 0 /\ \A i \in 1 .. n : f[i] = Step[i][f[i - 1]]
    BY <1>1, <2>2, FunctionUpTo
  <2> DEFINE h == [i \in 0 .. n |-> IF i = 0 THEN 0 ELSE f[i - 1] + Length(i - 1)]
  <2>5. ASSUME NEW i \in 0 .. n PROVE f[i] = h[i]
    <3>1. CASE i = 0
      BY <3>1, <2>4
    <3>2. CASE i # 0
      <4>1. i \in 1 .. n /\ i - 1 \in 0 .. n
        BY <1>1, <3>2
      <4>2. f[i - 1] \in Nat
        BY <4>1, <2>4
      <4> QED BY <4>1, <4>2, <3>2, <2>3, <2>4
    <3> QED BY <3>1, <3>2
  <2>6. f = h
    <3>1. DOMAIN f = 0 .. n /\ DOMAIN h = 0 .. n /\ f = [i \in 0 .. n |-> f[i]] /\ h = [i \in 0 .. n |-> h[i]]
      OBVIOUS
    <3> QED BY <3>1, <2>5, Zenon
  <2> QED BY <2>6, Zenon
<1> HIDE DEF Sum
<1>6. \A i \in 0 .. n - 1 : Sum[i] = i * tile
  <2> DEFINE S == {i \in 0 .. n - 1 : Sum[i] = i * tile}
  <2>0. n - 1 \in Nat
    BY <1>1, <1>2
  <2>1. 0 \in S
    <3>1. 0 \in 0 .. n /\ 0 \in 0 .. n - 1
      BY <1>1, <2>0
    <3>2. Sum[0] = 0
      BY <1>5, <3>1
    <3>3. 0 * tile = 0
      OBVIOUS
    <3> QED BY <3>1, <3>2, <3>3
  <2>2. ASSUME NEW i \in 1 .. n - 1, i - 1 \in S PROVE i \in S
    <3>1. Sum[i] = Sum[i - 1] + Length(i - 1)
      BY <1>5, <1>1
    <3>2. i - 1 \in 0 .. n - 1 /\ i - 1 # n - 1
      BY <2>0
    <3>3. Length(i - 1) = tile
      BY <3>2, <1>4
    <3>4. (i - 1) * tile + tile = i * tile
      OBVIOUS
    <3> QED BY <2>2, <3>1, <3>3, <3>4
  <2>3. \A i \in 0 .. n - 1 : i \in S
    <3> HIDE DEF S
    <3> QED BY <2>0, <2>1, <2>2, InductionUpTo
  <2> QED BY <2>3
<1>7. Sum[n] = Sum[n - 1] + Length(n - 1)
  BY <1>1, <1>2, <1>5
<1>8. n - 1 \in 0 .. n - 1
  BY <1>1, <1>2
<1>9. Sum[n - 1] = (n - 1) * tile /\ Length(n - 1) = GetTailNum(size, tile)
  BY <1>4, <1>6, <1>8
<1> QED BY <1>3, <1>7, <1>9

-----------------------------------------------------------------------------
(* The grid of cores.                                                      *)

\* The cores share T tiles evenly: blocks of rounds tiles each, the fewest rounds there can be.
LEMMA FewestRounds ==
    ASSUME NEW T \in Nat \ {0}, NEW cores \in Nat \ {0}, cores <= T
    PROVE  LET r == CeilDivOrAll(T, cores)
               b == CeilDivOrAll(T, r)
           IN  /\ b \in Nat /\ b > 0 /\ b <= cores /\ r \in Nat
               /\ (b - 1) * r < T /\ T <= b * r
               /\ CeilDivOrAll(T, b) = r
<1> DEFINE r == CeilDivOrAll(T, cores)
           b == CeilDivOrAll(T, r)
<1>1. r \in Nat /\ r > 0 /\ T <= r * cores /\ (r - 1) * cores < T
  BY CeilDivOrAllIs
<1>2. b \in Nat /\ b > 0 /\ T <= b * r /\ (b - 1) * r < T
  BY <1>1, CeilDivOrAllIs
<1> HIDE DEF r, b
<1>3. r * cores = cores * r /\ (b - 1) * r = b * r - r /\ r * b = b * r /\ (r - 1) * b = r * b - b
      /\ (r - 1) * cores \in Int /\ b * r \in Int /\ cores * r \in Int
  BY <1>1, <1>2
<1>4. b <= cores
  <2> SUFFICES ASSUME cores < b PROVE FALSE
    BY <1>2
  <2>1. cores * r + r <= b * r
    BY <1>1, <1>2, MulMonotone
  <2> QED BY <2>1, <1>1, <1>2, <1>3
<1>5. (r - 1) * b < T
  <2>1. (r - 1) \in Nat
    BY <1>1
  <2>2. b * (r - 1) <= cores * (r - 1)
    BY <2>1, <1>2, <1>4, MulMonotone
  <2>3. b * (r - 1) = (r - 1) * b /\ cores * (r - 1) = (r - 1) * cores /\ (r - 1) * b \in Int
    BY <1>1, <1>2
  <2> QED BY <2>2, <2>3, <1>1, <1>3
<1>6. CeilDivOrAll(T, b) = r
  <2>1. b \in Nat \ {0} /\ T <= r * b
    BY <1>2, <1>3
  <2> QED BY <2>1, <1>1, <1>5, CeilDivOrAllUnique
<1> QED BY <1>1, <1>2, <1>4, <1>6 DEF r, b

LEMMA PerBlock ==
    ASSUME NEW cores \in Nat, NEW T \in Nat
    PROVE  GetPerBlockNum(cores, T, 1, 1) = CeilDivOrAll(T, cores)
<1>1. T * 1 * 1 = T
  OBVIOUS
<1> QED BY <1>1 DEF GetPerBlockNum

LEMMA GridOfLaunch ==
    ASSUME NEW p \in Plans, blocks = DoGetBlockNum(p)
    PROVE  GridIsTight(p)
<1> DEFINE T == TilesOf(p)
           C == p.cores
<1>1. C \in Nat \ {0}
  BY PlansAssumption
<1>2. T \in Nat
  <2>1. p.m \in Nat /\ p.n \in Nat /\ p.batch \in Nat /\ p.l1 \in Seq(Nat) /\ Len(p.l1) \in {3, 4}
    BY PlansAssumption
  <2>2. M(p.l1) \in Nat /\ N(p.l1) \in Nat
    BY <2>1 DEF M, N
  <2>3. CeilDivOrAll(p.m, M(p.l1)) \in Nat /\ CeilDivOrAll(p.n, N(p.l1)) \in Nat
    BY <2>1, <2>2, CeilDivOrAllIs
  <2>4. (IF p.batch = 0 THEN 1 ELSE p.batch) \in Nat
    BY <2>1
  <2>5. ASSUME NEW x \in Nat, NEW y \in Nat, NEW z \in Nat PROVE x * y * z \in Nat
    BY MulMonotone
  <2> QED BY <2>3, <2>4, <2>5 DEF TilesOf
<1>3. blocks = IF T < C THEN T ELSE CeilDivOrAll(T, CeilDivOrAll(T, C))
  BY DEF DoGetBlockNum
<1> HIDE DEF T, C
<1>4. CASE T >= C
  <2> DEFINE r == CeilDivOrAll(T, C)
  <2>1. T \in Nat \ {0} /\ C <= T
    BY <1>1, <1>2, <1>4
  <2>2. blocks = CeilDivOrAll(T, r)
    BY <1>1, <1>2, <1>3, <1>4
  <2>3. /\ blocks \in Nat /\ blocks > 0 /\ blocks <= C /\ r \in Nat
        /\ (blocks - 1) * r < T /\ T <= blocks * r
        /\ CeilDivOrAll(T, blocks) = r
    BY <1>1, <2>1, <2>2, FewestRounds
  <2>4. GetPerBlockNum(blocks, T, 1, 1) = r /\ GetPerBlockNum(C, T, 1, 1) = r
    BY <1>1, <1>2, <2>3, PerBlock
  <2> HIDE DEF r
  <2> QED BY <2>3, <2>4 DEF GridIsTight, T, C
<1>5. CASE T = 0
  <2>1. blocks = 0
    BY <1>1, <1>3, <1>5
  <2>2. CeilDivOrAll(T, C) = 0 /\ CeilDivOrAll(T, blocks) = 0
    BY <1>1, <1>2, <1>5, <2>1, CeilDivOrAllIs
  <2>3. GetPerBlockNum(blocks, T, 1, 1) = 0 /\ GetPerBlockNum(C, T, 1, 1) = 0
    BY <1>1, <1>2, <2>1, <2>2, PerBlock
  <2> QED BY <1>1, <2>1, <2>3 DEF GridIsTight, T, C
<1>6. CASE T < C /\ T # 0
  <2>1. blocks = T /\ T \in Nat \ {0}
    BY <1>2, <1>3, <1>6
  <2>2. CeilDivOrAll(T, T) = 1
    <3>1. T <= 1 * T /\ (1 - 1) * T < T
      BY <2>1
    <3> QED BY <2>1, <3>1, CeilDivOrAllUnique
  <2>3. CeilDivOrAll(T, C) = 1
    <3>1. T <= 1 * C /\ (1 - 1) * C < T
      BY <1>1, <1>6, <2>1
    <3> QED BY <1>1, <2>1, <3>1, CeilDivOrAllUnique
  <2>4. GetPerBlockNum(blocks, T, 1, 1) = 1 /\ GetPerBlockNum(C, T, 1, 1) = 1
    BY <1>1, <1>2, <2>1, <2>2, <2>3, PerBlock
  <2>5. (blocks - 1) * 1 < T /\ T <= blocks * 1 /\ blocks <= C
    BY <1>1, <1>6, <2>1
  <2> QED BY <2>4, <2>5 DEF GridIsTight, T, C
<1> QED BY <1>1, <1>2, <1>4, <1>5, <1>6

-----------------------------------------------------------------------------
(* What the host's checks and the kernel's assertions let through.         *)

\* The sizes of a plan's tiles.
LEMMA PlanFacts ==
    ASSUME NEW p \in Plans
    PROVE  /\ \A i \in 1 .. 3 : p.l1[i] \in Nat /\ p.l0[i] \in Nat
           /\ {M(p.l1), N(p.l1), K(p.l1), GetL1Kb(p.l1), M(p.l0), N(p.l0), K(p.l0)} \subseteq Nat
           /\ Len(p.l1) = 3 => GetL1Kb(p.l1) = K(p.l1)
           /\ p.m \in Nat /\ p.n \in Nat
<1>1. /\ p.l1 \in Seq(Nat) /\ Len(p.l1) \in {3, 4} /\ p.l0 \in Seq(Nat) /\ Len(p.l0) = 3
      /\ p.m \in Nat /\ p.n \in Nat
  BY PlansAssumption
<1>2. \A i \in 1 .. 3 : p.l1[i] \in Nat /\ p.l0[i] \in Nat
  BY <1>1
<1>3. GetL1Kb(p.l1) = IF Len(p.l1) = 4 THEN p.l1[4] ELSE p.l1[3]
  <2>1. \A n \in {3, 4} : n > 3 <=> n = 4
    OBVIOUS
  <2> QED BY <1>1, <2>1, Zenon DEF GetL1Kb, K
<1>4. Len(p.l1) = 4 => p.l1[4] \in Nat
  BY <1>1
<1>5. /\ M(p.l1) \in Nat /\ N(p.l1) \in Nat /\ K(p.l1) \in Nat
      /\ M(p.l0) \in Nat /\ N(p.l0) \in Nat /\ K(p.l0) \in Nat
  BY <1>2 DEF M, N, K
<1>6. GetL1Kb(p.l1) \in Nat /\ (Len(p.l1) = 3 => GetL1Kb(p.l1) = K(p.l1))
  BY <1>1, <1>3, <1>4, <1>5 DEF K
<1> QED BY <1>1, <1>2, <1>5, <1>6

\* What the host's first check has seen of a plan it lets through.
LEMMA ChecksSeen ==
    ASSUME NEW p \in Plans, DoCheckArgs(p) = "success"
    PROVE  /\ M(p.l1) <= MaxM /\ N(p.l1) <= MaxN
           /\ \A i \in 1 .. 3 : p.l1[i] % MATMUL_MNK_ALIGN = 0 /\ p.l0[i] % MATMUL_MNK_ALIGN = 0
           /\ M(p.l1) = M(p.l0) /\ N(p.l1) = N(p.l0)
           /\ K(p.l1) >= K(p.l0) /\ K(p.l1) % K(p.l0) = 0
<1>1. {M(p.l1), N(p.l1), K(p.l1), K(p.l0), MaxM, MaxN} \subseteq Nat
  BY PlanFacts, PlansAssumption
<1>2. /\ ~(M(p.l1) > MaxM) /\ ~(N(p.l1) > MaxN)
      /\ \A i \in 1 .. 3 : ~(p.l1[i] % MATMUL_MNK_ALIGN # 0 \/ p.l0[i] % MATMUL_MNK_ALIGN # 0)
      /\ M(p.l1) = M(p.l0) /\ N(p.l1) = N(p.l0)
      /\ ~(K(p.l1) < K(p.l0)) /\ K(p.l1) % K(p.l0) = 0
  BY Zenon DEF DoCheckArgs
<1> QED BY <1>1, <1>2

LEMMA ShapeValid ==
    ASSUME NEW p \in Plans, DoCheckArgs(p) = "success", Len(p.l1) = 3
    PROVE  IsTileShapeValid(p)
<1>1. GetL1Kb(p.l1) = K(p.l1)
  BY PlanFacts
<1>2. \A i \in 1 .. 3 : p.l1[i] % MATMUL_MNK_ALIGN = 0 /\ p.l0[i] % MATMUL_MNK_ALIGN = 0
  BY ChecksSeen
<1>3. \A x \in {M(p.l1), N(p.l1), M(p.l0), N(p.l0), K(p.l0), K(p.l1)} : x % MATMUL_MNK_ALIGN = 0
  BY <1>2 DEF M, N, K
<1>4. /\ M(p.l1) = M(p.l0) /\ N(p.l1) = N(p.l0)
      /\ K(p.l1) >= K(p.l0) /\ K(p.l1) % K(p.l0) = 0
  BY ChecksSeen
<1> QED BY <1>1, <1>3, <1>4 DEF IsTileShapeValid

LEMMA SizeOfIs == ASSUME NEW type PROVE SizeOf(type) \in {1, 2, 4} /\ SizeOf(Accumulator(type)) = 4
BY DEF SizeOf, Accumulator

LEMMA Products ==
    ASSUME NEW x \in Nat, NEW y \in Nat, NEW z \in Nat
    PROVE  /\ x * y * z \in Nat
           /\ x * y * z = y * x * z
           /\ x * y * z * 2 = 2 * x * y * z
           /\ x * y * 4 = 4 * x * y
BY SMT

\* What the builder's check has seen.
LEMMA BuilderSeen ==
    ASSUME NEW p, BuilderAccepts(p)
    PROVE  ~TilesExceedMemory(p)
BY Zenon DEF BuilderAccepts, CanImplement, QuantCanImplement, MxCanImplement

LEMMA MemoryValid ==
    ASSUME NEW p \in Plans, DoCheckArgs(p) = "success", BuilderAccepts(p)
    PROVE  /\ IsL0BufferValid(p)
           /\ Len(p.l1) = 3 => IsL1BufferValid(p)
           /\ 2 * M(p.l0) * K(p.l0) * SizeOf(p.a) <= L0A_SIZE
           /\ 2 * N(p.l0) * K(p.l0) * SizeOf(p.b) <= L0B_SIZE
           /\ 4 * M(p.l0) * N(p.l0) <= L0C_SIZE
<1> DEFINE A0 == M(p.l0) * K(p.l0) * SizeOf(p.a)
           B0 == N(p.l0) * K(p.l0) * SizeOf(p.b)
           A1 == M(p.l1) * K(p.l1) * SizeOf(p.a)
           B1 == N(p.l1) * K(p.l1) * SizeOf(p.b)
<1>1. {M(p.l1), N(p.l1), K(p.l1), M(p.l0), N(p.l0), K(p.l0), SizeOf(p.a), SizeOf(p.b)} \subseteq Nat
  BY PlanFacts, SizeOfIs
<1>2. {L1_SIZE, L0A_SIZE, L0B_SIZE, L0C_SIZE, MaxM, MaxN} \subseteq Nat /\ 4 * MaxM * MaxN <= L0C_SIZE
  BY PlansAssumption
<1>3. {A0, B0, A1, B1} \subseteq Nat
  BY <1>1, Products
<1>4. /\ A0 * 2 = 2 * M(p.l0) * K(p.l0) * SizeOf(p.a)
      /\ B0 * 2 = 2 * N(p.l0) * K(p.l0) * SizeOf(p.b)
      /\ K(p.l1) * N(p.l1) * SizeOf(p.b) = B1
  BY <1>1, Products
<1>5. ~(A0 * 2 > L0A_SIZE) /\ ~(B0 * 2 > L0B_SIZE) /\ ~((A1 + B1) * 2 > L1_SIZE)
  <2>1. /\ ~(A0 * DOUBLE_BUFFER_COUNT > L0A_SIZE) /\ ~(B0 * DOUBLE_BUFFER_COUNT > L0B_SIZE)
        /\ ~((A1 + K(p.l1) * N(p.l1) * SizeOf(p.b)) * DOUBLE_BUFFER_COUNT > L1_SIZE)
    BY BuilderSeen, Zenon DEF TilesExceedMemory
  <2> HIDE DEF A0, B0, A1, B1
  <2> QED BY <2>1, <1>4 DEF DOUBLE_BUFFER_COUNT
<1>6. 4 * M(p.l0) * N(p.l0) <= L0C_SIZE
  <2>1. M(p.l0) <= MaxM /\ N(p.l0) <= MaxN
    BY ChecksSeen
  <2> DEFINE m == M(p.l0)
             n == N(p.l0)
  <2>2. m \in Nat /\ n \in Nat /\ m <= MaxM /\ n <= MaxN /\ MaxM \in Nat /\ MaxN \in Nat
    BY <1>1, <1>2, <2>1
  <2> HIDE DEF m, n
  <2>3. m * n <= MaxM * n /\ n * MaxM <= MaxN * MaxM
    BY <2>2, MulMonotone
  <2>4. 4 * m * n = 4 * (m * n) /\ 4 * MaxM * MaxN = 4 * (MaxN * MaxM) /\ MaxM * n = n * MaxM
        /\ m * n \in Nat /\ MaxN * MaxM \in Nat /\ n * MaxM \in Nat
    BY <2>2
  <2>5. 4 * m * n <= L0C_SIZE
    BY <2>3, <2>4, <1>2
  <2> QED BY <2>5 DEF m, n
<1>7. M(p.l0) * N(p.l0) * SizeOf(Accumulator(p.a)) = 4 * M(p.l0) * N(p.l0)
  <2>1. SizeOf(Accumulator(p.a)) = 4
    BY SizeOfIs
  <2> QED BY <2>1, <1>1, Products
<1>8. IsL0BufferValid(p)
  <2>1. M(p.l0) * N(p.l0) * SizeOf(Accumulator(p.a)) <= L0C_SIZE
    BY <1>6, <1>7
  <2>2. A0 <= L0A_SIZE /\ B0 <= L0B_SIZE
    <3> HIDE DEF A0, B0
    <3> QED BY <1>2, <1>3, <1>5
  <2> QED BY <2>1, <2>2 DEF IsL0BufferValid
<1>9. Len(p.l1) = 3 => IsL1BufferValid(p)
  <2> SUFFICES ASSUME Len(p.l1) = 3 PROVE IsL1BufferValid(p)
    OBVIOUS
  <2>1. GetL1Kb(p.l1) = K(p.l1)
    BY PlanFacts
  <2>2. (A1 + B1) * 2 <= L1_SIZE
    <3> HIDE DEF A1, B1
    <3> QED BY <1>2, <1>3, <1>5
  <2> QED BY <2>1, <2>2 DEF IsL1BufferValid, DOUBLE_BUFFER_COUNT
<1>10. 2 * M(p.l0) * K(p.l0) * SizeOf(p.a) <= L0A_SIZE /\ 2 * N(p.l0) * K(p.l0) * SizeOf(p.b) <= L0B_SIZE
  <2>1. A0 * 2 <= L0A_SIZE /\ B0 * 2 <= L0B_SIZE
    <3> HIDE DEF A0, B0
    <3> QED BY <1>2, <1>3, <1>5
  <2> QED BY <2>1, <1>4
<1> QED BY <1>6, <1>8, <1>9, <1>10

LEMMA FitsDoubled ==
    ASSUME NEW p \in Plans, DoCheckArgs(p) = "success", BuilderAccepts(p), TilesSupported(p)
    PROVE  BuffersFit(p)
<1> DEFINE A1 == M(p.l1) * K(p.l1) * SizeOf(p.a)
           B1 == N(p.l1) * GetL1Kb(p.l1) * SizeOf(p.b)
<1>1. {M(p.l1), N(p.l1), K(p.l1), GetL1Kb(p.l1), SizeOf(p.a), SizeOf(p.b)} \subseteq Nat
  BY PlanFacts, SizeOfIs
<1>2. {A1, B1} \subseteq Nat
  BY <1>1, Products
<1>3. (A1 + B1) * 2 <= L1_SIZE
  BY DEF TilesSupported, IsL1BufferValid, DOUBLE_BUFFER_COUNT
<1>4. 2 * (A1 + B1) <= L1_SIZE
  <2> HIDE DEF A1, B1
  <2> QED BY <1>2, <1>3
<1> QED BY <1>4, MemoryValid DEF BuffersFit

-----------------------------------------------------------------------------
\* What each stage has seen of the plan.
PlanInv ==
    /\ stage \in {"start", "planned", "checked", "accepted", "launched", "refused", "trapped"}
    /\ stage # "start" => plan \in Plans
    /\ stage \in {"checked", "accepted", "launched"} => DoCheckArgs(plan) = "success"
    /\ stage \in {"accepted", "launched"} => BuilderAccepts(plan)
    /\ stage = "launched" => TilesSupported(plan) /\ blocks = DoGetBlockNum(plan)

LEMMA PlanInvariant == PlanSpec => []PlanInv
<1> USE DEF PlanInv
<1>1. PlanInit => PlanInv
  BY DEF PlanInit
<1>2. PlanInv /\ [PlanNext]_planVars => PlanInv'
  <2> SUFFICES ASSUME PlanInv, [PlanNext]_planVars PROVE PlanInv'
    OBVIOUS
  <2>1. CASE Plan
    BY <2>1 DEF Plan
  <2>2. CASE CheckArgs
    BY <2>2 DEF CheckArgs, Advance
  <2>3. CASE CheckArgsTraps
    BY <2>3 DEF CheckArgsTraps, Advance
  <2>4. CASE CheckBuilder
    BY <2>4 DEF CheckBuilder, Advance
  <2>5. CASE LaunchPlan
    BY <2>5 DEF LaunchPlan, Advance
  <2>6. CASE UNCHANGED planVars
    BY <2>6 DEF planVars
  <2> QED BY <2>1, <2>2, <2>3, <2>4, <2>5, <2>6 DEF PlanNext
<1> QED BY <1>1, <1>2, PTL DEF PlanSpec

\* What the host lets through is what the kernel's assertions accept, and what is launched fits the
\* device with every buffer doubled, on a grid without idle cores (builders' CanImplement,
\* static_asserts of each BlockMmad, DoGetBlockNum), whatever the sizes and the types.
THEOREM AcceptedTilesFit == PlanSpec => []AcceptedFits
<1>1. PlanInv => AcceptedFits
  <2> SUFFICES ASSUME PlanInv PROVE AcceptedFits
    OBVIOUS
  <2>1. ASSUME stage \in {"accepted", "launched"}, Len(plan.l1) = 3 PROVE TilesSupported(plan)
    <3>1. plan \in Plans /\ DoCheckArgs(plan) = "success" /\ BuilderAccepts(plan)
      BY <2>1 DEF PlanInv
    <3> QED BY <2>1, <3>1, ShapeValid, MemoryValid DEF TilesSupported
  <2>2. ASSUME stage = "launched"
        PROVE  /\ BuffersFit(plan)
               /\ GridIsTight(plan)
               /\ TilesMakeUp(plan.m, M(plan.l1)) /\ TilesMakeUp(plan.n, N(plan.l1))
               /\ LET m == CeilDivOrAll(plan.m, M(plan.l1)) n == CeilDivOrAll(plan.n, N(plan.l1))
                  IN  IsLeastCommonMultiple(MMLcm(m, n), m, n)
    <3>1. /\ plan \in Plans /\ DoCheckArgs(plan) = "success" /\ BuilderAccepts(plan)
          /\ TilesSupported(plan) /\ blocks = DoGetBlockNum(plan)
      BY <2>2 DEF PlanInv
    <3>2. plan.m \in Nat /\ plan.n \in Nat /\ M(plan.l1) \in Nat /\ N(plan.l1) \in Nat
      BY <3>1, PlanFacts
    <3>3. CeilDivOrAll(plan.m, M(plan.l1)) \in Nat /\ CeilDivOrAll(plan.n, N(plan.l1)) \in Nat
      BY <3>2, CeilDivOrAllIs
    <3>4. BuffersFit(plan) /\ GridIsTight(plan)
      BY <3>1, FitsDoubled, GridOfLaunch
    <3> QED BY <3>2, <3>3, <3>4, TilesMakeUpSize, MMLcmIsLeast
  <2> QED BY <2>1, <2>2, Zenon DEF AcceptedFits
<1> QED BY <1>1, PlanInvariant, PTL
==============================================================================
