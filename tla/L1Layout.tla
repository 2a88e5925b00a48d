------------------------------ MODULE L1Layout -------------------------------
(***************************************************************************)
(* Who puts what where in L1.  The cube core (AIC) lays out its buffers    *)
(* with two cursors, one per half of L1 (BlockMmad::InitBuf); the vector   *)
(* cores (AIV) compute the places of the weights and of the bias anew,     *)
(* with formulas of their own (BlockPrologue).  Nothing but arithmetic     *)
(* makes the two agree.  All sizes are in bytes.                           *)
(***************************************************************************)
EXTENDS Integers

CONSTANTS Half,   \* L1_BUFFER_HALF_SIZE
          Shapes  \* the shapes the host may choose: number of buffers, bias or not, sizes

Kinds == {"B", "BIAS", "A", "SCALEB", "SCALEA"}

\* The space a half needs for n buffers of a size, and where in it buffer b lies.
Space_OneBuffer(n, h, size) == IF n > h THEN size ELSE 0
Space(n, h, size) == IF n = 4 THEN 2 * size ELSE IF n > h THEN size ELSE 0
Slot(b, size) == IF b < 2 THEN 0 ELSE size
HalfOf(b) == IF b \in {0, 2} THEN 0 ELSE 1

\* The buffers of each kind; the scales always have two.
Count(s, kind) ==
    IF kind \in {"SCALEB", "SCALEA"} THEN 2
    ELSE IF kind = "BIAS" /\ ~s.hasBias THEN 0 ELSE s.bufNum
Need(s, kind, h) == Space(Count(s, kind), h, s.size[kind])
Fits(s) == \A h \in {0, 1} :
    Need(s, "B", h) + Need(s, "BIAS", h) + Need(s, "A", h) + Need(s, "SCALEB", h)
      + Need(s, "SCALEA", h) <= Half

\* The host tiling (not in the repository) must choose buffers that fit; that is all.
ASSUME LayoutAssumption ==
    /\ Half \in Nat
    /\ Shapes \subseteq [bufNum : {1, 2, 4}, hasBias : BOOLEAN, size : [Kinds -> Nat]]
    /\ \A s \in Shapes : Fits(s)

VARIABLES shape,  \* the parameters of this launch
          done,   \* kinds laid out so far
          part,   \* the two cursors: next free offset in each half
          at      \* where each buffer begins, once laid out
vars == <<shape, done, part, at>>

Buffers == 0 .. 3
NotYet == -1

Init ==
    /\ shape \in Shapes
    /\ done = {}
    /\ part = [h \in {0, 1} |-> h * Half]
    /\ at = [k \in Kinds |-> [b \in Buffers |-> NotYet]]

\* Lay out the buffers of one kind behind those of the kinds in "before".
LayOut(kind, before) ==
    /\ done = before
    /\ done' = done \cup {kind}
    /\ at' = [at EXCEPT ![kind] =
                [b \in Buffers |-> IF b < Count(shape, kind)
                                   THEN part[HalfOf(b)] + Slot(b, shape.size[kind]) ELSE NotYet]]
    /\ part' = [h \in {0, 1} |-> part[h] + Need(shape, kind, h)]
    /\ UNCHANGED shape

LayOutB      == LayOut("B", {})
LayOutBias   == LayOut("BIAS", {"B"})
LayOutA      == LayOut("A", {"B", "BIAS"})
LayOutScaleB == LayOut("SCALEB", {"B", "BIAS", "A"})
LayOutScaleA == LayOut("SCALEA", {"B", "BIAS", "A", "SCALEB"})

Next == LayOutB \/ LayOutBias \/ LayOutA \/ LayOutScaleB \/ LayOutScaleA
Spec == Init /\ [][Next]_vars

-----------------------------------------------------------------------------
(* Where the vector cores write.                                           *)
Larger(a, b) == IF a > b THEN a ELSE b

\* ProcessL1NK4Buffer with four buffers, ProcessL1NK otherwise.
AivWeight(s, b) ==
    IF s.bufNum = 4
    THEN HalfOf(b) * Larger(Half, 2 * s.size["B"] + s.size["A"]) + Slot(b, s.size["B"])
    ELSE HalfOf(b) * Half

\* CopyBiasVecOut2L1.
AivBias_OneWeight(s, b) ==
    HalfOf(b) * Half + s.size["B"] + Slot(b, s.size["BIAS"])
AivBias(s, b) ==
    HalfOf(b) * Half + (IF s.bufNum = 4 THEN 2 * s.size["B"] ELSE s.size["B"])
      + Slot(b, s.size["BIAS"])

-----------------------------------------------------------------------------
Begin(k, b) == at[k][b]
End(k, b)   == at[k][b] + shape.size[k]
LaidOut(k, b) == k \in done /\ b < Count(shape, k)

\* The AIVs write the weights and the bias of a buffer exactly where the AIC reads them.
CoresAgree ==
    \A b \in Buffers :
        /\ LaidOut("B", b) => Begin("B", b) = AivWeight(shape, b)
        /\ LaidOut("BIAS", b) => Begin("BIAS", b) = AivBias(shape, b)

\* No two buffers overlap, and none leaves its half of L1.
InsideHalf ==
    \A k \in Kinds, b \in Buffers : LaidOut(k, b) =>
        HalfOf(b) * Half <= Begin(k, b) /\ End(k, b) <= (HalfOf(b) + 1) * Half
NoOverlap ==
    \A k, l \in Kinds : \A b, c \in Buffers :
        (LaidOut(k, b) /\ LaidOut(l, c) /\ <<k, b>> # <<l, c>>) =>
            End(k, b) <= Begin(l, c) \/ End(l, c) <= Begin(k, b)
BuffersDisjoint == InsideHalf /\ NoOverlap
=============================================================================
