--------------------- MODULE WeightPrologueMatmul_proofs ---------------------
(***************************************************************************)
(* Proofs about the mixed matmul kernel, for every number of blocks, every *)
(* shape and tile and 1, 2 or 4 L1 buffers: the positions of the pipes     *)
(* stay within the work, no credit for an L1 buffer is lost or made, the   *)
(* destructors leave no flag set, no buffer is overwritten too early, and  *)
(* each block is written once, in order, and right.  FlagInv says what     *)
(* each flag counts: buffers pass between two pipes in rings, and a flag   *)
(* says of each buffer of a ring whether it is between its producer and    *)
(* its consumer.  LoadedInv and ResultInv say what the buffers then hold.  *)
(***************************************************************************)
EXTENDS WeightPrologueMatmul, FiniteSetTheorems, SequenceTheorems, NumberLemmas

\* The shapes and indices.
LEMMA CeilDivPositive ==
    ASSUME NEW a \in Positive, NEW b \in Positive
    PROVE  CeilDiv(a, b) \in Positive
<1>. DEFINE q == (a + b - 1) \div b
<1>1. q \in Nat /\ (a + b - 1) % b \in 0 .. b - 1 /\ a + b - 1 = b * q + ((a + b - 1) % b)
  BY DEF Positive
<1>2. q = 0 => b * q = 0
  BY DEF Positive
<1>3. q # 0
  BY <1>1, <1>2 DEF Positive
<1>. QED  BY <1>1, <1>3 DEF CeilDiv, Positive

LEMMA Shapes ==
    /\ NumBlocks \in Positive /\ KSize \in Positive /\ KL1Size \in Positive
    /\ KL0Size \in Positive /\ ScaleFactor \in Positive /\ UbRounds \in Positive
    /\ KL0Size <= KL1Size
    /\ KTiles \in Positive /\ NumTiles \in Positive
<1>1. /\ NumBlocks \in Positive /\ KSize \in Positive /\ KL1Size \in Positive
      /\ KL0Size \in Positive /\ ScaleFactor \in Positive /\ UbRounds \in Positive
      /\ KL0Size <= KL1Size
  BY ShapeAssumption DEF Positive
<1>2. KTiles \in Positive
  BY <1>1, CeilDivPositive DEF KTiles
<1>3. NumTiles \in Positive
  BY <1>1, <1>2 DEF NumTiles, Positive
<1>. QED  BY <1>1, <1>2, <1>3

\* Every tile of K is copied in at least one step.
LEMMA TileHasSteps ==
    ASSUME NEW t \in Nat
    PROVE  KOf(t) \in 0 .. KTiles - 1 /\ KL1Len(t) \in Positive /\ StepK(t) \in Positive
<1>1. KOf(t) \in 0 .. KTiles - 1
  BY Shapes, DivMod DEF KOf
<1>2. KL1Len(t) \in Positive
  <2>. DEFINE k == KOf(t)
              q == KTiles
  <2>1. (KTiles - 1) * KL1Size < KSize
    <3>. DEFINE r == (KSize + KL1Size - 1) % KL1Size
    <3>1. r \in 0 .. KL1Size - 1 /\ KSize + KL1Size - 1 = KL1Size * KTiles + r
      <4>1. KSize + KL1Size - 1 \in Nat
        BY Shapes DEF Positive
      <4>. QED  BY <4>1, Shapes, DivMod DEF KTiles, CeilDiv
    <3>2. (KTiles - 1) * KL1Size = KL1Size * KTiles - KL1Size /\ KL1Size * KTiles \in Nat
      BY Shapes DEF Positive
    <3>. QED  BY <3>1, <3>2, Shapes DEF Positive
  <2>2. k * KL1Size <= (KTiles - 1) * KL1Size /\ k * KL1Size \in Nat
    <3>. HIDE DEF k
    <3>. QED  BY <1>1, Shapes DEF k, Positive
  <2>. QED  BY <2>1, <2>2, Shapes DEF KL1Len, Positive
<1>. QED  BY <1>1, <1>2, Shapes, CeilDivPositive DEF StepK
-----------------------------------------------------------------------------
(* The places of the pipes, and the flags.                                 *)
CubePipes == {"MTE2", "MTE1", "M", "FIX"}
VectorPipes == {"MTE2", "V", "MTE3"}
Drainable == ({"AIC"} \X {"MTE2", "MTE1", "M"}) \cup (VectorPipes \X SubBlocks)

TilesOf(pipe) == IF pipe = "FIX" THEN NumBlocks ELSE NumTiles
StepsAt(pipe, t) == IF pipe = "FIX" THEN 1 ELSE IF pipe = "MTE2" THEN 2 ELSE StepK(t)

PlaceOK(pipe, place) ==
    /\ place.tile \in 0 .. TilesOf(pipe)
    /\ place.step \in 0 .. StepsAt(pipe, place.tile) - 1
    /\ place.tile = TilesOf(pipe) => place.step = 0

CubeInv == aic \in [CubePipes -> [tile : Nat, step : Nat]] /\ \A p \in CubePipes : PlaceOK(p, aic[p])
VectorInv ==
    /\ aiv \in [SubBlocks -> [VectorPipes -> Nat]]
    /\ \A v \in SubBlocks, p \in VectorPipes : aiv[v][p] <= NumPieces[v]
PlaceInv ==
    /\ bufNum \in BufNums
    /\ CubeInv
    /\ VectorInv
    /\ flag \in [Flags -> Nat]
    /\ DOMAIN mem = Locations
    /\ drained \subseteq Drainable
    /\ \A v \in SubBlocks : <<"MTE3", v>> \in drained => ~HasPiece(v, "MTE3")

LEMMA BufNumIs == ASSUME bufNum \in BufNums PROVE bufNum \in {1, 2, 4}
BY ShapeAssumption

LEMMA PieceCounts ==
    ASSUME bufNum \in BufNums, NEW v \in SubBlocks
    PROVE  Rounds \in Positive /\ NumPieces[v] \in Nat
<1>1. Rounds \in Positive
  BY Shapes DEF Rounds, Positive
<1>2. Cardinality({t \in 0 .. NumTiles - 1 : Serves(v, t)}) \in Nat
  <2>1. IsFiniteSet(0 .. NumTiles - 1)
    BY Shapes, FS_Interval DEF Positive
  <2>2. IsFiniteSet({t \in 0 .. NumTiles - 1 : Serves(v, t)})
    BY <2>1, FS_Subset
  <2>. QED  BY <2>2, FS_CardinalityType
<1>. QED  BY <1>1, <1>2 DEF NumPieces, Positive

LEMMA AdvanceKeepsPlace ==
    ASSUME CubeInv, NEW pipe \in CubePipes, AtTile(pipe) < TilesOf(pipe),
           NEW steps, steps = StepsAt(pipe, AtTile(pipe)), Advance(pipe, steps)
    PROVE  /\ CubeInv'
           /\ \A p \in CubePipes \ {pipe} : aic'[p] = aic[p]
           /\ aic'[pipe] = IF AtStep(pipe) + 1 < steps
                           THEN [tile |-> AtTile(pipe), step |-> AtStep(pipe) + 1]
                           ELSE [tile |-> AtTile(pipe) + 1, step |-> 0]
<1>. DEFINE place == aic[pipe]
            next == IF place.step + 1 < steps THEN [tile |-> place.tile, step |-> place.step + 1]
                    ELSE [tile |-> place.tile + 1, step |-> 0]
<1>1. place \in [tile : Nat, step : Nat] /\ PlaceOK(pipe, place)
  BY DEF CubeInv
<1>2. aic' = [aic EXCEPT ![pipe] = next]
  <2>1. [place EXCEPT !.step = @ + 1] = [tile |-> place.tile, step |-> place.step + 1]
    BY <1>1
  <2>. QED  BY <2>1 DEF Advance
<1>3. next \in [tile : Nat, step : Nat]
  BY <1>1
<1>4. /\ TilesOf(pipe) \in Nat
      /\ \A t \in Nat : StepsAt(pipe, t) \in Positive
  BY Shapes, TileHasSteps DEF TilesOf, StepsAt, Positive
<1>5. PlaceOK(pipe, next)
  BY <1>1, <1>4 DEF PlaceOK, AtTile, Positive
<1>. HIDE DEF next
<1>6. aic' \in [CubePipes -> [tile : Nat, step : Nat]] /\ aic'[pipe] = next
      /\ \A p \in CubePipes \ {pipe} : aic'[p] = aic[p]
  BY <1>2, <1>3 DEF CubeInv
<1>7. \A p \in CubePipes : PlaceOK(p, aic'[p])
  BY <1>5, <1>6 DEF CubeInv
<1>8. CubeInv'
  BY <1>6, <1>7 DEF CubeInv, PlaceOK, TilesOf, StepsAt, NumTiles, KTiles, StepK, KL1Len, KOf
<1>. QED  BY <1>6, <1>8 DEF next, AtTile, AtStep

LEMMA NextPieceKeepsPlace ==
    ASSUME VectorInv, bufNum \in BufNums, bufNum' = bufNum, NEW v \in SubBlocks, NEW pipe \in VectorPipes,
           HasPiece(v, pipe), NextPiece(v, pipe)
    PROVE  /\ VectorInv'
           /\ \A w \in SubBlocks, p \in VectorPipes :
                aiv'[w][p] = IF w = v /\ p = pipe THEN aiv[w][p] + 1 ELSE aiv[w][p]
<1>1. /\ aiv' \in [SubBlocks -> [VectorPipes -> Nat]]
      /\ \A w \in SubBlocks, p \in VectorPipes :
                aiv'[w][p] = IF w = v /\ p = pipe THEN aiv[w][p] + 1 ELSE aiv[w][p]
  BY DEF VectorInv, NextPiece
<1>2. NumPieces' = NumPieces
  BY DEF NumPieces, Rounds, Quad, Serves, L1Buf, NumTiles, KTiles
<1>3. aiv[v][pipe] + 1 <= NumPieces[v]
  BY PieceCounts DEF VectorInv, HasPiece, Piece
<1>. QED  BY <1>1, <1>2, <1>3 DEF VectorInv

LEMMA SyncCounts ==
    ASSUME flag \in [Flags -> Nat], NEW waits, NEW sets, Sync(waits, sets)
    PROVE  /\ flag' \in [Flags -> Nat]
           /\ \A f \in Flags : flag'[f] = flag[f] - (IF f \in waits THEN 1 ELSE 0)
                                                 + (IF f \in sets THEN 1 ELSE 0)
<1>1. \A f \in Flags : flag'[f] = flag[f] - (IF f \in waits THEN 1 ELSE 0)
                                         + (IF f \in sets THEN 1 ELSE 0)
  BY DEF Sync
<1>2. \A f \in Flags : flag[f] - (IF f \in waits THEN 1 ELSE 0)
                               + (IF f \in sets THEN 1 ELSE 0) \in Nat
  BY DEF Sync
<1>. QED  BY <1>1, <1>2 DEF Sync

\* What a step of a pipe of the cube core, of a pipe of a vector core, and of a destructor does to
\* the places and the flags.
Moves(pipe) ==
    /\ \A p \in CubePipes \ {pipe} : aic'[p] = aic[p]
    /\ aic'[pipe] = IF AtStep(pipe) + 1 < StepsAt(pipe, AtTile(pipe))
                    THEN [tile |-> AtTile(pipe), step |-> AtStep(pipe) + 1]
                    ELSE [tile |-> AtTile(pipe) + 1, step |-> 0]
Counts(waits, sets) ==
    /\ \A f \in waits : flag[f] > 0
    /\ \A f \in Flags : flag'[f] = flag[f] - (IF f \in waits THEN 1 ELSE 0)
                                           + (IF f \in sets THEN 1 ELSE 0)
Counted(v, pipe) ==
    \A w \in SubBlocks, p \in VectorPipes :
        aiv'[w][p] = IF w = v /\ p = pipe THEN aiv[w][p] + 1 ELSE aiv[w][p]

LEMMA CubeStep ==
    ASSUME PlaceInv, bufNum' = bufNum, NEW pipe \in CubePipes, AtTile(pipe) < TilesOf(pipe),
           NEW waits, NEW sets, Sync(waits, sets), Advance(pipe, StepsAt(pipe, AtTile(pipe))),
           DOMAIN mem' = Locations, UNCHANGED <<aiv, drained>>
    PROVE  PlaceInv' /\ Moves(pipe) /\ Counts(waits, sets)
<1>1. CubeInv' /\ Moves(pipe)
  BY AdvanceKeepsPlace DEF PlaceInv, Moves
<1>2. flag' \in [Flags -> Nat] /\ Counts(waits, sets)
  BY SyncCounts DEF PlaceInv, Counts, Sync
<1>3. VectorInv' /\ \A v \in SubBlocks : HasPiece(v, "MTE3")' = HasPiece(v, "MTE3")
  BY DEF PlaceInv, VectorInv, NumPieces, Rounds, Quad, Serves, L1Buf, NumTiles, KTiles,
         HasPiece, Piece
<1>. QED  BY <1>1, <1>2, <1>3 DEF PlaceInv

LEMMA VectorStep ==
    ASSUME PlaceInv, bufNum' = bufNum, NEW v \in SubBlocks, NEW pipe \in VectorPipes,
           HasPiece(v, pipe), NextPiece(v, pipe), NEW waits, NEW sets, Sync(waits, sets),
           DOMAIN mem' = Locations, UNCHANGED <<aic, drained>>
    PROVE  PlaceInv' /\ Counted(v, pipe) /\ Counts(waits, sets)
<1>1. VectorInv' /\ Counted(v, pipe)
  BY NextPieceKeepsPlace DEF PlaceInv, Counted
<1>2. flag' \in [Flags -> Nat] /\ Counts(waits, sets)
  BY SyncCounts DEF PlaceInv, Counts, Sync
<1>3. CubeInv'
  BY DEF PlaceInv, CubeInv, PlaceOK, TilesOf, StepsAt, NumTiles, KTiles, StepK, KL1Len, KOf
<1>4. \A w \in SubBlocks : <<"MTE3", w>> \in drained' => ~HasPiece(w, "MTE3")'
  <2>. SUFFICES ASSUME NEW w \in SubBlocks, <<"MTE3", w>> \in drained
                PROVE  ~HasPiece(w, "MTE3")'
    OBVIOUS
  <2>1. ~HasPiece(w, "MTE3")
    BY DEF PlaceInv
  <2>2. aiv'[w]["MTE3"] = aiv[w]["MTE3"]
    BY <1>1, <2>1 DEF Counted, VectorPipes
  <2>3. NumPieces' = NumPieces
    BY DEF NumPieces, Rounds, Quad, Serves, L1Buf, NumTiles, KTiles
  <2>. QED  BY <2>1, <2>2, <2>3 DEF HasPiece, Piece
<1>. QED  BY <1>1, <1>2, <1>3, <1>4 DEF PlaceInv

LEMMA DrainStep ==
    ASSUME PlaceInv, bufNum' = bufNum, NEW pipe \in Drainable,
           \A v \in SubBlocks : pipe = <<"MTE3", v>> => ~HasPiece(v, "MTE3"),
           flag' \in [Flags -> Nat], drained' = drained \cup {pipe}, UNCHANGED <<aic, aiv, mem>>
    PROVE  PlaceInv'
<1>1. CubeInv'
  BY DEF PlaceInv, CubeInv, PlaceOK, TilesOf, StepsAt, NumTiles, KTiles, StepK, KL1Len, KOf
<1>2. VectorInv' /\ \A v \in SubBlocks : HasPiece(v, "MTE3")' = HasPiece(v, "MTE3")
  BY DEF PlaceInv, VectorInv, NumPieces, Rounds, Quad, Serves, L1Buf, NumTiles, KTiles,
         HasPiece, Piece
<1>. QED  BY <1>1, <1>2 DEF PlaceInv

LEMMA PlaceInitially == Init => PlaceInv
<1>. SUFFICES ASSUME Init
              PROVE  PlaceInv
  OBVIOUS
<1>1. bufNum \in BufNums
  BY DEF Init
<1>2. CubeInv
  BY Shapes, TileHasSteps DEF Init, CubeInv, PlaceOK, CubePipes, TilesOf, StepsAt, Positive
<1>3. VectorInv
  BY <1>1, PieceCounts DEF Init, VectorInv, VectorPipes
<1>4. \A v \in SubBlocks : Credits[v] \in Nat
  <2>. SUFFICES ASSUME NEW v \in SubBlocks
                PROVE  Credits[v] \in Nat
    OBVIOUS
  <2>1. IsFiniteSet(0 .. bufNum - 1)
    BY <1>1, BufNumIs, FS_Interval
  <2>2. IsFiniteSet({b \in 0 .. bufNum - 1 : v \in Partners(b)})
    BY <2>1, FS_Subset
  <2>. QED  BY <2>2, FS_CardinalityType DEF Credits
<1>5. flag \in [Flags -> Nat]
  <2>1. \A f \in Flags : f[1] = "CUBE_FREE" => f[2] \in SubBlocks
    BY DEF Flags, AicFlags, AivFlags, CrossFlags
  <2>. QED  BY <1>4, <2>1 DEF Init
<1>. QED  BY <1>1, <1>2, <1>3, <1>5 DEF Init, PlaceInv
-----------------------------------------------------------------------------
(* Each action: its place, its flags, and the flags it leaves alone.       *)
Keeps(tags) == \A f \in Flags : f[1] \notin tags => flag'[f] = flag[f]
KeepsOther(v, tags) == \A f \in Flags : ~(f[1] \in tags /\ f[2] = v) => flag'[f] = flag[f]

LEMMA LoadAStep ==
    ASSUME PlaceInv, LoadA, bufNum' = bufNum
    PROVE  LET t == AtTile("MTE2") IN
           /\ PlaceInv' /\ Moves("MTE2")
           /\ t \in 0 .. NumTiles - 1 /\ AtStep("MTE2") = 0
           /\ Counts({<<"MTE1_MTE2", L1Buf(t)>>}
                       \cup When(OpensGroup(t), {<<"SCALEA_FREE", ScaleBuf(t)>>}), {})
           /\ Keeps({"MTE1_MTE2", "SCALEA_FREE"})
<1>. DEFINE t == AtTile("MTE2")
            waits == {<<"MTE1_MTE2", L1Buf(t)>>}
                       \cup When(OpensGroup(t), {<<"SCALEA_FREE", ScaleBuf(t)>>})
<1>1. /\ t < NumTiles /\ AtStep("MTE2") = 0 /\ Sync(waits, {}) /\ Advance("MTE2", 2)
      /\ DOMAIN mem' = Locations /\ UNCHANGED <<aiv, drained>>
  BY DEF LoadA, Running, AtTile, PlaceInv
<1>2. "MTE2" \in CubePipes /\ StepsAt("MTE2", t) = 2 /\ TilesOf("MTE2") = NumTiles
  BY DEF CubePipes, StepsAt, TilesOf
<1>3. t \in Nat
  BY DEF PlaceInv, CubeInv, AtTile, CubePipes
<1>. HIDE DEF t
<1>4. PlaceInv' /\ Moves("MTE2") /\ Counts(waits, {})
  BY <1>1, <1>2, CubeStep DEF t
<1>5. Keeps({"MTE1_MTE2", "SCALEA_FREE"})
  BY <1>4 DEF Keeps, Counts, When, PlaceInv
<1>. QED  BY <1>1, <1>3, <1>4, <1>5, Shapes DEF t, Positive

LEMMA LoadScaleBStep ==
    ASSUME PlaceInv, LoadScaleB, bufNum' = bufNum
    PROVE  LET t == AtTile("MTE2") IN
           /\ PlaceInv' /\ Moves("MTE2")
           /\ t \in 0 .. NumTiles - 1 /\ AtStep("MTE2") = 1
           /\ Counts(When(OpensGroup(t), {<<"SCALEB_FREE", ScaleBuf(t)>>}), {<<"MTE2_MTE1", 0>>})
           /\ Keeps({"MTE2_MTE1", "SCALEB_FREE"})
<1>. DEFINE t == AtTile("MTE2")
            waits == When(OpensGroup(t), {<<"SCALEB_FREE", ScaleBuf(t)>>})
            sets == {<<"MTE2_MTE1", 0>>}
<1>1. /\ t < NumTiles /\ AtStep("MTE2") = 1 /\ Sync(waits, sets) /\ Advance("MTE2", 2)
      /\ DOMAIN mem' = Locations /\ UNCHANGED <<aiv, drained>>
  BY DEF LoadScaleB, Running, AtTile, PlaceInv, Put
<1>2. "MTE2" \in CubePipes /\ StepsAt("MTE2", t) = 2 /\ TilesOf("MTE2") = NumTiles
  BY DEF CubePipes, StepsAt, TilesOf
<1>3. t \in Nat
  BY DEF PlaceInv, CubeInv, AtTile, CubePipes
<1>. HIDE DEF t
<1>4. PlaceInv' /\ Moves("MTE2") /\ Counts(waits, sets)
  BY <1>1, <1>2, CubeStep DEF t
<1>5. Keeps({"MTE2_MTE1", "SCALEB_FREE"})
  BY <1>4 DEF Keeps, Counts, When, PlaceInv
<1>. QED  BY <1>1, <1>3, <1>4, <1>5, Shapes DEF t, Positive

LEMMA CopyToL0Step ==
    ASSUME PlaceInv, CopyToL0, bufNum' = bufNum
    PROVE  LET t == AtTile("MTE1")
               i == AtStep("MTE1") IN
           /\ PlaceInv' /\ Moves("MTE1")
           /\ t \in 0 .. NumTiles - 1 /\ i \in 0 .. StepK(t) - 1
           /\ Counts({<<"M_MTE1", L0Buf(t, i)>>} \cup When(i = 0, TileReady(t)),
                     {<<"MTE1_M", L0Buf(t, i)>>} \cup When(i = StepK(t) - 1, TileReleased(t)))
           /\ Keeps({"M_MTE1", "VEC_READY", "MTE2_MTE1", "MTE1_M", "CUBE_FREE", "MTE1_MTE2",
                     "SCALEA_FREE", "SCALEB_FREE"})
<1>. DEFINE t == AtTile("MTE1")
            i == AtStep("MTE1")
            waits == {<<"M_MTE1", L0Buf(t, i)>>} \cup When(i = 0, TileReady(t))
            sets == {<<"MTE1_M", L0Buf(t, i)>>} \cup When(i = StepK(t) - 1, TileReleased(t))
<1>1. /\ t < NumTiles /\ Sync(waits, sets) /\ Advance("MTE1", StepK(t))
      /\ DOMAIN mem' = Locations /\ UNCHANGED <<aiv, drained>>
  BY DEF CopyToL0, Running, AtTile, PlaceInv, Put
<1>2. "MTE1" \in CubePipes /\ StepsAt("MTE1", t) = StepK(t) /\ TilesOf("MTE1") = NumTiles
  BY DEF CubePipes, StepsAt, TilesOf
<1>3. t \in Nat /\ i \in 0 .. StepK(t) - 1
  BY <1>2 DEF PlaceInv, CubeInv, AtTile, AtStep, CubePipes, PlaceOK
<1>. HIDE DEF t, i
<1>4. PlaceInv' /\ Moves("MTE1") /\ Counts(waits, sets)
  BY <1>1, <1>2, CubeStep DEF t
<1>5. Keeps({"M_MTE1", "VEC_READY", "MTE2_MTE1", "MTE1_M", "CUBE_FREE", "MTE1_MTE2",
             "SCALEA_FREE", "SCALEB_FREE"})
  BY <1>4 DEF Keeps, Counts, When, TileReady, TileReleased, CubeFree, VecReady, PlaceInv
<1>. QED  BY <1>1, <1>3, <1>4, <1>5, Shapes DEF t, i, Positive

LEMMA MmadStep ==
    ASSUME PlaceInv, Mmad, bufNum' = bufNum
    PROVE  LET t == AtTile("M")
               i == AtStep("M") IN
           /\ PlaceInv' /\ Moves("M")
           /\ t \in 0 .. NumTiles - 1 /\ i \in 0 .. StepK(t) - 1
           /\ Counts({<<"MTE1_M", L0Buf(t, i)>>}
                       \cup When(KFractal(t, i) = 0, {<<"FIX_M", CHalf(BlockOf(t))>>}),
                     {<<"M_MTE1", L0Buf(t, i)>>}
                       \cup When(KOf(t) = KTiles - 1 /\ i = StepK(t) - 1, {<<"M_FIX", 0>>}))
           /\ Keeps({"MTE1_M", "FIX_M", "M_MTE1", "M_FIX"})
<1>. DEFINE t == AtTile("M")
            i == AtStep("M")
            waits == {<<"MTE1_M", L0Buf(t, i)>>}
                       \cup When(KFractal(t, i) = 0, {<<"FIX_M", CHalf(BlockOf(t))>>})
            sets == {<<"M_MTE1", L0Buf(t, i)>>}
                       \cup When(KOf(t) = KTiles - 1 /\ i = StepK(t) - 1, {<<"M_FIX", 0>>})
<1>1. /\ t < NumTiles /\ Sync(waits, sets) /\ Advance("M", StepK(t))
      /\ DOMAIN mem' = Locations /\ UNCHANGED <<aiv, drained>>
  BY DEF Mmad, Running, AtTile, PlaceInv, Put
<1>2. "M" \in CubePipes /\ StepsAt("M", t) = StepK(t) /\ TilesOf("M") = NumTiles
  BY DEF CubePipes, StepsAt, TilesOf
<1>3. t \in Nat /\ i \in 0 .. StepK(t) - 1
  BY <1>2 DEF PlaceInv, CubeInv, AtTile, AtStep, CubePipes, PlaceOK
<1>. HIDE DEF t, i
<1>4. PlaceInv' /\ Moves("M") /\ Counts(waits, sets)
  BY <1>1, <1>2, CubeStep DEF t
<1>5. Keeps({"MTE1_M", "FIX_M", "M_MTE1", "M_FIX"})
  BY <1>4 DEF Keeps, Counts, When, PlaceInv
<1>. QED  BY <1>1, <1>3, <1>4, <1>5, Shapes DEF t, i, Positive

LEMMA GetTensorCStep ==
    ASSUME PlaceInv, GetTensorC, bufNum' = bufNum
    PROVE  LET b == AtTile("FIX") IN
           /\ PlaceInv' /\ Moves("FIX")
           /\ b \in 0 .. NumBlocks - 1 /\ AtStep("FIX") = 0
           /\ Counts({<<"M_FIX", 0>>}, {<<"FIX_M", CHalf(b)>>})
           /\ Keeps({"M_FIX", "FIX_M"})
<1>. DEFINE b == AtTile("FIX")
            waits == {<<"M_FIX", 0>>}
            sets == {<<"FIX_M", CHalf(b)>>}
<1>1. /\ b < NumBlocks /\ Sync(waits, sets) /\ Advance("FIX", 1)
      /\ DOMAIN mem' = Locations /\ UNCHANGED <<aiv, drained>>
  BY DEF GetTensorC, PlaceInv
<1>2. "FIX" \in CubePipes /\ StepsAt("FIX", b) = 1 /\ TilesOf("FIX") = NumBlocks
  BY DEF CubePipes, StepsAt, TilesOf
<1>3. b \in Nat /\ AtStep("FIX") = 0
  BY <1>2 DEF PlaceInv, CubeInv, AtTile, AtStep, CubePipes, PlaceOK
<1>. HIDE DEF b
<1>4. PlaceInv' /\ Moves("FIX") /\ Counts(waits, sets)
  BY <1>1, <1>2, CubeStep DEF b
<1>5. Keeps({"M_FIX", "FIX_M"})
  BY <1>4 DEF Keeps, Counts, PlaceInv
<1>. QED  BY <1>1, <1>3, <1>4, <1>5, Shapes DEF b, Positive

LEMMA CopyInWeightStep ==
    ASSUME PlaceInv, NEW v \in SubBlocks, CopyInWeight(v), bufNum' = bufNum
    PROVE  LET j == Piece(v, "MTE2") IN
           /\ PlaceInv' /\ Counted(v, "MTE2")
           /\ j \in 0 .. NumPieces[v] - 1
           /\ Counts(When(j >= bufNum, {<<"V_MTE2", v, UbBuf(j)>>}), {<<"MTE2_V", v, UbBuf(j)>>})
           /\ KeepsOther(v, {"V_MTE2", "MTE2_V"})
<1>. DEFINE j == Piece(v, "MTE2")
            waits == When(j >= bufNum, {<<"V_MTE2", v, UbBuf(j)>>})
            sets == {<<"MTE2_V", v, UbBuf(j)>>}
<1>1. /\ HasPiece(v, "MTE2") /\ Sync(waits, sets) /\ NextPiece(v, "MTE2")
      /\ DOMAIN mem' = Locations /\ UNCHANGED <<aic, drained>>
  BY DEF CopyInWeight, PlaceInv, Put
<1>2. "MTE2" \in VectorPipes
  BY DEF VectorPipes
<1>3. j \in 0 .. NumPieces[v] - 1
  BY <1>1, <1>2, PieceCounts DEF PlaceInv, VectorInv, Piece, HasPiece
<1>. HIDE DEF j
<1>4. PlaceInv' /\ Counted(v, "MTE2") /\ Counts(waits, sets)
  BY <1>1, <1>2, VectorStep
<1>5. KeepsOther(v, {"V_MTE2", "MTE2_V"})
  BY <1>4 DEF KeepsOther, Counts, When, PlaceInv
<1>. QED  BY <1>3, <1>4, <1>5 DEF j

LEMMA AntiQuantComputeStep ==
    ASSUME PlaceInv, NEW v \in SubBlocks, AntiQuantCompute(v), bufNum' = bufNum
    PROVE  LET j == Piece(v, "V") IN
           /\ PlaceInv' /\ Counted(v, "V")
           /\ j \in 0 .. NumPieces[v] - 1
           /\ Counts({<<"MTE2_V", v, UbBuf(j)>>} \cup When(j >= bufNum, {<<"MTE3_V", v, UbBuf(j)>>}),
                     {<<"V_MTE3", v, UbBuf(j)>>, <<"V_MTE2", v, UbBuf(j)>>})
           /\ KeepsOther(v, {"MTE2_V", "MTE3_V", "V_MTE3", "V_MTE2"})
<1>. DEFINE j == Piece(v, "V")
            waits == {<<"MTE2_V", v, UbBuf(j)>>} \cup When(j >= bufNum, {<<"MTE3_V", v, UbBuf(j)>>})
            sets == {<<"V_MTE3", v, UbBuf(j)>>, <<"V_MTE2", v, UbBuf(j)>>}
<1>1. /\ HasPiece(v, "V") /\ Sync(waits, sets) /\ NextPiece(v, "V")
      /\ DOMAIN mem' = Locations /\ UNCHANGED <<aic, drained>>
  BY DEF AntiQuantCompute, PlaceInv, Put
<1>2. "V" \in VectorPipes
  BY DEF VectorPipes
<1>3. j \in 0 .. NumPieces[v] - 1
  BY <1>1, <1>2, PieceCounts DEF PlaceInv, VectorInv, Piece, HasPiece
<1>. HIDE DEF j
<1>4. PlaceInv' /\ Counted(v, "V") /\ Counts(waits, sets)
  BY <1>1, <1>2, VectorStep
<1>5. KeepsOther(v, {"MTE2_V", "MTE3_V", "V_MTE3", "V_MTE2"})
  BY <1>4 DEF KeepsOther, Counts, When, PlaceInv
<1>. QED  BY <1>3, <1>4, <1>5 DEF j

LEMMA CopyOutWeightStep ==
    ASSUME PlaceInv, NEW v \in SubBlocks, CopyOutWeight(v), bufNum' = bufNum
    PROVE  LET j == Piece(v, "MTE3") IN
           /\ PlaceInv' /\ Counted(v, "MTE3")
           /\ j \in 0 .. NumPieces[v] - 1
           /\ Counts({<<"V_MTE3", v, UbBuf(j)>>} \cup When(Round(j) = 0, {CubeFree(v)}),
                     {<<"MTE3_V", v, UbBuf(j)>>} \cup When(Round(j) = Rounds - 1, {VecReady(v)}))
           /\ KeepsOther(v, {"V_MTE3", "MTE3_V", "CUBE_FREE", "VEC_READY"})
<1>. DEFINE j == Piece(v, "MTE3")
            waits == {<<"V_MTE3", v, UbBuf(j)>>} \cup When(Round(j) = 0, {CubeFree(v)})
            sets == {<<"MTE3_V", v, UbBuf(j)>>} \cup When(Round(j) = Rounds - 1, {VecReady(v)})
<1>1. /\ HasPiece(v, "MTE3") /\ Sync(waits, sets) /\ NextPiece(v, "MTE3")
      /\ DOMAIN mem' = Locations /\ UNCHANGED <<aic, drained>>
  BY DEF CopyOutWeight, PlaceInv, CopyVecOut2L1
<1>2. "MTE3" \in VectorPipes
  BY DEF VectorPipes
<1>3. j \in 0 .. NumPieces[v] - 1
  BY <1>1, <1>2, PieceCounts DEF PlaceInv, VectorInv, Piece, HasPiece
<1>. HIDE DEF j
<1>4. PlaceInv' /\ Counted(v, "MTE3") /\ Counts(waits, sets)
  BY <1>1, <1>2, VectorStep
<1>5. KeepsOther(v, {"V_MTE3", "MTE3_V", "CUBE_FREE", "VEC_READY"})
  BY <1>4 DEF KeepsOther, Counts, When, CubeFree, VecReady, PlaceInv
<1>. QED  BY <1>3, <1>4, <1>5 DEF j

\* A pipe that is through its destructor.
LEMMA DrainPipe ==
    ASSUME PlaceInv, NEW pipe \in Drainable, \A v \in SubBlocks : pipe # <<"MTE3", v>>,
           NEW ready, NEW waits, Drain(pipe, ready, waits), bufNum' = bufNum
    PROVE  /\ PlaceInv' /\ pipe \notin drained /\ ready /\ drained' = drained \cup {pipe}
           /\ UNCHANGED <<aic, aiv>>
           /\ Counts(waits, {})
<1>1. flag' \in [Flags -> Nat] /\ Counts(waits, {})
  BY SyncCounts DEF PlaceInv, Counts, Sync, Drain
<1>2. PlaceInv'
  BY <1>1, DrainStep DEF Drain
<1>. QED  BY <1>1, <1>2 DEF Drain

LEMMA DrainCreditsStep ==
    ASSUME PlaceInv, NEW v \in SubBlocks, DrainCredits(v), bufNum' = bufNum
    PROVE  /\ PlaceInv' /\ <<"MTE3", v>> \notin drained
           /\ Piece(v, "MTE3") = NumPieces[v]
           /\ drained' = drained \cup {<<"MTE3", v>>}
           /\ UNCHANGED <<aic, aiv>>
           /\ FinalWaits(v) \in Nat
           /\ flag'[CubeFree(v)] = flag[CubeFree(v)] - FinalWaits(v)
           /\ KeepsOther(v, {"CUBE_FREE"})
<1>1. FinalWaits(v) \in Nat
  BY DEF FinalWaits
<1>2. CubeFree(v) \in Flags
  BY DEF CubeFree, Flags, CrossFlags
<1>3. /\ flag' \in [Flags -> Nat]
      /\ flag'[CubeFree(v)] = flag[CubeFree(v)] - FinalWaits(v)
      /\ \A f \in Flags \ {CubeFree(v)} : flag'[f] = flag[f]
  BY <1>1, <1>2 DEF DrainCredits, PlaceInv
<1>4. KeepsOther(v, {"CUBE_FREE"})
  <2>. SUFFICES ASSUME NEW f \in Flags, ~(f[1] = "CUBE_FREE" /\ f[2] = v)
                PROVE  f # CubeFree(v)
    BY <1>3 DEF KeepsOther
  <2>. QED  BY DEF CubeFree
<1>5. /\ <<"MTE3", v>> \in Drainable /\ ~HasPiece(v, "MTE3") /\ <<"MTE3", v>> \notin drained
      /\ drained' = drained \cup {<<"MTE3", v>>} /\ UNCHANGED <<aic, aiv, mem>>
  BY DEF DrainCredits, Drainable, VectorPipes
<1>6. PlaceInv'
  <2>1. \A w \in SubBlocks : <<"MTE3", v>> = <<"MTE3", w>> => ~HasPiece(w, "MTE3")
    BY <1>5
  <2>. QED  BY <1>3, <1>5, <2>1, DrainStep
<1>7. Piece(v, "MTE3") = NumPieces[v]
  BY <1>5, PieceCounts DEF PlaceInv, VectorInv, HasPiece, Piece, VectorPipes
<1>. QED  BY <1>1, <1>3, <1>4, <1>5, <1>6, <1>7
-----------------------------------------------------------------------------
(* The credits.                                                            *)
CreditInv == PlaceInv /\ CreditsConserved

\* The place of MTE1 in a tile, and what it makes of Reading.
LEMMA ReadingIs ==
    ASSUME PlaceInv, NEW v \in SubBlocks
    PROVE  Reading(v) = IF AtStep("MTE1") > 0 /\ v \in Partners(L1Buf(AtTile("MTE1"))) THEN 1 ELSE 0
BY Shapes DEF Reading, Running, PlaceInv, CubeInv, PlaceOK, TilesOf, CubePipes, AtStep, AtTile, Positive

\* A step that leaves the credits, MTE1 and the MTE3 pipes alone conserves them.
LEMMA CreditsUntouched ==
    ASSUME CreditInv, PlaceInv', bufNum' = bufNum, aic'["MTE1"] = aic["MTE1"],
           \A v \in SubBlocks : aiv'[v]["MTE3"] = aiv[v]["MTE3"],
           \A v \in SubBlocks : <<"MTE3", v>> \in drained' <=> <<"MTE3", v>> \in drained,
           \A v \in SubBlocks : flag'[CubeFree(v)] = flag[CubeFree(v)]
                                /\ flag'[VecReady(v)] = flag[VecReady(v)]
    PROVE  CreditInv'
<1>. SUFFICES ASSUME NEW v \in SubBlocks
              PROVE  /\ flag'[CubeFree(v)] + flag'[VecReady(v)] + Filling(v)' + Reading(v)'
                          + TakenBack(v)' = Credits[v]
                     /\ Credits[v] = Credits'[v]
  BY DEF CreditInv, CreditsConserved, CubeFree, VecReady
<1>1. Filling(v)' = Filling(v) /\ TakenBack(v)' = TakenBack(v) /\ Credits'[v] = Credits[v]
  BY DEF Filling, Round, Rounds, Quad, Piece, TakenBack, FinalWaits, Credits, Partners
<1>2. Reading(v)' = Reading(v)
  BY DEF Reading, Running, AtTile, AtStep, NumTiles, KTiles, Partners, Quad, L1Buf
<1>. QED  BY <1>1, <1>2 DEF CreditInv, CreditsConserved

LEMMA CreditFlags == \A v \in SubBlocks : CubeFree(v) \in Flags /\ VecReady(v) \in Flags
BY DEF CubeFree, VecReady, Flags, CrossFlags

LEMMA CreditsByTheCube ==
    ASSUME CreditInv, CopyToL0, bufNum' = bufNum
    PROVE  CreditInv'
<1>. DEFINE t == AtTile("MTE1")
            i == AtStep("MTE1")
<1>1. /\ PlaceInv' /\ Moves("MTE1") /\ PlaceInv
      /\ t \in 0 .. NumTiles - 1 /\ i \in 0 .. StepK(t) - 1
      /\ Counts({<<"M_MTE1", L0Buf(t, i)>>} \cup When(i = 0, TileReady(t)),
                {<<"MTE1_M", L0Buf(t, i)>>} \cup When(i = StepK(t) - 1, TileReleased(t)))
  BY CopyToL0Step DEF CreditInv
<1>2. UNCHANGED <<aiv, drained>>
  BY DEF CopyToL0
<1>. SUFFICES ASSUME NEW v \in SubBlocks
              PROVE  /\ flag'[CubeFree(v)] + flag'[VecReady(v)] + Filling(v)' + Reading(v)'
                          + TakenBack(v)' = Credits[v]
                     /\ Credits[v] = Credits'[v]
  BY <1>1 DEF CreditInv, CreditsConserved, CubeFree, VecReady
<1>. DEFINE mine == v \in Partners(L1Buf(t))
<1>3. Filling(v)' = Filling(v) /\ TakenBack(v)' = TakenBack(v) /\ Credits'[v] = Credits[v]
  BY <1>2 DEF Filling, Round, Rounds, Quad, Piece, TakenBack, FinalWaits, Credits, Partners
<1>4. /\ flag'[VecReady(v)] = flag[VecReady(v)] - (IF i = 0 /\ mine THEN 1 ELSE 0)
      /\ flag'[CubeFree(v)] = flag[CubeFree(v)] + (IF i = StepK(t) - 1 /\ mine THEN 1 ELSE 0)
      /\ flag[VecReady(v)] \in Nat /\ flag[CubeFree(v)] \in Nat
  <2>. HIDE DEF t, i
  <2>1. /\ VecReady(v) \in {<<"M_MTE1", L0Buf(t, i)>>} \cup When(i = 0, TileReady(t)) <=> i = 0 /\ mine
        /\ VecReady(v) \notin {<<"MTE1_M", L0Buf(t, i)>>} \cup When(i = StepK(t) - 1, TileReleased(t))
    BY DEF When, TileReady, TileReleased, CubeFree, VecReady
  <2>2. /\ CubeFree(v) \notin {<<"M_MTE1", L0Buf(t, i)>>} \cup When(i = 0, TileReady(t))
        /\ CubeFree(v) \in {<<"MTE1_M", L0Buf(t, i)>>} \cup When(i = StepK(t) - 1, TileReleased(t))
             <=> i = StepK(t) - 1 /\ mine
    BY DEF When, TileReady, TileReleased, CubeFree, VecReady
  <2>3. flag[VecReady(v)] \in Nat /\ flag[CubeFree(v)] \in Nat
    BY <1>1, CreditFlags DEF PlaceInv
  <2>. QED  BY <1>1, <2>1, <2>2, <2>3, CreditFlags DEF Counts
<1>5. Reading(v) = IF i > 0 /\ mine THEN 1 ELSE 0
  BY <1>1, ReadingIs
<1>6. Reading(v)' = IF i + 1 < StepK(t) /\ mine THEN 1 ELSE 0
  <2>1. Reading(v)' = IF AtStep("MTE1")' > 0 /\ v \in Partners(L1Buf(AtTile("MTE1")))'
                      THEN 1 ELSE 0
    <3>1. /\ aic'["MTE1"].tile \in 0 .. NumTiles
          /\ aic'["MTE1"].tile = NumTiles => aic'["MTE1"].step = 0
      BY <1>1 DEF PlaceInv, CubeInv, PlaceOK, TilesOf, CubePipes, NumTiles, KTiles
    <3>. QED  BY <3>1, Shapes DEF Reading, Running, AtStep, AtTile, NumTiles, KTiles, Positive
  <2>2. CASE i + 1 < StepK(t)
    <3>1. aic'["MTE1"] = [tile |-> t, step |-> i + 1]
      BY <1>1, <2>2 DEF Moves, StepsAt
    <3>2. AtStep("MTE1")' = i + 1 /\ i + 1 > 0 /\ AtTile("MTE1")' = t
      BY <1>1, <3>1 DEF AtStep, AtTile
    <3>3. Partners(L1Buf(AtTile("MTE1")))' = Partners(L1Buf(t))
      BY <3>1 DEF Partners, Quad, L1Buf, AtTile
    <3>. HIDE DEF t, i
    <3>. QED  BY <2>1, <2>2, <3>2, <3>3
  <2>3. CASE ~(i + 1 < StepK(t))
    <3>1. aic'["MTE1"] = [tile |-> t + 1, step |-> 0]
      BY <1>1, <2>3 DEF Moves, StepsAt
    <3>. QED  BY <2>1, <2>3, <3>1 DEF AtStep
  <2>. QED  BY <2>2, <2>3
<1>7. flag[CubeFree(v)] + flag[VecReady(v)] + Filling(v) + Reading(v) + TakenBack(v) = Credits[v]
  BY DEF CreditInv, CreditsConserved
<1>8. Filling(v) \in Nat /\ TakenBack(v) \in Nat /\ StepK(t) \in Positive
  BY <1>1, TileHasSteps DEF Filling, TakenBack, FinalWaits
<1>. HIDE DEF t, i, mine
<1>. QED  BY <1>1, <1>3, <1>4, <1>5, <1>6, <1>7, <1>8 DEF Positive

LEMMA CreditsByAVectorCore ==
    ASSUME CreditInv, NEW w \in SubBlocks, CopyOutWeight(w), bufNum' = bufNum
    PROVE  CreditInv'
<1>. DEFINE j == Piece(w, "MTE3")
            waits == {<<"V_MTE3", w, UbBuf(j)>>} \cup When(Round(j) = 0, {CubeFree(w)})
            sets == {<<"MTE3_V", w, UbBuf(j)>>} \cup When(Round(j) = Rounds - 1, {VecReady(w)})
<1>1. /\ PlaceInv' /\ Counted(w, "MTE3") /\ PlaceInv /\ j \in 0 .. NumPieces[w] - 1
      /\ Counts(waits, sets)
  BY CopyOutWeightStep DEF CreditInv
<1>2. UNCHANGED <<aic, drained>> /\ Rounds \in Positive /\ j \in Nat
  BY <1>1, PieceCounts DEF CopyOutWeight, PlaceInv
<1>. SUFFICES ASSUME NEW v \in SubBlocks
              PROVE  /\ flag'[CubeFree(v)] + flag'[VecReady(v)] + Filling(v)' + Reading(v)'
                          + TakenBack(v)' = Credits[v]
                     /\ Credits[v] = Credits'[v]
  BY <1>1 DEF CreditInv, CreditsConserved, CubeFree, VecReady
<1>3. Reading(v)' = Reading(v) /\ TakenBack(v)' = TakenBack(v) /\ Credits'[v] = Credits[v]
  BY <1>2 DEF Reading, Running, AtTile, AtStep, NumTiles, KTiles, Partners, Quad, L1Buf,
              TakenBack, FinalWaits, Credits
<1>4. /\ flag'[CubeFree(v)] = flag[CubeFree(v)] - (IF v = w /\ Round(j) = 0 THEN 1 ELSE 0)
      /\ flag'[VecReady(v)] = flag[VecReady(v)] + (IF v = w /\ Round(j) = Rounds - 1 THEN 1 ELSE 0)
      /\ flag[VecReady(v)] \in Nat /\ flag[CubeFree(v)] \in Nat
  <2>. HIDE DEF j
  <2>1. /\ VecReady(v) \notin waits /\ CubeFree(v) \notin sets
        /\ CubeFree(v) \in waits <=> v = w /\ Round(j) = 0
        /\ VecReady(v) \in sets <=> v = w /\ Round(j) = Rounds - 1
    BY DEF When, CubeFree, VecReady
  <2>2. flag[VecReady(v)] \in Nat /\ flag[CubeFree(v)] \in Nat
    BY <1>1, CreditFlags DEF PlaceInv
  <2>. HIDE DEF waits, sets
  <2>. QED  BY <1>1, <2>1, <2>2, CreditFlags DEF Counts
<1>5. Filling(v)' = Filling(v) + (IF v = w /\ Round(j) = 0 THEN 1 ELSE 0)
                               - (IF v = w /\ Round(j) = Rounds - 1 THEN 1 ELSE 0)
  <2>0. Filling(v)' = IF aiv'[v]["MTE3"] % Rounds # 0 THEN 1 ELSE 0
    BY DEF Filling, Round, Rounds, Quad, Piece
  <2>1. CASE v # w
    <3>1. aiv'[v]["MTE3"] = aiv[v]["MTE3"]
      BY <1>1, <2>1 DEF Counted, VectorPipes
    <3>. QED  BY <2>0, <2>1, <3>1 DEF Filling, Round, Piece
  <2>2. CASE v = w
    <3>1. aiv'[v]["MTE3"] = j + 1
      BY <1>1, <2>2 DEF Counted, VectorPipes, Piece
    <3>2. Round(j) \in 0 .. Rounds - 1
      BY <1>2, DivMod DEF Round
    <3>3. (j + 1) % Rounds = IF Round(j) = Rounds - 1 THEN 0 ELSE Round(j) + 1
      BY <1>2, NextMod DEF Round
    <3>4. Filling(v) = IF Round(j) # 0 THEN 1 ELSE 0
      BY <2>2 DEF Filling
    <3>. HIDE DEF j
    <3>. QED  BY <1>2, <2>0, <2>2, <3>1, <3>2, <3>3, <3>4 DEF Positive
  <2>. QED  BY <2>1, <2>2
<1>6. flag[CubeFree(v)] + flag[VecReady(v)] + Filling(v) + Reading(v) + TakenBack(v) = Credits[v]
  BY DEF CreditInv, CreditsConserved
<1>7. Filling(v) \in Nat /\ Reading(v) \in Nat /\ TakenBack(v) \in Nat
  BY DEF Filling, Reading, TakenBack, FinalWaits
<1>. HIDE DEF j, waits, sets
<1>. QED  BY <1>1, <1>3, <1>4, <1>5, <1>6, <1>7

LEMMA CreditsTakenBack ==
    ASSUME CreditInv, NEW w \in SubBlocks, DrainCredits(w), bufNum' = bufNum
    PROVE  CreditInv'
<1>1. /\ PlaceInv' /\ <<"MTE3", w>> \notin drained /\ PlaceInv
      /\ drained' = drained \cup {<<"MTE3", w>>} /\ UNCHANGED <<aic, aiv>>
      /\ FinalWaits(w) \in Nat
      /\ flag'[CubeFree(w)] = flag[CubeFree(w)] - FinalWaits(w)
      /\ KeepsOther(w, {"CUBE_FREE"})
  BY DrainCreditsStep DEF CreditInv
<1>. SUFFICES ASSUME NEW v \in SubBlocks
              PROVE  /\ flag'[CubeFree(v)] + flag'[VecReady(v)] + Filling(v)' + Reading(v)'
                          + TakenBack(v)' = Credits[v]
                     /\ Credits[v] = Credits'[v]
  BY <1>1 DEF CreditInv, CreditsConserved, CubeFree, VecReady
<1>2. Reading(v)' = Reading(v) /\ Filling(v)' = Filling(v) /\ Credits'[v] = Credits[v]
  BY <1>1 DEF Reading, Running, AtTile, AtStep, NumTiles, KTiles, Partners, Quad, L1Buf,
              Filling, Round, Rounds, Piece, Credits
<1>3. flag'[VecReady(v)] = flag[VecReady(v)]
  BY <1>1, CreditFlags DEF KeepsOther, VecReady
<1>4. /\ flag'[CubeFree(v)] = flag[CubeFree(v)] - (IF v = w THEN FinalWaits(w) ELSE 0)
      /\ flag[CubeFree(v)] \in Nat /\ flag[VecReady(v)] \in Nat
  <2>1. CASE v = w
    BY <1>1, <2>1, CreditFlags DEF PlaceInv
  <2>2. CASE v # w
    BY <1>1, <2>2, CreditFlags DEF KeepsOther, CubeFree, PlaceInv
  <2>. QED  BY <2>1, <2>2
<1>5. TakenBack(v)' = TakenBack(v) + (IF v = w THEN FinalWaits(w) ELSE 0)
  BY <1>1 DEF TakenBack, FinalWaits, Quad
<1>6. flag[CubeFree(v)] + flag[VecReady(v)] + Filling(v) + Reading(v) + TakenBack(v) = Credits[v]
  BY DEF CreditInv, CreditsConserved
<1>7. Filling(v) \in Nat /\ Reading(v) \in Nat /\ TakenBack(v) \in Nat
  BY DEF Filling, Reading, TakenBack, FinalWaits
<1>. QED  BY <1>1, <1>2, <1>3, <1>4, <1>5, <1>6, <1>7

\* The destructors, by pipe.
CubeDrains(pipe) ==
    Drain(<<"AIC", pipe>>, ~Running(pipe),
          CASE pipe = "MTE2" -> ({"MTE1_MTE2"} \X (0 .. bufNum - 1))
                                  \cup ({"SCALEA_FREE", "SCALEB_FREE"} \X {0, 1})
            [] pipe = "MTE1" -> {"M_MTE1"} \X {0, 1}
            [] pipe = "M"    -> {"FIX_M"} \X {0, 1})
VectorDrains(pipe, v) ==
    Drain(<<pipe, v>>, ~HasPiece(v, pipe),
          {<<IF pipe = "MTE2" THEN "V_MTE2" ELSE "MTE3_V", v, u>> : u \in UsedUb(v)})

\* What Next is made of: the proofs that a step preserves an invariant go through this list.
LEMMA StepCases ==
    ASSUME Next
    PROVE  /\ bufNum' = bufNum
           /\ \/ LoadA \/ LoadScaleB \/ CopyToL0 \/ Mmad \/ GetTensorC
              \/ \E p \in {"MTE2", "MTE1", "M"} : CubeDrains(p)
              \/ \E v \in SubBlocks : \/ CopyInWeight(v) \/ AntiQuantCompute(v) \/ CopyOutWeight(v)
                                      \/ \E p \in {"MTE2", "V"} : VectorDrains(p, v)
                                      \/ DrainCredits(v)
<1>1. DrainCube => \E p \in {"MTE2", "MTE1", "M"} : CubeDrains(p)
  BY DEF DrainCube, CubeDrains
<1>2. \A v \in SubBlocks : DrainVector(v) => \E p \in {"MTE2", "V"} : VectorDrains(p, v)
  BY DEF DrainVector, VectorDrains
<1>. QED  BY <1>1, <1>2 DEF Next, CubeNext, VectorNext

LEMMA CubeDrainStep ==
    ASSUME PlaceInv, NEW p \in {"MTE2", "MTE1", "M"}, CubeDrains(p), bufNum' = bufNum
    PROVE  /\ PlaceInv' /\ <<"AIC", p>> \notin drained /\ drained' = drained \cup {<<"AIC", p>>}
           /\ UNCHANGED <<aic, aiv>>
           /\ AtTile(p) = NumTiles /\ AtStep(p) = 0
           /\ Counts(CASE p = "MTE2" -> ({"MTE1_MTE2"} \X (0 .. bufNum - 1))
                                  \cup ({"SCALEA_FREE", "SCALEB_FREE"} \X {0, 1})
                       [] p = "MTE1" -> {"M_MTE1"} \X {0, 1}
                       [] p = "M"    -> {"FIX_M"} \X {0, 1}, {})
           /\ Keeps(CASE p = "MTE2" -> {"MTE1_MTE2", "SCALEA_FREE", "SCALEB_FREE"}
                      [] p = "MTE1" -> {"M_MTE1"}
                      [] p = "M"    -> {"FIX_M"})
<1>. DEFINE waits == CASE p = "MTE2" -> ({"MTE1_MTE2"} \X (0 .. bufNum - 1))
                                  \cup ({"SCALEA_FREE", "SCALEB_FREE"} \X {0, 1})
                       [] p = "MTE1" -> {"M_MTE1"} \X {0, 1}
                       [] p = "M"    -> {"FIX_M"} \X {0, 1}
<1>1. <<"AIC", p>> \in Drainable /\ \A v \in SubBlocks : <<"AIC", p>> # <<"MTE3", v>>
  BY DEF Drainable
<1>2. /\ PlaceInv' /\ <<"AIC", p>> \notin drained /\ ~Running(p)
      /\ drained' = drained \cup {<<"AIC", p>>} /\ UNCHANGED <<aic, aiv>> /\ Counts(waits, {})
  BY <1>1, DrainPipe DEF CubeDrains
<1>3. AtTile(p) = NumTiles /\ AtStep(p) = 0
  <2>1. p \in CubePipes /\ TilesOf(p) = NumTiles
    BY DEF CubePipes, TilesOf
  <2>. QED  BY <1>2, <2>1, Shapes DEF Running, PlaceInv, CubeInv, PlaceOK, AtTile, AtStep, Positive
<1>4. Keeps(CASE p = "MTE2" -> {"MTE1_MTE2", "SCALEA_FREE", "SCALEB_FREE"}
              [] p = "MTE1" -> {"M_MTE1"}
              [] p = "M"    -> {"FIX_M"})
  BY <1>2 DEF Keeps, Counts, PlaceInv
<1>. QED  BY <1>2, <1>3, <1>4

LEMMA VectorDrainStep ==
    ASSUME PlaceInv, NEW v \in SubBlocks, NEW p \in {"MTE2", "V"}, VectorDrains(p, v),
           bufNum' = bufNum
    PROVE  LET tag == IF p = "MTE2" THEN "V_MTE2" ELSE "MTE3_V" IN
           /\ PlaceInv' /\ <<p, v>> \notin drained /\ drained' = drained \cup {<<p, v>>}
           /\ UNCHANGED <<aic, aiv>>
           /\ Piece(v, p) = NumPieces[v]
           /\ Counts({<<tag, v, u>> : u \in UsedUb(v)}, {})
           /\ KeepsOther(v, {tag})
<1>. DEFINE tag == IF p = "MTE2" THEN "V_MTE2" ELSE "MTE3_V"
            waits == {<<tag, v, u>> : u \in UsedUb(v)}
<1>1. <<p, v>> \in Drainable /\ \A w \in SubBlocks : <<p, v>> # <<"MTE3", w>>
  BY DEF Drainable, VectorPipes
<1>2. /\ PlaceInv' /\ <<p, v>> \notin drained /\ ~HasPiece(v, p)
      /\ drained' = drained \cup {<<p, v>>} /\ UNCHANGED <<aic, aiv>> /\ Counts(waits, {})
  BY <1>1, DrainPipe DEF VectorDrains
<1>3. Piece(v, p) = NumPieces[v]
  <2>1. p \in VectorPipes
    BY DEF VectorPipes
  <2>. QED  BY <1>2, <2>1, PieceCounts DEF HasPiece, Piece, PlaceInv, VectorInv
<1>4. KeepsOther(v, {tag})
  BY <1>2 DEF KeepsOther, Counts, PlaceInv
<1>. QED  BY <1>2, <1>3, <1>4

LEMMA CreditInvInductive ==
    /\ Init => CreditInv
    /\ CreditInv /\ [Next]_vars => CreditInv'
<1>1. Init => CreditInv
  <2>. SUFFICES ASSUME Init, NEW v \in SubBlocks
                PROVE  flag[CubeFree(v)] + flag[VecReady(v)] + Filling(v) + Reading(v) + TakenBack(v)
                         = Credits[v]
    BY PlaceInitially DEF CreditInv, CreditsConserved
  <2>1. flag[CubeFree(v)] = Credits[v] /\ flag[VecReady(v)] = 0 /\ flag[CubeFree(v)] \in Nat
    BY CreditFlags, PlaceInitially DEF Init, CubeFree, VecReady, PlaceInv
  <2>2. Filling(v) = 0
    <3>1. Rounds \in Positive /\ Piece(v, "MTE3") = 0
      BY PieceCounts DEF Init, Piece
    <3>2. 0 % Rounds = 0
      BY <3>1, DivModUnique DEF Positive
    <3>. QED  BY <3>1, <3>2 DEF Filling, Round
  <2>3. Reading(v) = 0 /\ TakenBack(v) = 0
    BY DEF Init, Reading, TakenBack, AtStep
  <2>. QED  BY <2>1, <2>2, <2>3
<1>2. ASSUME CreditInv, Next
      PROVE  CreditInv'
  <2>0. bufNum' = bufNum /\ PlaceInv
    BY <1>2, StepCases DEF CreditInv
  <2>1. CASE LoadA
    <3>1. PlaceInv' /\ Moves("MTE2") /\ Keeps({"MTE1_MTE2", "SCALEA_FREE"}) /\ UNCHANGED <<aiv, drained>>
      BY <2>0, <2>1, LoadAStep DEF LoadA
    <3>2. aic'["MTE1"] = aic["MTE1"] /\ \A v \in SubBlocks : flag'[CubeFree(v)] = flag[CubeFree(v)]
            /\ flag'[VecReady(v)] = flag[VecReady(v)]
      BY <3>1, CreditFlags DEF Moves, CubePipes, Keeps, CubeFree, VecReady
    <3>. QED  BY <1>2, <2>0, <3>1, <3>2, CreditsUntouched
  <2>2. CASE LoadScaleB
    <3>1. PlaceInv' /\ Moves("MTE2") /\ Keeps({"MTE2_MTE1", "SCALEB_FREE"}) /\ UNCHANGED <<aiv, drained>>
      BY <2>0, <2>2, LoadScaleBStep DEF LoadScaleB
    <3>2. aic'["MTE1"] = aic["MTE1"] /\ \A v \in SubBlocks : flag'[CubeFree(v)] = flag[CubeFree(v)]
            /\ flag'[VecReady(v)] = flag[VecReady(v)]
      BY <3>1, CreditFlags DEF Moves, CubePipes, Keeps, CubeFree, VecReady
    <3>. QED  BY <1>2, <2>0, <3>1, <3>2, CreditsUntouched
  <2>3. CASE CopyToL0
    BY <1>2, <2>0, <2>3, CreditsByTheCube
  <2>4. CASE Mmad
    <3>1. PlaceInv' /\ Moves("M") /\ Keeps({"MTE1_M", "FIX_M", "M_MTE1", "M_FIX"})
          /\ UNCHANGED <<aiv, drained>>
      BY <2>0, <2>4, MmadStep DEF Mmad
    <3>2. aic'["MTE1"] = aic["MTE1"] /\ \A v \in SubBlocks : flag'[CubeFree(v)] = flag[CubeFree(v)]
            /\ flag'[VecReady(v)] = flag[VecReady(v)]
      BY <3>1, CreditFlags DEF Moves, CubePipes, Keeps, CubeFree, VecReady
    <3>. QED  BY <1>2, <2>0, <3>1, <3>2, CreditsUntouched
  <2>5. CASE GetTensorC
    <3>1. PlaceInv' /\ Moves("FIX") /\ Keeps({"M_FIX", "FIX_M"}) /\ UNCHANGED <<aiv, drained>>
      BY <2>0, <2>5, GetTensorCStep DEF GetTensorC
    <3>2. aic'["MTE1"] = aic["MTE1"] /\ \A v \in SubBlocks : flag'[CubeFree(v)] = flag[CubeFree(v)]
            /\ flag'[VecReady(v)] = flag[VecReady(v)]
      BY <3>1, CreditFlags DEF Moves, CubePipes, Keeps, CubeFree, VecReady
    <3>. QED  BY <1>2, <2>0, <3>1, <3>2, CreditsUntouched
  <2>6. ASSUME NEW p \in {"MTE2", "MTE1", "M"}, CubeDrains(p)
        PROVE  CreditInv'
    <3>1. /\ PlaceInv' /\ UNCHANGED <<aic, aiv>> /\ drained' = drained \cup {<<"AIC", p>>}
          /\ Keeps({"MTE1_MTE2", "SCALEA_FREE", "SCALEB_FREE", "M_MTE1", "FIX_M"})
      BY <2>0, <2>6, CubeDrainStep DEF Keeps
    <3>2. \A v \in SubBlocks : flag'[CubeFree(v)] = flag[CubeFree(v)]
            /\ flag'[VecReady(v)] = flag[VecReady(v)]
      BY <3>1, CreditFlags DEF Keeps, CubeFree, VecReady
    <3>3. \A v \in SubBlocks : <<"MTE3", v>> \in drained' <=> <<"MTE3", v>> \in drained
      BY <3>1
    <3>. QED  BY <1>2, <2>0, <3>1, <3>2, <3>3, CreditsUntouched
  <2>7. ASSUME NEW w \in SubBlocks, CopyInWeight(w)
        PROVE  CreditInv'
    <3>1. PlaceInv' /\ Counted(w, "MTE2") /\ KeepsOther(w, {"V_MTE2", "MTE2_V"})
          /\ UNCHANGED <<aic, drained>>
      BY <2>0, <2>7, CopyInWeightStep DEF CopyInWeight
    <3>2. \A v \in SubBlocks : /\ aiv'[v]["MTE3"] = aiv[v]["MTE3"]
            /\ flag'[CubeFree(v)] = flag[CubeFree(v)] /\ flag'[VecReady(v)] = flag[VecReady(v)]
      BY <3>1, CreditFlags DEF Counted, VectorPipes, KeepsOther, CubeFree, VecReady
    <3>. QED  BY <1>2, <2>0, <3>1, <3>2, CreditsUntouched
  <2>8. ASSUME NEW w \in SubBlocks, AntiQuantCompute(w)
        PROVE  CreditInv'
    <3>1. PlaceInv' /\ Counted(w, "V") /\ KeepsOther(w, {"MTE2_V", "MTE3_V", "V_MTE3", "V_MTE2"})
          /\ UNCHANGED <<aic, drained>>
      BY <2>0, <2>8, AntiQuantComputeStep DEF AntiQuantCompute
    <3>2. \A v \in SubBlocks : /\ aiv'[v]["MTE3"] = aiv[v]["MTE3"]
            /\ flag'[CubeFree(v)] = flag[CubeFree(v)] /\ flag'[VecReady(v)] = flag[VecReady(v)]
      BY <3>1, CreditFlags DEF Counted, VectorPipes, KeepsOther, CubeFree, VecReady
    <3>. QED  BY <1>2, <2>0, <3>1, <3>2, CreditsUntouched
  <2>9. ASSUME NEW w \in SubBlocks, CopyOutWeight(w)
        PROVE  CreditInv'
    BY <1>2, <2>0, <2>9, CreditsByAVectorCore
  <2>10. ASSUME NEW w \in SubBlocks, NEW p \in {"MTE2", "V"}, VectorDrains(p, w)
         PROVE  CreditInv'
    <3>1. PlaceInv' /\ UNCHANGED <<aic, aiv>> /\ drained' = drained \cup {<<p, w>>}
          /\ KeepsOther(w, {"V_MTE2", "MTE3_V"})
      BY <2>0, <2>10, VectorDrainStep DEF KeepsOther
    <3>2. \A v \in SubBlocks : flag'[CubeFree(v)] = flag[CubeFree(v)]
            /\ flag'[VecReady(v)] = flag[VecReady(v)]
      BY <3>1, CreditFlags DEF KeepsOther, CubeFree, VecReady
    <3>3. \A v \in SubBlocks : <<"MTE3", v>> \in drained' <=> <<"MTE3", v>> \in drained
      BY <3>1
    <3>. QED  BY <1>2, <2>0, <3>1, <3>2, <3>3, CreditsUntouched
  <2>11. ASSUME NEW w \in SubBlocks, DrainCredits(w)
         PROVE  CreditInv'
    BY <1>2, <2>0, <2>11, CreditsTakenBack
  <2>. QED
    BY <1>2, <2>1, <2>2, <2>3, <2>4, <2>5, <2>6, <2>7, <2>8, <2>9, <2>10, <2>11, StepCases
<1>3. ASSUME CreditInv, UNCHANGED vars
      PROVE  CreditInv'
  <2>1. PlaceInv'
    BY <1>3 DEF CreditInv, PlaceInv, vars, CubeInv, PlaceOK, TilesOf, StepsAt, NumTiles, KTiles,
                StepK, KL1Len, KOf, VectorInv, NumPieces, Rounds, Quad, Serves, L1Buf, HasPiece, Piece
  <2>. QED  BY <1>3, <2>1, CreditsUntouched DEF vars
<1>. QED  BY <1>1, <1>2, <1>3

LEMMA CreditInvariant == Spec => []CreditInv
BY CreditInvInductive, PTL DEF Spec

\* The places of the pipes stay within the kernel's work and no flag is waited for that was not
\* set, for every shape (block_mmad_b_prologue_mx.h, block_prologue_b_cast_scsc.h).
THEOREM KernelTypeCorrect == Spec => []TypeOK
<1>1. PlaceInv => TypeOK
  <2>. SUFFICES ASSUME PlaceInv
                PROVE  TypeOK
    OBVIOUS
  <2>1. ASSUME NEW p \in DOMAIN aic
        PROVE  aic[p].tile \in 0 .. NumTiles /\ aic[p].step \in Nat
    <3>1. p \in CubePipes /\ aic[p] \in [tile : Nat, step : Nat] /\ aic[p].tile <= TilesOf(p)
      BY <2>1 DEF PlaceInv, CubeInv, PlaceOK
    <3>2. TilesOf(p) \in Nat /\ TilesOf(p) <= NumTiles
      <4>1. NumBlocks <= NumBlocks * KTiles
        BY Shapes DEF Positive
      <4>. QED  BY <4>1, Shapes DEF TilesOf, NumTiles, Positive
    <3>. QED  BY <3>1, <3>2, Shapes DEF Positive
  <2>2. ASSUME NEW v \in SubBlocks, NEW p \in DOMAIN aiv[v]
        PROVE  aiv[v][p] \in 0 .. NumPieces[v]
    BY <2>2, PieceCounts DEF PlaceInv, VectorInv
  <2>. QED  BY <2>1, <2>2 DEF TypeOK, PlaceInv
<1>. QED  BY <1>1, CreditInvariant, PTL DEF CreditInv

\* Every L1 buffer paired with a vector core is at every moment in exactly one place, so that
\* neither side of the credits of WaitForCube, NotifyCube, WaitForVector and NotifyVector can
\* lose or make one (block_mmad_b_prologue_mx.h, block_prologue_b_cast_scsc.h).
THEOREM KernelConservesCredits == Spec => []CreditsConserved
<1>1. CreditInv => CreditsConserved
  BY DEF CreditInv
<1>. QED  BY <1>1, CreditInvariant, PTL
-----------------------------------------------------------------------------
(* Rings.  A producer has filled the items below hi and a consumer has     *)
(* emptied those below lo; item j goes through buffer B[j].  An event of   *)
(* each buffer says that it is free, or that it is full.                   *)
Held(lo, hi, B, b) == \E j \in lo .. hi - 1 : B[j] = b
Apart(lo, hi, B) == lo <= hi /\ \A j, k \in lo .. hi - 1 : B[j] = B[k] => j = k
FreeRing(f, lo, hi, B, off) ==
    /\ Apart(lo, hi, B)
    /\ off => lo = hi
    /\ \A b \in DOMAIN f : f[b] = IF off \/ Held(lo, hi, B, b) THEN 0 ELSE 1
FullEvents(f, lo, hi, B) ==
    \A b \in DOMAIN f : f[b] = IF Held(lo, hi, B, b) THEN 1 ELSE 0

\* The events of buffers D, after waiting for that of b, after setting it.
Waited(f, g, b) == DOMAIN g = DOMAIN f /\ \A a \in DOMAIN f : g[a] = f[a] - (IF a = b THEN 1 ELSE 0)
AllWaited(f, g) == DOMAIN g = DOMAIN f /\ \A a \in DOMAIN f : f[a] > 0 /\ g[a] = f[a] - 1
IsSet(f, g, b) == DOMAIN g = DOMAIN f /\ \A a \in DOMAIN f : g[a] = f[a] + (IF a = b THEN 1 ELSE 0)

LEMMA HeldPut ==
    ASSUME NEW lo \in Nat, NEW hi \in Nat, lo <= hi, NEW B, NEW b
    PROVE  Held(lo, hi + 1, B, b) <=> Held(lo, hi, B, b) \/ B[hi] = b
BY DEF Held

LEMMA HeldTake ==
    ASSUME NEW lo \in Nat, NEW hi \in Nat, lo < hi, NEW B, NEW b, Apart(lo, hi, B)
    PROVE  Held(lo + 1, hi, B, b) <=> Held(lo, hi, B, b) /\ B[lo] # b
BY DEF Held, Apart

LEMMA ApartPut ==
    ASSUME NEW lo \in Nat, NEW hi \in Nat, NEW B, Apart(lo, hi, B), ~Held(lo, hi, B, B[hi])
    PROVE  Apart(lo, hi + 1, B)
BY DEF Held, Apart

LEMMA ApartTake ==
    ASSUME NEW lo \in Nat, NEW hi \in Nat, lo < hi, NEW B, Apart(lo, hi, B)
    PROVE  Apart(lo + 1, hi, B)
BY DEF Apart

LEMMA FreePut ==
    ASSUME NEW lo \in Nat, NEW hi \in Nat, NEW B, NEW off \in BOOLEAN, NEW f, NEW g,
           FreeRing(f, lo, hi, B, off), B[hi] \in DOMAIN f, f[B[hi]] > 0, Waited(f, g, B[hi])
    PROVE  ~off /\ ~Held(lo, hi, B, B[hi]) /\ FreeRing(g, lo, hi + 1, B, off)
<1>1. ~off /\ ~Held(lo, hi, B, B[hi])
  BY DEF FreeRing
<1>2. Apart(lo, hi + 1, B)
  BY <1>1, ApartPut DEF FreeRing
<1>3. \A b : Held(lo, hi + 1, B, b) <=> Held(lo, hi, B, b) \/ B[hi] = b
  BY HeldPut DEF FreeRing, Apart
<1>4. \A b \in DOMAIN g : g[b] = IF Held(lo, hi + 1, B, b) THEN 0 ELSE 1
  BY <1>1, <1>3 DEF FreeRing, Waited
<1>. QED  BY <1>1, <1>2, <1>4 DEF FreeRing

LEMMA FreeTake ==
    ASSUME NEW lo \in Nat, NEW hi \in Nat, lo < hi, NEW B, NEW off \in BOOLEAN, NEW f, NEW g,
           FreeRing(f, lo, hi, B, off), IsSet(f, g, B[lo])
    PROVE  ~off /\ FreeRing(g, lo + 1, hi, B, off)
<1>1. ~off
  BY DEF FreeRing
<1>2. Apart(lo + 1, hi, B)
  BY ApartTake DEF FreeRing
<1>3. \A b : Held(lo + 1, hi, B, b) <=> Held(lo, hi, B, b) /\ B[lo] # b
  BY HeldTake DEF FreeRing
<1>4. Held(lo, hi, B, B[lo])
  BY DEF Held
<1>5. \A b \in DOMAIN g : g[b] = IF Held(lo + 1, hi, B, b) THEN 0 ELSE 1
  BY <1>1, <1>3, <1>4 DEF FreeRing, IsSet
<1>. QED  BY <1>1, <1>2, <1>5 DEF FreeRing

\* The destructor of the producer waits for every buffer: all are free.
LEMMA FreeOff ==
    ASSUME NEW lo \in Nat, NEW hi \in Nat, NEW B, NEW off \in BOOLEAN, NEW f, NEW g,
           FreeRing(f, lo, hi, B, off), B[lo] \in DOMAIN f, AllWaited(f, g)
    PROVE  ~off /\ lo = hi /\ \A b \in DOMAIN g : g[b] = 0
<1>1. ~off /\ \A b \in DOMAIN f : f[b] = 1
  BY DEF FreeRing, AllWaited
<1>2. lo < hi => Held(lo, hi, B, B[lo])
  BY DEF Held
<1>3. lo = hi
  BY <1>1, <1>2 DEF FreeRing, Apart
<1>. QED  BY <1>1, <1>3 DEF AllWaited

LEMMA FullPut ==
    ASSUME NEW lo \in Nat, NEW hi \in Nat, NEW B, lo <= hi, ~Held(lo, hi, B, B[hi]),
           NEW f, NEW g, FullEvents(f, lo, hi, B), IsSet(f, g, B[hi])
    PROVE  FullEvents(g, lo, hi + 1, B)
<1>1. \A b : Held(lo, hi + 1, B, b) <=> Held(lo, hi, B, b) \/ B[hi] = b
  BY HeldPut
<1>. QED  BY <1>1 DEF FullEvents, IsSet

LEMMA FullTake ==
    ASSUME NEW lo \in Nat, NEW hi \in Nat, NEW B, Apart(lo, hi, B),
           NEW f, NEW g, FullEvents(f, lo, hi, B),
           B[lo] \in DOMAIN f, f[B[lo]] > 0, Waited(f, g, B[lo])
    PROVE  lo < hi /\ FullEvents(g, lo + 1, hi, B)
<1>1. Held(lo, hi, B, B[lo])
  BY DEF FullEvents
<1>2. lo < hi
  BY <1>1 DEF Held
<1>3. \A b : Held(lo + 1, hi, B, b) <=> Held(lo, hi, B, b) /\ B[lo] # b
  BY <1>2, HeldTake
<1>4. \A b \in DOMAIN g : g[b] = IF Held(lo + 1, hi, B, b) THEN 1 ELSE 0
  BY <1>1, <1>3 DEF FullEvents, Waited
<1>. QED  BY <1>2, <1>4 DEF FullEvents

\* Buffers taken in turn: n items in a row are in different ones, n + 1 are not.
InTurn(n) == [j \in Nat |-> j % n]

LEMMA TurnsApart ==
    ASSUME NEW n \in Positive, NEW lo \in Nat, NEW hi \in Nat
    PROVE  Apart(lo, hi, InTurn(n)) <=> lo <= hi /\ hi <= lo + n
<1>1. ASSUME lo <= hi, hi <= lo + n
      PROVE  Apart(lo, hi, InTurn(n))
  <2>. SUFFICES ASSUME NEW j \in lo .. hi - 1, NEW k \in lo .. hi - 1, j % n = k % n, j < k
                PROVE  FALSE
    BY <1>1 DEF Apart, InTurn
  <2>. DEFINE q == j \div n
              p == k \div n
              r == j % n
  <2>1. /\ q \in Nat /\ p \in Nat /\ r \in 0 .. n - 1
        /\ j = n * q + r /\ k = n * p + r
    BY DivMod
  <2>. HIDE DEF q, p, r
  <2>2. /\ p <= q => n * p <= n * q
        /\ q + 1 <= p => n * q + n <= n * p
    BY <2>1 DEF Positive
  <2>3. n * p \in Nat /\ n * q \in Nat
    BY <2>1 DEF Positive
  <2>. QED  BY <1>1, <2>1, <2>2, <2>3 DEF Positive
<1>2. ASSUME Apart(lo, hi, InTurn(n)), lo + n < hi
      PROVE  FALSE
  <2>. DEFINE q == lo \div n
              r == lo % n
  <2>1. q \in Nat /\ r \in 0 .. n - 1 /\ lo = n * q + r
    BY DivMod
  <2>. HIDE DEF q, r
  <2>2. n * (q + 1) = n * q + n /\ n * q \in Nat
    BY <2>1 DEF Positive
  <2>3. lo + n = n * (q + 1) + r
    BY <2>1, <2>2 DEF Positive
  <2>4. (lo + n) % n = r
    BY <2>1, <2>3, DivModUnique
  <2>5. lo \in lo .. hi - 1 /\ lo + n \in lo .. hi - 1 /\ lo # lo + n /\ lo + n \in Nat
    BY <1>2 DEF Positive
  <2>. QED  BY <1>2, <2>4, <2>5 DEF Apart, InTurn, r
<1>3. Apart(lo, hi, InTurn(n)) => lo <= hi /\ ~(lo + n < hi)
  BY <1>2 DEF Apart
<1>. QED  BY <1>1, <1>3 DEF Positive
-----------------------------------------------------------------------------
(* Tiles, groups of tiles that share the scales, and steps, in order.      *)
LEMMA TileNext ==
    ASSUME NEW t \in Nat
    PROVE  /\ KOf(t) \in 0 .. KTiles - 1 /\ BlockOf(t) \in Nat /\ t = KTiles * BlockOf(t) + KOf(t)
           /\ KOf(t + 1) = IF KOf(t) = KTiles - 1 THEN 0 ELSE KOf(t) + 1
           /\ BlockOf(t + 1) = BlockOf(t) + (IF KOf(t) = KTiles - 1 THEN 1 ELSE 0)
BY Shapes, DivMod, NextMod, NextDiv DEF KOf, BlockOf

GroupsOfBlock == CeilDiv(KTiles, ScaleFactor)

\* The last tile of a block is in its last group.
LEMMA LastGroup ==
    /\ GroupsOfBlock \in Positive
    /\ (KTiles - 1) \div ScaleFactor = GroupsOfBlock - 1
<1>. DEFINE q == (KTiles - 1) \div ScaleFactor
            r == (KTiles - 1) % ScaleFactor
<1>1. q \in Nat /\ r \in 0 .. ScaleFactor - 1 /\ KTiles - 1 = ScaleFactor * q + r
  <2>1. KTiles - 1 \in Nat
    BY Shapes DEF Positive
  <2>. QED  BY <2>1, Shapes, DivMod
<1>. HIDE DEF q, r
<1>2. ScaleFactor * (q + 1) = ScaleFactor * q + ScaleFactor /\ ScaleFactor * q \in Nat
  BY <1>1, Shapes DEF Positive
<1>3. KTiles + ScaleFactor - 1 = ScaleFactor * (q + 1) + r
  BY <1>1, <1>2, Shapes DEF Positive
<1>4. GroupsOfBlock = q + 1
  BY <1>1, <1>3, Shapes, DivModUnique DEF GroupsOfBlock, CeilDiv
<1>. QED  BY <1>1, <1>4 DEF q, Positive

LEMMA GroupNext ==
    ASSUME NEW t \in Nat
    PROVE  /\ Group(t) \in Nat
           /\ Group(t + 1) = Group(t) + (IF ClosesGroup(t) THEN 1 ELSE 0)
           /\ OpensGroup(t + 1) <=> ClosesGroup(t)
<1>. DEFINE k == KOf(t)
            b == BlockOf(t)
            g == k \div ScaleFactor
            C == GroupsOfBlock
<1>1. k \in 0 .. KTiles - 1 /\ b \in Nat /\ g \in Nat /\ C \in Positive /\ k \in Nat
  <2>1. k \in 0 .. KTiles - 1 /\ b \in Nat /\ C \in Positive
    BY TileNext, LastGroup
  <2>. HIDE DEF k, b, C
  <2>2. k \in Nat /\ ScaleFactor \in Positive
    BY <2>1, Shapes DEF Positive
  <2>. QED  BY <2>1, <2>2, DivMod
<1>2. Group(t) = b * C + g /\ b * C \in Nat /\ Group(t) \in Nat
  BY <1>1 DEF Group, GroupsOfBlock, Positive
<1>3. CASE k = KTiles - 1
  <2>1. KOf(t + 1) = 0 /\ BlockOf(t + 1) = b + 1
    BY <1>3, TileNext
  <2>2. Group(t + 1) = (b + 1) * C + 0 /\ OpensGroup(t + 1)
    BY <2>1, Shapes, ZeroDivMod DEF Group, OpensGroup, GroupsOfBlock
  <2>3. (b + 1) * C = b * C + C
    BY <1>1 DEF Positive
  <2>4. g = C - 1
    BY <1>3, LastGroup
  <2>5. ClosesGroup(t)
    BY <1>3 DEF ClosesGroup
  <2>. HIDE DEF b, C, g, k
  <2>. QED  BY <1>1, <1>2, <2>2, <2>3, <2>4, <2>5 DEF Positive
<1>4. CASE k # KTiles - 1
  <2>1. KOf(t + 1) = k + 1 /\ BlockOf(t + 1) = b
    BY <1>4, TileNext
  <2>2. /\ Group(t + 1) = b * C + ((k + 1) \div ScaleFactor)
        /\ OpensGroup(t + 1) <=> (k + 1) % ScaleFactor = 0
        /\ ClosesGroup(t) <=> (k + 1) % ScaleFactor = 0
    BY <1>4, <2>1 DEF Group, OpensGroup, ClosesGroup, GroupsOfBlock
  <2>3. /\ (k + 1) \div ScaleFactor = g + (IF k % ScaleFactor = ScaleFactor - 1 THEN 1 ELSE 0)
        /\ (k + 1) % ScaleFactor = 0 <=> k % ScaleFactor = ScaleFactor - 1
    <3>1. k % ScaleFactor \in 0 .. ScaleFactor - 1 /\ k \in Nat
      BY <1>1, Shapes, DivMod DEF Positive
    <3>2. (k + 1) % ScaleFactor
            = IF k % ScaleFactor = ScaleFactor - 1 THEN 0 ELSE (k % ScaleFactor) + 1
      BY <3>1, Shapes, NextMod
    <3>3. (k + 1) \div ScaleFactor = g + (IF k % ScaleFactor = ScaleFactor - 1 THEN 1 ELSE 0)
      BY <3>1, Shapes, NextDiv
    <3>. HIDE DEF k, g
    <3>. QED  BY <3>1, <3>2, <3>3
  <2>. HIDE DEF b, C, g, k
  <2>. QED  BY <1>1, <1>2, <2>2, <2>3
<1>. QED  BY <1>2, <1>3, <1>4

\* The groups whose first tile is among the first n tiles.
Begun(n) == Group(n) + (IF OpensGroup(n) THEN 0 ELSE 1)

LEMMA BegunNext ==
    ASSUME NEW n \in Nat
    PROVE  /\ Begun(n) \in Nat /\ Group(n) <= Begun(n)
           /\ Begun(n + 1) = Group(n) + 1
           /\ Begun(n + 1) = Begun(n) + (IF OpensGroup(n) THEN 1 ELSE 0)
           /\ OpensGroup(n) => Begun(n) = Group(n)
BY GroupNext DEF Begun

\* The group of a tile is begun before any later tile is.
LEMMA GroupBegun ==
    ASSUME NEW t \in Nat, NEW n \in Nat, t < n
    PROVE  Group(t) < Begun(n)
<1>. DEFINE C == GroupsOfBlock
            b == BlockOf(t)
            c == BlockOf(n)
            k == KOf(t)
            m == KOf(n)
            F == ScaleFactor
<1>1. /\ b \in Nat /\ c \in Nat /\ k \in 0 .. KTiles - 1 /\ m \in 0 .. KTiles - 1
      /\ t = KTiles * b + k /\ n = KTiles * c + m /\ C \in Positive /\ F \in Positive
      /\ KTiles \in Positive
  BY TileNext, LastGroup, Shapes
<1>2. Group(t) = b * C + (k \div F) /\ Group(n) = c * C + (m \div F)
  BY DEF Group, GroupsOfBlock
<1>3. k \div F \in 0 .. C - 1 /\ m \div F \in Nat
  <2>1. k \div F \in Nat /\ m \div F \in Nat /\ k = F * (k \div F) + (k % F) /\ k % F \in 0 .. F - 1
    BY <1>1, DivMod
  <2>2. KTiles - 1 \in Nat /\ (KTiles - 1) \div F = C - 1
    BY <1>1, LastGroup DEF Positive
  <2>3. KTiles - 1 = F * (C - 1) + ((KTiles - 1) % F) /\ (KTiles - 1) % F \in 0 .. F - 1
    BY <1>1, <2>2, DivMod
  <2>. DEFINE q == k \div F
              r == k % F
              s == (KTiles - 1) % F
  <2>4. q \in Nat /\ r \in 0 .. F - 1 /\ s \in 0 .. F - 1
        /\ k = F * q + r /\ KTiles - 1 = F * (C - 1) + s
    BY <2>1, <2>3
  <2>. HIDE DEF q, r, s, k, F, C
  <2>5. C <= q => F * (C - 1) + F <= F * q
    <3>1. F * (C - 1) + F = F * C
      BY <1>1 DEF Positive
    <3>2. C <= q => F * C <= F * q
      BY <1>1, <2>4 DEF Positive
    <3>. QED  BY <3>1, <3>2
  <2>6. F * (C - 1) \in Nat /\ F * q \in Nat
    BY <1>1, <2>4 DEF Positive
  <2>7. q < C
    BY <1>1, <2>4, <2>5, <2>6 DEF Positive
  <2>. QED  BY <1>1, <2>1, <2>4, <2>7 DEF q, Positive
<1>4. CASE b < c
  <2>. HIDE DEF b, c, k, m, C, F
  <2>1. b * C + C <= c * C /\ b * C \in Nat /\ c * C \in Nat
    <3>1. (b + 1) * C = b * C + C
      BY <1>1 DEF Positive
    <3>2. (b + 1) * C <= c * C
      BY <1>1, <1>4 DEF Positive
    <3>. QED  BY <1>1, <3>1, <3>2 DEF Positive
  <2>2. Group(t) < Group(n)
    BY <1>1, <1>2, <1>3, <2>1 DEF Positive
  <2>. QED  BY <2>2, GroupNext, BegunNext
<1>5. CASE b = c
  <2>. HIDE DEF b, c, k, m, C, F
  <2>1. k < m
    BY <1>1, <1>5 DEF Positive
  <2>. DEFINE q == k \div F
              r == k % F
              p == m \div F
              s == m % F
  <2>2. /\ q \in Nat /\ p \in Nat /\ r \in 0 .. F - 1 /\ s \in 0 .. F - 1
        /\ k = F * q + r /\ m = F * p + s
    <3>1. k \in Nat /\ m \in Nat
      BY <1>1 DEF Positive
    <3>. QED  BY <1>1, <3>1, DivMod
  <2>. HIDE DEF q, r, p, s
  <2>3. p < q => F * p + F <= F * q
    <3>1. F * (p + 1) = F * p + F
      BY <1>1, <2>2 DEF Positive
    <3>2. p < q => F * (p + 1) <= F * q
      BY <1>1, <2>2 DEF Positive
    <3>. QED  BY <3>1, <3>2
  <2>4. F * p \in Nat /\ F * q \in Nat
    BY <1>1, <2>2 DEF Positive
  <2>5. q <= p
    BY <1>1, <2>1, <2>2, <2>3, <2>4 DEF Positive
  <2>6. s = 0 => q # p
    BY <1>1, <2>1, <2>2, <2>4 DEF Positive
  <2>7. OpensGroup(n) <=> s = 0
    BY DEF OpensGroup, s, m, F
  <2>8. b * C \in Nat /\ Group(t) = b * C + q /\ Group(n) = b * C + p
    BY <1>1, <1>2, <1>5 DEF Positive, q, p
  <2>. QED  BY <2>2, <2>5, <2>6, <2>7, <2>8 DEF Begun
<1>6. b <= c
  <2>. HIDE DEF b, c, k, m, C, F
  <2>1. c < b => KTiles * c + KTiles <= KTiles * b
    <3>1. KTiles * (c + 1) = KTiles * c + KTiles
      BY <1>1 DEF Positive
    <3>2. c < b => KTiles * (c + 1) <= KTiles * b
      BY <1>1 DEF Positive
    <3>. QED  BY <3>1, <3>2
  <2>2. KTiles * c \in Nat /\ KTiles * b \in Nat
    BY <1>1 DEF Positive
  <2>. QED  BY <1>1, <2>1, <2>2 DEF Positive
<1>. QED  BY <1>1, <1>4, <1>5, <1>6

LEMMA DivMonotone ==
    ASSUME NEW a \in Nat, NEW b \in Nat, a <= b, NEW n \in Positive
    PROVE  a \div n <= b \div n
<1>. DEFINE q == a \div n
            p == b \div n
            r == a % n
            s == b % n
<1>1. /\ q \in Nat /\ p \in Nat /\ r \in 0 .. n - 1 /\ s \in 0 .. n - 1
      /\ a = n * q + r /\ b = n * p + s
  BY DivMod
<1>. HIDE DEF q, p, r, s
<1>2. n * (p + 1) = n * p + n /\ n * p \in Nat /\ n * q \in Nat
  BY <1>1 DEF Positive
<1>3. p < q => n * (p + 1) <= n * q
  BY <1>1 DEF Positive
<1>4. q <= p
  BY <1>1, <1>2, <1>3 DEF Positive
<1>. QED  BY <1>4 DEF q, p

\* Only the last tile of a block may be shorter than the others.
LastSteps == CeilDiv(KSize - (KTiles - 1) * KL1Size, KL0Size)
BlockSteps == (KTiles - 1) * StepsPerTile + LastSteps

LEMMA StepKIs ==
    ASSUME NEW t \in Nat
    PROVE  /\ StepK(t) = IF KOf(t) = KTiles - 1 THEN LastSteps ELSE StepsPerTile
           /\ StepsPerTile \in Positive /\ LastSteps \in 1 .. StepsPerTile
           /\ BlockSteps \in Positive /\ (KTiles - 1) * StepsPerTile \in Nat
<1>. DEFINE L == KSize - (KTiles - 1) * KL1Size
            k == KOf(t)
<1>1. (KTiles - 1) * KL1Size \in Nat /\ L \in 1 .. KL1Size
  <2>. DEFINE r == (KSize + KL1Size - 1) % KL1Size
  <2>1. KSize + KL1Size - 1 \in Nat
    BY Shapes DEF Positive
  <2>2. r \in 0 .. KL1Size - 1 /\ KSize + KL1Size - 1 = KL1Size * KTiles + r
    BY <2>1, Shapes, DivMod DEF KTiles, CeilDiv
  <2>3. (KTiles - 1) * KL1Size = KL1Size * KTiles - KL1Size
    BY Shapes DEF Positive
  <2>4. (KTiles - 1) * KL1Size \in Nat /\ KL1Size * KTiles \in Nat
    BY Shapes DEF Positive
  <2>. HIDE DEF r
  <2>. QED  BY <2>2, <2>3, <2>4, Shapes DEF Positive
<1>2. k \in 0 .. KTiles - 1
  BY TileNext
<1>3. k = KTiles - 1 => StepK(t) = LastSteps
  <2>. SUFFICES ASSUME k = KTiles - 1
                PROVE  StepK(t) = LastSteps
    OBVIOUS
  <2>1. KL1Len(t) = L
    BY <1>1, Shapes DEF KL1Len, Positive
  <2>. QED  BY <2>1 DEF StepK, LastSteps
<1>4. k # KTiles - 1 => StepK(t) = StepsPerTile
  <2>. SUFFICES ASSUME k # KTiles - 1
                PROVE  StepK(t) = StepsPerTile
    OBVIOUS
  <2>1. k * KL1Size + KL1Size <= (KTiles - 1) * KL1Size /\ k * KL1Size \in Nat
    <3>. HIDE DEF k
    <3>1. (k + 1) * KL1Size = k * KL1Size + KL1Size
      BY <1>2, Shapes DEF Positive
    <3>2. k + 1 <= KTiles - 1
      BY <1>2, Shapes DEF Positive
    <3>3. (k + 1) * KL1Size <= (KTiles - 1) * KL1Size
      BY <1>2, <3>2, Shapes DEF Positive
    <3>. QED  BY <1>2, <3>1, <3>3, Shapes DEF Positive
  <2>2. KL1Len(t) = KL1Size
    BY <1>1, <2>1, Shapes DEF KL1Len, Positive
  <2>. QED  BY <2>2 DEF StepK, StepsPerTile
<1>5. StepsPerTile \in Positive /\ LastSteps \in Positive
  BY <1>1, Shapes, CeilDivPositive DEF StepsPerTile, LastSteps, Positive
<1>6. LastSteps <= StepsPerTile
  <2>1. L + KL0Size - 1 \in Nat /\ KL1Size + KL0Size - 1 \in Nat
        /\ L + KL0Size - 1 <= KL1Size + KL0Size - 1
    BY <1>1, Shapes DEF Positive
  <2>. QED  BY <2>1, Shapes, DivMonotone DEF LastSteps, StepsPerTile, CeilDiv
<1>7. (KTiles - 1) * StepsPerTile \in Nat
  BY <1>5, Shapes DEF Positive
<1>. QED  BY <1>3, <1>4, <1>5, <1>6, <1>7 DEF BlockSteps, Positive

LEMMA StepsOfIs == ASSUME NEW b \in Nat PROVE StepsOf(b) = BlockSteps
<1>. DEFINE t == b * KTiles + KTiles - 1
<1>1. b * KTiles \in Nat /\ b * KTiles = KTiles * b /\ t = KTiles * b + (KTiles - 1)
  BY Shapes DEF Positive
<1>2. t \in Nat /\ KTiles - 1 \in 0 .. KTiles - 1
  BY <1>1, Shapes DEF Positive
<1>3. KOf(t) = KTiles - 1
  BY <1>1, <1>2, Shapes, DivModUnique DEF KOf
<1>. HIDE DEF t
<1>4. StepK(t) = LastSteps
  BY <1>2, <1>3, StepKIs
<1>. QED  BY <1>4 DEF StepsOf, BlockSteps, t

\* The steps of all blocks, numbered in the order they are done.
Index(t, i) == BlockOf(t) * BlockSteps + KOf(t) * StepsPerTile + i
TileAt(j) == (j \div BlockSteps) * KTiles + ((j % BlockSteps) \div StepsPerTile)
StepAt(j) == (j % BlockSteps) % StepsPerTile

LEMMA IndexIs ==
    ASSUME NEW t \in Nat, NEW i \in 0 .. StepK(t) - 1
    PROVE  /\ Index(t, i) \in Nat
           /\ KOf(t) * StepsPerTile + i \in 0 .. BlockSteps - 1
           /\ Index(t, i) \div BlockSteps = BlockOf(t)
           /\ Index(t, i) % BlockSteps = KOf(t) * StepsPerTile + i
           /\ TileAt(Index(t, i)) = t
           /\ StepAt(Index(t, i)) = i
<1>. DEFINE b == BlockOf(t)
            k == KOf(t)
            S == StepsPerTile
            r == k * S + i
<1>1. /\ b \in Nat /\ k \in 0 .. KTiles - 1 /\ S \in Positive /\ LastSteps \in 1 .. S
      /\ BlockSteps \in Positive /\ KTiles \in Positive
      /\ StepK(t) = IF k = KTiles - 1 THEN LastSteps ELSE S
      /\ t = KTiles * b + k
  BY TileNext, StepKIs, Shapes
<1>. HIDE DEF b, k, S
<1>2. i \in 0 .. S - 1
  BY <1>1 DEF Positive
<1>3. k * S \in Nat /\ k * S = S * k
  BY <1>1 DEF Positive
<1>4. r \in 0 .. BlockSteps - 1
  <2>1. (KTiles - 1) * S \in Nat /\ BlockSteps = (KTiles - 1) * S + LastSteps
    BY <1>1, StepKIs DEF BlockSteps, S
  <2>2. CASE k = KTiles - 1
    BY <1>1, <1>3, <2>1, <2>2 DEF Positive
  <2>3. CASE k # KTiles - 1
    <3>1. (k + 1) * S = k * S + S
      BY <1>1 DEF Positive
    <3>2. k + 1 <= KTiles - 1
      BY <1>1, <2>3 DEF Positive
    <3>3. (k + 1) * S <= (KTiles - 1) * S
      BY <1>1, <3>2 DEF Positive
    <3>. QED  BY <1>1, <1>2, <1>3, <2>1, <3>1, <3>3 DEF Positive
  <2>. QED  BY <2>2, <2>3
<1>5. r % S = i /\ r \div S = k
  BY <1>1, <1>2, <1>3, DivModUnique DEF Positive
<1>. HIDE DEF r
<1>6. b * BlockSteps = BlockSteps * b /\ BlockSteps * b \in Nat
  BY <1>1 DEF Positive
<1>7. Index(t, i) = BlockSteps * b + r
  BY <1>3, <1>6, <1>1 DEF Index, b, k, S, r
<1>8. /\ Index(t, i) \in Nat
      /\ Index(t, i) \div BlockSteps = b
      /\ Index(t, i) % BlockSteps = r
  <2>1. (BlockSteps * b + r) \div BlockSteps = b /\ (BlockSteps * b + r) % BlockSteps = r
    BY <1>1, <1>4, DivModUnique
  <2>. QED  BY <1>4, <1>6, <1>7, <2>1
<1>9. TileAt(Index(t, i)) = b * KTiles + k /\ StepAt(Index(t, i)) = i
  BY <1>5, <1>8 DEF TileAt, StepAt, S
<1>10. b * KTiles + k = t
  BY <1>1 DEF Positive
<1>. QED  BY <1>4, <1>8, <1>9, <1>10 DEF b, r, k, S

LEMMA IndexNext ==
    ASSUME NEW t \in Nat, NEW i \in 0 .. StepK(t) - 1
    PROVE  /\ Index(t, i + 1) = Index(t, i) + 1
           /\ i = StepK(t) - 1 => Index(t + 1, 0) = Index(t, i) + 1
<1>. DEFINE b == BlockOf(t)
            k == KOf(t)
            S == StepsPerTile
<1>1. /\ b \in Nat /\ k \in 0 .. KTiles - 1 /\ S \in Positive /\ LastSteps \in 1 .. S
      /\ BlockSteps \in Positive /\ KTiles \in Positive
      /\ StepK(t) = IF k = KTiles - 1 THEN LastSteps ELSE S
      /\ (KTiles - 1) * S \in Nat /\ BlockSteps = (KTiles - 1) * S + LastSteps
  BY TileNext, StepKIs, Shapes DEF BlockSteps
<1>2. /\ Index(t, i) = b * BlockSteps + k * S + i
      /\ Index(t, i + 1) = b * BlockSteps + k * S + (i + 1)
      /\ Index(t + 1, 0) = BlockOf(t + 1) * BlockSteps + KOf(t + 1) * S + 0
  BY DEF Index
<1>3. /\ KOf(t + 1) = IF k = KTiles - 1 THEN 0 ELSE k + 1
      /\ BlockOf(t + 1) = b + (IF k = KTiles - 1 THEN 1 ELSE 0)
  BY TileNext
<1>. HIDE DEF b, k, S
<1>4. b * BlockSteps \in Nat /\ k * S \in Nat /\ i \in Nat
  BY <1>1 DEF Positive
<1>5. ASSUME i = StepK(t) - 1
      PROVE  Index(t + 1, 0) = Index(t, i) + 1
  <2>1. CASE k = KTiles - 1
    <3>1. (b + 1) * BlockSteps = b * BlockSteps + BlockSteps /\ 0 * S = 0
      BY <1>1 DEF Positive
    <3>2. k * S = (KTiles - 1) * S /\ i = LastSteps - 1
      BY <1>1, <1>5, <2>1
    <3>3. Index(t + 1, 0) = (b + 1) * BlockSteps + 0 * S + 0
      BY <1>2, <1>3, <2>1
    <3>4. Index(t + 1, 0) = b * BlockSteps + ((KTiles - 1) * S + LastSteps)
      BY <1>1, <1>4, <3>1, <3>3 DEF Positive
    <3>. QED  BY <1>1, <1>2, <1>4, <3>2, <3>4
  <2>2. CASE k # KTiles - 1
    <3>1. (k + 1) * S = k * S + S
      BY <1>1 DEF Positive
    <3>2. i = S - 1
      BY <1>1, <1>5, <2>2
    <3>. QED  BY <1>1, <1>2, <1>3, <1>4, <2>2, <3>1, <3>2 DEF Positive
  <2>. QED  BY <2>1, <2>2
<1>6. Index(t, i + 1) = Index(t, i) + 1
  BY <1>2, <1>4
<1>. QED  BY <1>5, <1>6

\* The accumulator is cleared by the first product of a block and by no other.
LEMMA FirstProduct ==
    ASSUME NEW t \in Nat, NEW i \in Nat
    PROVE  KFractal(t, i) = 0 <=> KOf(t) = 0 /\ i = 0
<1>. DEFINE k == KOf(t)
            x == (k * KL1Size) \div KL0Size
            y == (i * (i + 1)) \div 2
<1>1. k \in Nat /\ KFractal(t, i) = x + y
  BY TileNext, Shapes DEF KFractal, Positive
<1>. HIDE DEF k
<1>2. x \in Nat /\ (x = 0 <=> k = 0)
  <2>1. k * KL1Size \in Nat
    BY <1>1, Shapes DEF Positive
  <2>2. CASE k = 0
    <3>1. k * KL1Size = 0
      BY <2>2, Shapes DEF Positive
    <3>. QED  BY <2>2, <3>1, Shapes, ZeroDivMod
  <2>3. CASE k # 0
    <3>1. KL1Size <= k * KL1Size
      BY <1>1, <2>3, Shapes DEF Positive
    <3>2. KL0Size \in Nat /\ KL0Size <= k * KL1Size
      BY <2>1, <3>1, Shapes DEF Positive
    <3>3. KL0Size * 1 + 0 = KL0Size /\ (KL0Size * 1 + 0) \div KL0Size = 1
      BY Shapes, DivModUnique DEF Positive
    <3>4. KL0Size \div KL0Size <= x
      BY <2>1, <3>2, Shapes, DivMonotone
    <3>5. x \in Nat
      BY <2>1, Shapes, DivMod
    <3>. HIDE DEF x
    <3>. QED  BY <2>3, <3>3, <3>4, <3>5
  <2>. QED  BY <2>2, <2>3
<1>3. y \in Nat /\ (y = 0 <=> i = 0)
  <2>1. i * (i + 1) \in Nat
    OBVIOUS
  <2>2. i = 0 => i * (i + 1) = 0
    OBVIOUS
  <2>3. i # 0 => 2 <= i * (i + 1)
    <3>1. i # 0 => 2 <= i + 1 /\ i + 1 <= i * (i + 1)
      OBVIOUS
    <3>. QED  BY <2>1, <3>1
  <2>. DEFINE m == i * (i + 1)
  <2>4. m \in Nat /\ (i = 0 => m = 0) /\ (i # 0 => 2 <= m) /\ y = m \div 2
    BY <2>1, <2>2, <2>3
  <2>. HIDE DEF m, y
  <2>. QED  BY <2>4
<1>. HIDE DEF x, y
<1>. QED  BY <1>1, <1>2, <1>3 DEF k

LEMMA L0BufIs == \A t, i \in Nat : L0Buf(t, i) \in {0, 1}
<1>. SUFFICES ASSUME NEW t \in Nat, NEW i \in Nat
              PROVE  L0Buf(t, i) \in {0, 1}
  OBVIOUS
<1>1. KOf(t) \in Nat
  BY TileNext, Shapes DEF Positive
<1>. DEFINE k == KOf(t) * KL1Size
            m == i * (i + 1)
<1>2. k \in Nat /\ m \in Nat
  BY <1>1, Shapes DEF Positive
<1>. HIDE DEF k, m
<1>3. k \div KL0Size \in Nat /\ m \div 2 \in Nat
  BY <1>2, Shapes, DivMod DEF Positive
<1>4. KFractal(t, i) \in Nat
  BY <1>3 DEF KFractal, k, m
<1>. QED  BY <1>4 DEF L0Buf

\* How many of the first n tiles a vector core takes.
Served(v, n) ==
    CASE Quad       -> n
      [] bufNum = 2 -> (n + 1 - v) \div 2
      [] bufNum = 1 -> IF v = 0 THEN n ELSE 0

LEMMA ServedNext ==
    ASSUME bufNum \in BufNums, NEW v \in SubBlocks, NEW n \in Nat
    PROVE  /\ Served(v, n) \in Nat
           /\ Served(v, 0) = 0
           /\ Served(v, n + 1) = Served(v, n) + (IF v \in Partners(L1Buf(n)) THEN 1 ELSE 0)
           /\ Serves(v, n) <=> v \in Partners(L1Buf(n))
<1>1. CASE bufNum = 4
  BY <1>1 DEF Served, Quad, Partners, Serves
<1>2. CASE bufNum = 1
  BY <1>2 DEF Served, Quad, Partners, Serves, SubBlocks
<1>3. CASE bufNum = 2
  <2>1. v = 0 \/ v = 1
    BY DEF SubBlocks
  <2>2. \A k \in Nat : Served(v, k) = (k + 1 - v) \div 2
    BY <1>3 DEF Served, Quad
  <2>3. v \in Partners(L1Buf(n)) <=> n % 2 = v
    BY <1>3 DEF Partners, Quad, L1Buf
  <2>4. Serves(v, n) <=> n % 2 = v
    BY <1>3 DEF Serves, Quad, L1Buf
  <2>5. Served(v, n) \in Nat /\ Served(v, 0) = 0
    BY <2>1, <2>2
  <2>6. Served(v, n + 1) = Served(v, n) + (IF n % 2 = v THEN 1 ELSE 0)
    <3>1. Served(v, n) = (n + 1 - v) \div 2 /\ Served(v, n + 1) = (n + 1 + 1 - v) \div 2
      BY <2>2
    <3>2. CASE v = 0
      BY <3>1, <3>2
    <3>3. CASE v = 1
      BY <3>1, <3>3
    <3>. QED  BY <2>1, <3>2, <3>3
  <2>. QED  BY <2>3, <2>4, <2>5, <2>6
<1>. QED  BY <1>1, <1>2, <1>3, BufNumIs

LEMMA ServedMonotone ==
    ASSUME bufNum \in BufNums, NEW v \in SubBlocks, NEW m \in Nat, NEW n \in Nat, m <= n
    PROVE  Served(v, m) <= Served(v, n)
<1>1. CASE bufNum = 2
  <2>1. Served(v, m) = (m + 1 - v) \div 2 /\ Served(v, n) = (n + 1 - v) \div 2
    BY <1>1 DEF Served, Quad
  <2>2. v = 0 \/ v = 1
    BY DEF SubBlocks
  <2>. QED  BY <2>1, <2>2
<1>2. CASE bufNum # 2
  BY <1>2, BufNumIs DEF Served, Quad
<1>. QED  BY <1>1, <1>2

LEMMA PiecesServed ==
    ASSUME bufNum \in BufNums, NEW v \in SubBlocks
    PROVE  NumPieces[v] = Rounds * Served(v, NumTiles)
<1>. DEFINE T == {t \in 0 .. NumTiles - 1 : Serves(v, t)}
            n == Served(v, NumTiles)
<1>1. NumTiles \in Nat /\ n \in Nat
  BY Shapes, ServedNext DEF Positive
<1>2. Cardinality(T) = n
  <2>1. CASE bufNum = 4 \/ (bufNum = 1 /\ v = 0)
    <3>0. n = NumTiles /\ \A t \in 0 .. NumTiles - 1 : Serves(v, t)
      <4>1. CASE bufNum = 4
        BY <4>1 DEF Serves, Quad, Served
      <4>2. CASE bufNum = 1 /\ v = 0
        BY <4>2 DEF Serves, Quad, Served
      <4>. QED  BY <2>1, <4>1, <4>2
    <3>1. T = 0 .. NumTiles - 1 /\ n = NumTiles
      BY <3>0
    <3>2. Cardinality(0 .. NumTiles - 1) = NumTiles
      BY <1>1, FS_Interval
    <3>. HIDE DEF T, n
    <3>. QED  BY <3>1, <3>2
  <2>2. CASE bufNum = 1 /\ v = 1
    <3>1. T = {} /\ n = 0
      BY <2>2 DEF Serves, Quad, Served
    <3>. HIDE DEF T, n
    <3>. QED  BY <3>1, FS_EmptySet
  <2>3. CASE bufNum = 2
    <3>1. v = 0 \/ v = 1
      BY DEF SubBlocks
    <3>2. n = (NumTiles + 1 - v) \div 2
      BY <2>3 DEF Served, Quad
    <3>3. T = {t \in 0 .. NumTiles - 1 : t % 2 = v}
      BY <2>3 DEF Serves, Quad, L1Buf
    <3>. DEFINE f == [k \in 1 .. n |-> 2 * (k - 1) + v]
    <3>. HIDE DEF n, T
    <3>4. f \in [1 .. n -> T]
      <4>. SUFFICES ASSUME NEW k \in 1 .. n
                    PROVE  2 * (k - 1) + v \in T
        OBVIOUS
      <4>. QED  BY <1>1, <3>1, <3>2, <3>3
    <3>5. \A k, l \in 1 .. n : f[k] = f[l] => k = l
      BY <1>1, <3>1
    <3>6. \A t \in T : \E k \in 1 .. n : f[k] = t
      <4>. SUFFICES ASSUME NEW t \in T
                    PROVE  \E k \in 1 .. n : f[k] = t
        OBVIOUS
      <4>1. t \div 2 + 1 \in 1 .. n /\ 2 * ((t \div 2 + 1) - 1) + v = t
        BY <1>1, <3>1, <3>2, <3>3
      <4>. QED  BY <4>1
    <3>7. f \in Bijection(1 .. n, T)
      BY <3>4, <3>5, <3>6 DEF Bijection, Injection, Surjection, IsInjective
    <3>8. ExistsBijection(1 .. n, T)
      BY <3>7 DEF ExistsBijection
    <3>. QED  BY <1>1, <3>8, FS_CountingElements
  <2>. QED  BY <2>1, <2>2, <2>3, BufNumIs DEF SubBlocks
<1>. QED  BY <1>2 DEF NumPieces

\* The credits the constructor gives.
LEMMA CreditsAre ==
    ASSUME bufNum \in BufNums, NEW v \in SubBlocks
    PROVE  Credits[v] = CASE bufNum = 4 -> 4
                          [] bufNum = 2 -> 1
                          [] bufNum = 1 -> IF v = 0 THEN 1 ELSE 0
<1>. DEFINE T == {b \in 0 .. bufNum - 1 : v \in Partners(b)}
<1>0. (v = 0 \/ v = 1) /\ Credits[v] = Cardinality(T)
  BY DEF SubBlocks, Credits
<1>1. CASE bufNum = 4
  <2>1. T = 0 .. 3
    BY <1>1 DEF Partners, Quad
  <2>2. Cardinality(0 .. 3) = 4
    <3>. DEFINE a == 0
                b == 3
    <3>1. a \in Int /\ b \in Int /\ ~(a > b) /\ b - a + 1 = 4
      OBVIOUS
    <3>. HIDE DEF a, b
    <3>2. Cardinality(a .. b) = 4
      BY <3>1, FS_Interval
    <3>. QED  BY <3>2 DEF a, b
  <2>. HIDE DEF T
  <2>. QED  BY <1>0, <1>1, <2>1, <2>2
<1>2. CASE bufNum = 2
  <2>1. T = {v}
    BY <1>0, <1>2 DEF Partners, Quad
  <2>2. Cardinality({v}) = 1
    BY FS_Singleton
  <2>. HIDE DEF T
  <2>. QED  BY <1>0, <1>2, <2>1, <2>2
<1>3. CASE bufNum = 1
  <2>1. T = IF v = 0 THEN {0} ELSE {}
    BY <1>0, <1>3 DEF Partners, Quad
  <2>2. Cardinality({0}) = 1 /\ Cardinality({}) = 0
    BY FS_Singleton, FS_EmptySet
  <2>. HIDE DEF T
  <2>. QED  BY <1>0, <1>3, <2>1, <2>2
<1>. QED  BY <1>1, <1>2, <1>3, BufNumIs

LEMMA MaxBufNumIs ==
    ASSUME bufNum \in BufNums
    PROVE  MaxBufNum \in {1, 2, 4} /\ bufNum <= MaxBufNum
<1>1. BufNums \subseteq {1, 2, 4}
  BY ShapeAssumption
<1>2. \E n \in BufNums : \A k \in BufNums : k <= n
  <2>1. CASE 4 \in BufNums
    BY <1>1, <2>1
  <2>2. CASE 4 \notin BufNums /\ 2 \in BufNums
    BY <1>1, <2>2
  <2>3. CASE 4 \notin BufNums /\ 2 \notin BufNums
    BY <1>1, <2>3
  <2>. QED  BY <2>1, <2>2, <2>3
<1>3. MaxBufNum \in BufNums /\ \A k \in BufNums : k <= MaxBufNum
  BY <1>2 DEF MaxBufNum
<1>. QED  BY <1>1, <1>3
-----------------------------------------------------------------------------
(* What every flag counts, by how far the pipes are.                       *)
ALoaded    == AtTile("MTE2") + AtStep("MTE2")
BLoaded    == AtTile("MTE2")
Taken      == AtTile("MTE1") + (IF AtStep("MTE1") > 0 THEN 1 ELSE 0)
Released   == AtTile("MTE1")
Copied     == Index(AtTile("MTE1"), AtStep("MTE1"))
Multiplied == Index(AtTile("M"), AtStep("M"))
Started    == BlockOf(AtTile("M")) + (IF KOf(AtTile("M")) = 0 /\ AtStep("M") = 0 THEN 0 ELSE 1)
Ended      == BlockOf(AtTile("M"))
Written    == AtTile("FIX")
L0Bufs     == [j \in Nat |-> L0Buf(TileAt(j), StepAt(j))]
Buffers    == 0 .. bufNum - 1

Events(kind, D) == [b \in D |-> flag[<<kind, b>>]]
EventsOf(v, kind) == [u \in Buffers |-> flag[<<kind, v, u>>]]
\* The first bufNum pieces of a vector core wait for no free buffer.
FreshOf(v, kind, done, off) ==
    [u \in Buffers |-> flag[<<kind, v, u>>] + (IF ~off /\ u >= done THEN 1 ELSE 0)]

L1Flags ==
    /\ FreeRing(Events("MTE1_MTE2", Buffers), Released, ALoaded, InTurn(bufNum),
                <<"AIC", "MTE2">> \in drained)
    /\ flag[<<"MTE2_MTE1", 0>>] = BLoaded - Taken
ScaleFlags ==
    /\ FreeRing(Events("SCALEA_FREE", {0, 1}), Group(Released), Begun(ALoaded), InTurn(2),
                <<"AIC", "MTE2">> \in drained)
    /\ FreeRing(Events("SCALEB_FREE", {0, 1}), Group(Released), Begun(BLoaded), InTurn(2),
                <<"AIC", "MTE2">> \in drained)
L0Flags ==
    /\ FreeRing(Events("M_MTE1", {0, 1}), Multiplied, Copied, L0Bufs, <<"AIC", "MTE1">> \in drained)
    /\ FullEvents(Events("MTE1_M", {0, 1}), Multiplied, Copied, L0Bufs)
CFlags ==
    /\ FreeRing(Events("FIX_M", {0, 1}), Written, Started, InTurn(2), <<"AIC", "M">> \in drained)
    /\ flag[<<"M_FIX", 0>>] = Ended - Written
UbRing(v, free, full, lo, hi, off) ==
    /\ FreeRing(FreshOf(v, free, hi, off), lo, hi, InTurn(bufNum), off)
    /\ FullEvents(EventsOf(v, full), lo, hi, InTurn(bufNum))
UbInFlags(v) ==
    UbRing(v, "V_MTE2", "MTE2_V", Piece(v, "V"), Piece(v, "MTE2"), <<"MTE2", v>> \in drained)
UbOutFlags(v) ==
    UbRing(v, "MTE3_V", "V_MTE3", Piece(v, "MTE3"), Piece(v, "V"), <<"V", v>> \in drained)
ReadyFlags(v) == flag[VecReady(v)] = (Piece(v, "MTE3") \div Rounds) - Served(v, Taken)
\* The events of the buffers other kernels have.
IdleFlags ==
    /\ \A b \in bufNum .. MaxBufNum - 1 : flag[<<"MTE1_MTE2", b>>] = 0
    /\ \A v \in SubBlocks, u \in bufNum .. MaxBufNum - 1 :
         \A kind \in {"MTE2_V", "V_MTE2", "V_MTE3", "MTE3_V"} : flag[<<kind, v, u>>] = 0
ThroughInv ==
    /\ \A p \in {"MTE2", "MTE1", "M"} : <<"AIC", p>> \in drained => AtTile(p) = NumTiles
    /\ \A v \in SubBlocks, p \in VectorPipes : <<p, v>> \in drained => ~HasPiece(v, p)
CubeFlagInv == L1Flags /\ ScaleFlags /\ L0Flags /\ CFlags
VectorFlagInv == \A v \in SubBlocks : UbInFlags(v) /\ UbOutFlags(v)
FlagInv ==
    /\ CreditInv /\ ThroughInv /\ IdleFlags
    /\ CubeFlagInv /\ VectorFlagInv
    /\ \A v \in SubBlocks : ReadyFlags(v)
-----------------------------------------------------------------------------
(* How each step moves the counts.                                         *)
LEMMA CountTypes ==
    ASSUME PlaceInv
    PROVE  /\ ALoaded \in Nat /\ BLoaded \in Nat /\ Taken \in Nat /\ Released \in Nat
           /\ Copied \in Nat /\ Multiplied \in Nat /\ Started \in Nat /\ Ended \in Nat
           /\ Written \in Nat
           /\ BLoaded <= ALoaded /\ Released <= Taken /\ Ended <= Started
<1>1. /\ \A p \in CubePipes : AtTile(p) \in Nat /\ AtStep(p) \in Nat
      /\ AtStep("MTE1") \in 0 .. StepK(AtTile("MTE1")) - 1
      /\ AtStep("M") \in 0 .. StepK(AtTile("M")) - 1
  BY DEF PlaceInv, CubeInv, PlaceOK, StepsAt, CubePipes, AtTile, AtStep
<1>2. Copied \in Nat /\ Multiplied \in Nat
  BY <1>1, IndexIs DEF Copied, Multiplied, CubePipes
<1>3. Ended \in Nat /\ Started \in Nat /\ Ended <= Started
  BY <1>1, TileNext DEF Ended, Started, CubePipes
<1>. QED  BY <1>1, <1>2, <1>3 DEF ALoaded, BLoaded, Taken, Released, Written, CubePipes

\* The counts in the next state, by the places of the pipes in it.
LEMMA NextCounts ==
    /\ ALoaded' = aic'["MTE2"].tile + aic'["MTE2"].step
    /\ BLoaded' = aic'["MTE2"].tile
    /\ Taken' = aic'["MTE1"].tile + (IF aic'["MTE1"].step > 0 THEN 1 ELSE 0)
    /\ Released' = aic'["MTE1"].tile
    /\ Copied' = Index(aic'["MTE1"].tile, aic'["MTE1"].step)
    /\ Multiplied' = Index(aic'["M"].tile, aic'["M"].step)
    /\ Started' = BlockOf(aic'["M"].tile)
                    + (IF KOf(aic'["M"].tile) = 0 /\ aic'["M"].step = 0 THEN 0 ELSE 1)
    /\ Ended' = BlockOf(aic'["M"].tile)
    /\ Written' = aic'["FIX"].tile
BY DEF ALoaded, BLoaded, Taken, Released, Copied, Multiplied, Started, Ended, Written,
       AtTile, AtStep, Index, BlockOf, KOf, KTiles, BlockSteps, StepsPerTile, LastSteps, CeilDiv

LEMMA CountsKept ==
    /\ aic'["MTE2"] = aic["MTE2"] => UNCHANGED <<ALoaded, BLoaded>>
    /\ aic'["MTE1"] = aic["MTE1"] => UNCHANGED <<Taken, Released, Copied>>
    /\ aic'["M"] = aic["M"] => UNCHANGED <<Multiplied, Started, Ended>>
    /\ aic'["FIX"] = aic["FIX"] => UNCHANGED Written
BY NextCounts DEF ALoaded, BLoaded, Taken, Released, Copied, Multiplied, Started, Ended, Written,
       AtTile, AtStep

LEMMA LoadACounts ==
    ASSUME PlaceInv, LoadA, bufNum' = bufNum
    PROVE  /\ ALoaded = BLoaded /\ ALoaded' = ALoaded + 1
           /\ UNCHANGED <<BLoaded, Taken, Released, Copied, Multiplied, Started, Ended, Written>>
<1>1. /\ AtTile("MTE2") \in Nat /\ AtStep("MTE2") = 0
      /\ aic'["MTE2"] = [tile |-> AtTile("MTE2"), step |-> 1]
      /\ \A p \in {"MTE1", "M", "FIX"} : aic'[p] = aic[p]
  BY LoadAStep DEF Moves, StepsAt, CubePipes
<1>. QED  BY <1>1, NextCounts, CountsKept DEF ALoaded, BLoaded

LEMMA LoadScaleBCounts ==
    ASSUME PlaceInv, LoadScaleB, bufNum' = bufNum
    PROVE  /\ ALoaded = BLoaded + 1 /\ BLoaded' = BLoaded + 1
           /\ UNCHANGED <<ALoaded, Taken, Released, Copied, Multiplied, Started, Ended, Written>>
<1>1. /\ AtTile("MTE2") \in Nat /\ AtStep("MTE2") = 1
      /\ aic'["MTE2"] = [tile |-> AtTile("MTE2") + 1, step |-> 0]
      /\ \A p \in {"MTE1", "M", "FIX"} : aic'[p] = aic[p]
  BY LoadScaleBStep DEF Moves, StepsAt, CubePipes
<1>. QED  BY <1>1, NextCounts, CountsKept DEF ALoaded, BLoaded

LEMMA CopyToL0Counts ==
    ASSUME PlaceInv, CopyToL0, bufNum' = bufNum
    PROVE  LET t == AtTile("MTE1")
               i == AtStep("MTE1") IN
           /\ Copied' = Copied + 1
           /\ Taken' = Taken + (IF i = 0 THEN 1 ELSE 0)
           /\ Released' = Released + (IF i = StepK(t) - 1 THEN 1 ELSE 0)
           /\ Released = t /\ Copied = Index(t, i) /\ (i = 0 <=> Taken = t)
           /\ UNCHANGED <<ALoaded, BLoaded, Multiplied, Started, Ended, Written>>
<1>. DEFINE t == AtTile("MTE1")
            i == AtStep("MTE1")
<1>1. /\ t \in Nat /\ i \in 0 .. StepK(t) - 1 /\ StepK(t) \in Positive
      /\ aic'["MTE1"] = IF i + 1 < StepK(t) THEN [tile |-> t, step |-> i + 1]
                                            ELSE [tile |-> t + 1, step |-> 0]
      /\ \A p \in {"MTE2", "M", "FIX"} : aic'[p] = aic[p]
  BY CopyToL0Step, TileHasSteps DEF Moves, StepsAt, CubePipes
<1>2. /\ Copied = Index(t, i) /\ Released = t /\ Taken = t + (IF i > 0 THEN 1 ELSE 0)
  BY DEF Copied, Released, Taken
<1>3. Index(t, i + 1) = Index(t, i) + 1 /\ (i = StepK(t) - 1 => Index(t + 1, 0) = Index(t, i) + 1)
  BY <1>1, IndexNext
<1>. HIDE DEF t, i
<1>4. CASE i = StepK(t) - 1
  <2>1. aic'["MTE1"] = [tile |-> t + 1, step |-> 0]
    BY <1>1, <1>4 DEF Positive
  <2>2. Copied' = Index(t + 1, 0) /\ Released' = t + 1 /\ Taken' = t + 1
    BY <1>1, <2>1, NextCounts
  <2>. QED  BY <1>1, <1>2, <1>3, <1>4, <2>2, CountsKept DEF t, i
<1>5. CASE i # StepK(t) - 1
  <2>1. aic'["MTE1"] = [tile |-> t, step |-> i + 1]
    BY <1>1, <1>5 DEF Positive
  <2>2. Copied' = Index(t, i + 1) /\ Released' = t /\ Taken' = t + 1
    BY <1>1, <2>1, NextCounts
  <2>. QED  BY <1>1, <1>2, <1>3, <1>5, <2>2, CountsKept DEF t, i
<1>. QED  BY <1>4, <1>5

LEMMA MmadCounts ==
    ASSUME PlaceInv, Mmad, bufNum' = bufNum
    PROVE  LET t == AtTile("M")
               i == AtStep("M") IN
           /\ Multiplied' = Multiplied + 1
           /\ Started' = Started + (IF KOf(t) = 0 /\ i = 0 THEN 1 ELSE 0)
           /\ Ended' = Ended + (IF KOf(t) = KTiles - 1 /\ i = StepK(t) - 1 THEN 1 ELSE 0)
           /\ Ended = BlockOf(t) /\ Multiplied = Index(t, i)
           /\ (KOf(t) = 0 /\ i = 0 => Started = Ended)
           /\ UNCHANGED <<ALoaded, BLoaded, Taken, Released, Copied, Written>>
<1>. DEFINE t == AtTile("M")
            i == AtStep("M")
<1>1. /\ t \in Nat /\ i \in 0 .. StepK(t) - 1 /\ StepK(t) \in Positive
      /\ aic'["M"] = IF i + 1 < StepK(t) THEN [tile |-> t, step |-> i + 1]
                                         ELSE [tile |-> t + 1, step |-> 0]
      /\ \A p \in {"MTE2", "MTE1", "FIX"} : aic'[p] = aic[p]
  BY MmadStep, TileHasSteps DEF Moves, StepsAt, CubePipes
<1>2. /\ Multiplied = Index(t, i) /\ Ended = BlockOf(t)
      /\ Started = BlockOf(t) + (IF KOf(t) = 0 /\ i = 0 THEN 0 ELSE 1)
  BY DEF Multiplied, Ended, Started
<1>3. /\ Index(t, i + 1) = Index(t, i) + 1
      /\ i = StepK(t) - 1 => Index(t + 1, 0) = Index(t, i) + 1
      /\ BlockOf(t) \in Nat /\ KOf(t) \in 0 .. KTiles - 1 /\ KTiles \in Positive
      /\ KOf(t + 1) = IF KOf(t) = KTiles - 1 THEN 0 ELSE KOf(t) + 1
      /\ BlockOf(t + 1) = BlockOf(t) + (IF KOf(t) = KTiles - 1 THEN 1 ELSE 0)
  BY <1>1, IndexNext, TileNext, Shapes
<1>. HIDE DEF t, i
<1>4. CASE i = StepK(t) - 1
  <2>1. aic'["M"] = [tile |-> t + 1, step |-> 0]
    BY <1>1, <1>4 DEF Positive
  <2>2. /\ Multiplied' = Index(t + 1, 0) /\ Ended' = BlockOf(t + 1)
        /\ Started' = BlockOf(t + 1) + (IF KOf(t + 1) = 0 THEN 0 ELSE 1)
    BY <1>1, <2>1, NextCounts
  <2>. QED  BY <1>1, <1>2, <1>3, <1>4, <2>2, CountsKept DEF t, i, Positive
<1>5. CASE i # StepK(t) - 1
  <2>1. aic'["M"] = [tile |-> t, step |-> i + 1]
    BY <1>1, <1>5 DEF Positive
  <2>2. Multiplied' = Index(t, i + 1) /\ Ended' = BlockOf(t) /\ Started' = BlockOf(t) + 1
    BY <1>1, <2>1, NextCounts
  <2>. QED  BY <1>1, <1>2, <1>3, <1>5, <2>2, CountsKept DEF t, i
<1>. QED  BY <1>4, <1>5

LEMMA GetTensorCCounts ==
    ASSUME PlaceInv, GetTensorC, bufNum' = bufNum
    PROVE  /\ Written' = Written + 1
           /\ UNCHANGED <<ALoaded, BLoaded, Taken, Released, Copied, Multiplied, Started, Ended>>
<1>1. /\ AtTile("FIX") \in Nat /\ aic'["FIX"] = [tile |-> AtTile("FIX") + 1, step |-> 0]
      /\ \A p \in {"MTE2", "MTE1", "M"} : aic'[p] = aic[p]
  BY GetTensorCStep DEF Moves, StepsAt, CubePipes
<1>. QED  BY <1>1, NextCounts, CountsKept DEF Written
-----------------------------------------------------------------------------
(* How each step moves the events.                                         *)
NextEvents(kind, D) == [b \in D |-> flag'[<<kind, b>>]]

LEMMA EventsCounted ==
    ASSUME flag \in [Flags -> Nat], NEW waits, NEW sets, Counts(waits, sets), NEW kind, NEW D,
           \A a \in D : <<kind, a>> \in Flags, NEW b \in D
    PROVE  LET f == Events(kind, D)
               g == NextEvents(kind, D) IN
           /\ (\A a \in D : <<kind, a>> \notin waits \cup sets) => g = f
           /\ (\A a \in D : (<<kind, a>> \in waits <=> a = b) /\ <<kind, a>> \notin sets)
                => f[b] > 0 /\ Waited(f, g, b)
           /\ (\A a \in D : (<<kind, a>> \in sets <=> a = b) /\ <<kind, a>> \notin waits)
                => IsSet(f, g, b)
           /\ (\A a \in D : <<kind, a>> \in waits /\ <<kind, a>> \notin sets)
                => AllWaited(f, g)
<1>1. \A a \in D : flag[<<kind, a>>] \in Nat
  OBVIOUS
<1>2. \A a \in D : flag'[<<kind, a>>] = flag[<<kind, a>>] - (IF <<kind, a>> \in waits THEN 1 ELSE 0)
                                          + (IF <<kind, a>> \in sets THEN 1 ELSE 0)
  BY DEF Counts
<1>3. \A a \in D : <<kind, a>> \in waits => flag[<<kind, a>>] > 0
  BY DEF Counts
<1>. QED  BY <1>1, <1>2, <1>3 DEF Events, NextEvents, Waited, AllWaited, IsSet

LEMMA EventsKept ==
    ASSUME NEW kind, NEW D, \A a \in D : flag'[<<kind, a>>] = flag[<<kind, a>>]
    PROVE  NextEvents(kind, D) = Events(kind, D)
BY DEF NextEvents, Events

LEMMA CubeFlagsNext ==
    ASSUME bufNum' = bufNum
    PROVE  /\ L1Flags' <=>
                /\ FreeRing(NextEvents("MTE1_MTE2", Buffers), Released', ALoaded', InTurn(bufNum),
                            <<"AIC", "MTE2">> \in drained')
                /\ flag'[<<"MTE2_MTE1", 0>>] = BLoaded' - Taken'
           /\ ScaleFlags' <=>
                /\ FreeRing(NextEvents("SCALEA_FREE", {0, 1}), Group(Released'), Begun(ALoaded'),
                            InTurn(2), <<"AIC", "MTE2">> \in drained')
                /\ FreeRing(NextEvents("SCALEB_FREE", {0, 1}), Group(Released'), Begun(BLoaded'),
                            InTurn(2), <<"AIC", "MTE2">> \in drained')
           /\ L0Flags' <=>
                /\ FreeRing(NextEvents("M_MTE1", {0, 1}), Multiplied', Copied', L0Bufs,
                            <<"AIC", "MTE1">> \in drained')
                /\ FullEvents(NextEvents("MTE1_M", {0, 1}), Multiplied', Copied', L0Bufs)
           /\ CFlags' <=>
                /\ FreeRing(NextEvents("FIX_M", {0, 1}), Written', Started', InTurn(2),
                            <<"AIC", "M">> \in drained')
                /\ flag'[<<"M_FIX", 0>>] = Ended' - Written'
<1>1. Events("MTE1_MTE2", Buffers)' = NextEvents("MTE1_MTE2", Buffers)
  BY DEF Events, NextEvents, Buffers
<1>2. L1Flags' <=>
                /\ FreeRing(NextEvents("MTE1_MTE2", Buffers), Released', ALoaded', InTurn(bufNum),
                            <<"AIC", "MTE2">> \in drained')
                /\ flag'[<<"MTE2_MTE1", 0>>] = BLoaded' - Taken'
  BY <1>1 DEF L1Flags, FreeRing, Apart, Held, InTurn
<1>3. ScaleFlags' <=>
                /\ FreeRing(NextEvents("SCALEA_FREE", {0, 1}), Group(Released'), Begun(ALoaded'),
                            InTurn(2), <<"AIC", "MTE2">> \in drained')
                /\ FreeRing(NextEvents("SCALEB_FREE", {0, 1}), Group(Released'), Begun(BLoaded'),
                            InTurn(2), <<"AIC", "MTE2">> \in drained')
  <2>1. Events("SCALEA_FREE", {0, 1})' = NextEvents("SCALEA_FREE", {0, 1})
        /\ Events("SCALEB_FREE", {0, 1})' = NextEvents("SCALEB_FREE", {0, 1})
    BY DEF Events, NextEvents
  <2>2. Group(Released)' = Group(Released') /\ Begun(ALoaded)' = Begun(ALoaded')
        /\ Begun(BLoaded)' = Begun(BLoaded')
    BY DEF Group, Begun, OpensGroup, KOf, BlockOf, KTiles, CeilDiv
  <2>. QED  BY <2>1, <2>2 DEF ScaleFlags, FreeRing, Apart, Held, InTurn
<1>4. L0Bufs' = L0Bufs
  BY DEF L0Bufs, L0Buf, KFractal, TileAt, StepAt, BlockSteps, StepsPerTile, LastSteps, CeilDiv,
         KTiles, KOf
<1>5. L0Flags' <=>
                /\ FreeRing(NextEvents("M_MTE1", {0, 1}), Multiplied', Copied', L0Bufs,
                            <<"AIC", "MTE1">> \in drained')
                /\ FullEvents(NextEvents("MTE1_M", {0, 1}), Multiplied', Copied', L0Bufs)
  <2>1. Events("M_MTE1", {0, 1})' = NextEvents("M_MTE1", {0, 1})
        /\ Events("MTE1_M", {0, 1})' = NextEvents("MTE1_M", {0, 1})
    BY DEF Events, NextEvents
  <2>. QED  BY <1>4, <2>1 DEF L0Flags, FreeRing, FullEvents, Apart, Held
<1>6. CFlags' <=>
                /\ FreeRing(NextEvents("FIX_M", {0, 1}), Written', Started', InTurn(2),
                            <<"AIC", "M">> \in drained')
                /\ flag'[<<"M_FIX", 0>>] = Ended' - Written'
  <2>1. Events("FIX_M", {0, 1})' = NextEvents("FIX_M", {0, 1})
    BY DEF Events, NextEvents
  <2>. QED  BY <2>1 DEF CFlags, FreeRing, Apart, Held, InTurn
<1>. QED  BY <1>2, <1>3, <1>5, <1>6
-----------------------------------------------------------------------------
(* The events of the L1 tiles.                                             *)
LEMMA TurnIs ==
    ASSUME NEW n \in Positive
    PROVE  \A j \in Nat : InTurn(n)[j] = j % n /\ InTurn(n)[j] \in 0 .. n - 1
BY DivMod DEF InTurn

LEMMA FlagNames ==
    ASSUME bufNum \in BufNums
    PROVE  /\ Buffers \subseteq 0 .. MaxBufNum - 1
           /\ \A b \in 0 .. MaxBufNum - 1 : <<"MTE1_MTE2", b>> \in Flags
           /\ \A kind \in {"SCALEA_FREE", "SCALEB_FREE", "M_MTE1", "MTE1_M", "FIX_M"}, b \in {0, 1} :
                <<kind, b>> \in Flags
           /\ <<"MTE2_MTE1", 0>> \in Flags /\ <<"M_FIX", 0>> \in Flags
           /\ \A kind \in {"MTE2_V", "V_MTE2", "V_MTE3", "MTE3_V"}, v \in SubBlocks,
                 u \in 0 .. MaxBufNum - 1 : <<kind, v, u>> \in Flags
<1>1. Buffers \subseteq 0 .. MaxBufNum - 1
  BY BufNumIs, MaxBufNumIs DEF Buffers
<1>2. /\ \A b \in 0 .. MaxBufNum - 1 : <<"MTE1_MTE2", b>> \in Flags
      /\ \A kind \in {"SCALEA_FREE", "SCALEB_FREE", "M_MTE1", "MTE1_M", "FIX_M"}, b \in {0, 1} :
                <<kind, b>> \in Flags
      /\ <<"MTE2_MTE1", 0>> \in Flags /\ <<"M_FIX", 0>> \in Flags
  BY DEF Flags, AicFlags
<1>3. \A kind \in {"MTE2_V", "V_MTE2", "V_MTE3", "MTE3_V"}, v \in SubBlocks,
                 u \in 0 .. MaxBufNum - 1 : <<kind, v, u>> \in Flags
  BY DEF Flags, AivFlags
<1>. QED  BY <1>1, <1>2, <1>3

\* A step of a vector core leaves the cube core alone.
VectorAct(v) ==
    \/ CopyInWeight(v) \/ AntiQuantCompute(v) \/ CopyOutWeight(v)
    \/ \E p \in {"MTE2", "V"} : VectorDrains(p, v)
    \/ DrainCredits(v)

LEMMA CubeUntouched ==
    ASSUME PlaceInv, bufNum' = bufNum, NEW v \in SubBlocks, VectorAct(v)
    PROVE  /\ aic' = aic
           /\ \A p \in CubePipes : <<"AIC", p>> \in drained' <=> <<"AIC", p>> \in drained
           /\ Keeps({"MTE2_V", "V_MTE2", "V_MTE3", "MTE3_V", "CUBE_FREE", "VEC_READY"})
           /\ UNCHANGED <<ALoaded, BLoaded, Taken, Released, Copied, Multiplied, Started, Ended,
                          Written>>
<1>1. /\ aic' = aic
      /\ \A p \in CubePipes : <<"AIC", p>> \in drained' <=> <<"AIC", p>> \in drained
      /\ Keeps({"MTE2_V", "V_MTE2", "V_MTE3", "MTE3_V", "CUBE_FREE", "VEC_READY"})
  <2>1. CASE CopyInWeight(v)
    BY <2>1, CopyInWeightStep DEF CopyInWeight, Keeps, KeepsOther
  <2>2. CASE AntiQuantCompute(v)
    BY <2>2, AntiQuantComputeStep DEF AntiQuantCompute, Keeps, KeepsOther
  <2>3. CASE CopyOutWeight(v)
    BY <2>3, CopyOutWeightStep DEF CopyOutWeight, Keeps, KeepsOther
  <2>4. ASSUME NEW p \in {"MTE2", "V"}, VectorDrains(p, v)
        PROVE  /\ aic' = aic
               /\ \A q \in CubePipes : <<"AIC", q>> \in drained' <=> <<"AIC", q>> \in drained
               /\ Keeps({"MTE2_V", "V_MTE2", "V_MTE3", "MTE3_V", "CUBE_FREE", "VEC_READY"})
    <3>1. /\ aic' = aic /\ drained' = drained \cup {<<p, v>>}
          /\ KeepsOther(v, {IF p = "MTE2" THEN "V_MTE2" ELSE "MTE3_V"})
      BY <2>4, VectorDrainStep
    <3>2. \A q : <<"AIC", q>> # <<p, v>>
      OBVIOUS
    <3>. QED  BY <3>1, <3>2 DEF Keeps, KeepsOther
  <2>5. CASE DrainCredits(v)
    <3>1. /\ aic' = aic /\ drained' = drained \cup {<<"MTE3", v>>} /\ KeepsOther(v, {"CUBE_FREE"})
      BY <2>5, DrainCreditsStep
    <3>2. \A q : <<"AIC", q>> # <<"MTE3", v>>
      OBVIOUS
    <3>. QED  BY <3>1, <3>2 DEF Keeps, KeepsOther
  <2>. QED  BY <2>1, <2>2, <2>3, <2>4, <2>5 DEF VectorAct
<1>. QED  BY <1>1, CountsKept

\* What the steps of a destructor of the cube core leave alone.
LEMMA CubeDrainCounts ==
    ASSUME PlaceInv, NEW p \in {"MTE2", "MTE1", "M"}, CubeDrains(p), bufNum' = bufNum
    PROVE  /\ \A q \in CubePipes \ {p} : <<"AIC", q>> \in drained' <=> <<"AIC", q>> \in drained
           /\ <<"AIC", p>> \in drained'
           /\ UNCHANGED <<ALoaded, BLoaded, Taken, Released, Copied, Multiplied, Started, Ended,
                          Written>>
BY CubeDrainStep, CountsKept

\* The cube core copies a tile only after it is all there.
LEMMA TileIsThere ==
    ASSUME PlaceInv, L1Flags, CopyToL0, bufNum' = bufNum
    PROVE  Released < BLoaded /\ Taken' <= BLoaded
<1>. DEFINE t == AtTile("MTE1")
            i == AtStep("MTE1")
            f == <<"MTE2_MTE1", 0>>
<1>1. flag[f] \in Nat /\ flag[f] = BLoaded - Taken /\ f \in Flags
  BY FlagNames DEF PlaceInv, L1Flags
<1>2. i = 0 => flag[f] > 0
  <2>1. Counts({<<"M_MTE1", L0Buf(t, i)>>} \cup When(i = 0, TileReady(t)),
               {<<"MTE1_M", L0Buf(t, i)>>} \cup When(i = StepK(t) - 1, TileReleased(t)))
    BY CopyToL0Step
  <2>2. i = 0 => f \in {<<"M_MTE1", L0Buf(t, i)>>} \cup When(i = 0, TileReady(t))
    BY DEF When, TileReady
  <2>. HIDE DEF f, t, i
  <2>. QED  BY <2>1, <2>2 DEF Counts
<1>3. Taken' = Taken + (IF i = 0 THEN 1 ELSE 0) /\ Released = t /\ (i = 0 <=> Taken = t)
      /\ Released \in Nat /\ Taken \in Nat /\ BLoaded \in Nat /\ Released <= Taken
  BY CopyToL0Counts, CountTypes
<1>. HIDE DEF f, t, i
<1>. QED  BY <1>1, <1>2, <1>3

LEMMA L1FlagsStep ==
    ASSUME FlagInv, Next
    PROVE  L1Flags'
<1>. DEFINE B == InTurn(bufNum)
            off == <<"AIC", "MTE2">> \in drained
            handed == <<"MTE2_MTE1", 0>>
            f == Events("MTE1_MTE2", Buffers)
            g == NextEvents("MTE1_MTE2", Buffers)
<1>0. /\ bufNum' = bufNum /\ PlaceInv /\ bufNum \in BufNums /\ flag \in [Flags -> Nat]
      /\ FreeRing(f, Released, ALoaded, B, off) /\ flag[handed] = BLoaded - Taken
      /\ handed \in Flags /\ off \in BOOLEAN
      /\ \A b \in Buffers : <<"MTE1_MTE2", b>> \in Flags
      /\ Released \in Nat /\ ALoaded \in Nat /\ BLoaded \in Nat /\ Taken \in Nat
      /\ BLoaded <= ALoaded
  BY StepCases, FlagNames, CountTypes
     DEF FlagInv, CreditInv, PlaceInv, CubeFlagInv, L1Flags
<1>00. bufNum \in Positive /\ \A j \in Nat : B[j] = L1Buf(j) /\ B[j] \in Buffers
  <2>1. bufNum \in Positive
    BY <1>0, BufNumIs DEF Positive
  <2>. QED  BY <2>1, TurnIs DEF Buffers, L1Buf
<1>01. L1Flags' <=> /\ FreeRing(g, Released', ALoaded', B, <<"AIC", "MTE2">> \in drained')
                    /\ flag'[handed] = BLoaded' - Taken'
  BY <1>0, CubeFlagsNext
<1>02. DOMAIN f = Buffers
  BY DEF Events
<1>03. ASSUME UNCHANGED <<Released, ALoaded, BLoaded, Taken>>, flag'[handed] = flag[handed],
              <<"AIC", "MTE2">> \in drained' <=> off,
              \A b \in Buffers : flag'[<<"MTE1_MTE2", b>>] = flag[<<"MTE1_MTE2", b>>]
       PROVE  L1Flags'
  <2>1. g = f
    BY <1>03, EventsKept
  <2>. QED  BY <1>0, <1>01, <1>03, <2>1
<1>1. CASE LoadA
  <2>. DEFINE t == AtTile("MTE2")
              waits == {<<"MTE1_MTE2", L1Buf(t)>>}
                         \cup When(OpensGroup(t), {<<"SCALEA_FREE", ScaleBuf(t)>>})
  <2>1. /\ Counts(waits, {}) /\ Keeps({"MTE1_MTE2", "SCALEA_FREE"}) /\ drained' = drained
        /\ ALoaded = BLoaded /\ ALoaded' = ALoaded + 1 /\ UNCHANGED <<BLoaded, Taken, Released>>
        /\ t = BLoaded
    BY <1>0, <1>1, LoadAStep, LoadACounts DEF LoadA, BLoaded
  <2>2. \A a \in Buffers : (<<"MTE1_MTE2", a>> \in waits <=> a = L1Buf(t)) /\ <<"MTE1_MTE2", a>> \notin {}
    BY DEF When
  <2>3. B[ALoaded] = L1Buf(t) /\ L1Buf(t) \in Buffers
    BY <1>0, <1>00, <2>1
  <2>. HIDE DEF waits, t
  <2>4. f[L1Buf(t)] > 0 /\ Waited(f, g, L1Buf(t))
    BY <1>0, <2>1, <2>2, <2>3, EventsCounted
  <2>. HIDE DEF f, g, B, off
  <2>5. FreeRing(g, Released, ALoaded + 1, B, off)
    BY <1>0, <1>02, <2>3, <2>4, FreePut
  <2>6. flag'[handed] = flag[handed]
    BY <1>0, <2>1 DEF Keeps
  <2>. QED  BY <1>0, <1>01, <2>1, <2>5, <2>6 DEF off
<1>2. CASE LoadScaleB
  <2>. DEFINE t == AtTile("MTE2")
              waits == When(OpensGroup(t), {<<"SCALEB_FREE", ScaleBuf(t)>>})
  <2>1. /\ Counts(waits, {handed}) /\ Keeps({"MTE2_MTE1", "SCALEB_FREE"}) /\ drained' = drained
        /\ BLoaded' = BLoaded + 1 /\ UNCHANGED <<ALoaded, Taken, Released>>
    BY <1>0, <1>2, LoadScaleBStep, LoadScaleBCounts DEF LoadScaleB
  <2>2. g = f
    BY <1>0, <2>1, EventsKept DEF Keeps
  <2>3. handed \notin waits /\ flag[handed] \in Nat
    BY <1>0 DEF When
  <2>. HIDE DEF waits, handed
  <2>4. flag'[handed] = flag[handed] + 1
    BY <1>0, <2>1, <2>3 DEF Counts
  <2>. QED  BY <1>0, <1>01, <2>1, <2>2, <2>4
<1>3. CASE CopyToL0
  <2>. DEFINE t == AtTile("MTE1")
              i == AtStep("MTE1")
              waits == {<<"M_MTE1", L0Buf(t, i)>>} \cup When(i = 0, TileReady(t))
              sets == {<<"MTE1_M", L0Buf(t, i)>>} \cup When(i = StepK(t) - 1, TileReleased(t))
  <2>1. /\ Counts(waits, sets) /\ drained' = drained
        /\ Taken' = Taken + (IF i = 0 THEN 1 ELSE 0)
        /\ Released' = Released + (IF i = StepK(t) - 1 THEN 1 ELSE 0)
        /\ Released = t /\ UNCHANGED <<ALoaded, BLoaded>>
    BY <1>0, <1>3, CopyToL0Step, CopyToL0Counts DEF CopyToL0
  <2>2. Released < ALoaded
    BY <1>0, <1>3, TileIsThere DEF FlagInv, CubeFlagInv
  <2>3. flag'[handed] = flag[handed] - (IF i = 0 THEN 1 ELSE 0)
    <3>1. handed \notin sets /\ (handed \in waits <=> i = 0) /\ flag[handed] \in Nat
      BY <1>0 DEF When, TileReady, TileReleased, CubeFree, VecReady
    <3>. HIDE DEF waits, sets, handed, i
    <3>. QED  BY <1>0, <2>1, <3>1 DEF Counts
  <2>4. B[Released] = L1Buf(t) /\ L1Buf(t) \in Buffers
    BY <1>0, <1>00, <2>1
  <2>5. \A a \in Buffers :
          /\ <<"MTE1_MTE2", a>> \notin waits
          /\ <<"MTE1_MTE2", a>> \in sets <=> i = StepK(t) - 1 /\ a = L1Buf(t)
    BY DEF When, TileReady, TileReleased, CubeFree, VecReady
  <2>. HIDE DEF waits, sets, t, i
  <2>6. CASE i = StepK(t) - 1
    <3>1. IsSet(f, g, L1Buf(t))
      BY <1>0, <2>1, <2>4, <2>5, <2>6, EventsCounted
    <3>. HIDE DEF f, g, B, off
    <3>2. FreeRing(g, Released + 1, ALoaded, B, off)
      BY <1>0, <2>2, <2>4, <3>1, FreeTake
    <3>. QED  BY <1>0, <1>01, <2>1, <2>3, <2>6, <3>2 DEF off
  <2>7. CASE i # StepK(t) - 1
    <3>1. g = f
      BY <1>0, <2>1, <2>4, <2>5, <2>7, EventsCounted
    <3>. QED  BY <1>0, <1>01, <2>1, <2>3, <2>7, <3>1
  <2>. QED  BY <2>6, <2>7
<1>4. CASE CubeDrains("MTE2")
  <2>. DEFINE waits == ({"MTE1_MTE2"} \X (0 .. bufNum - 1)) \cup ({"SCALEA_FREE", "SCALEB_FREE"} \X {0, 1})
  <2>1. /\ Counts(waits, {}) /\ Keeps({"MTE1_MTE2", "SCALEA_FREE", "SCALEB_FREE"})
    BY <1>0, <1>4, CubeDrainStep
  <2>2. <<"AIC", "MTE2">> \in drained' /\ UNCHANGED <<ALoaded, BLoaded, Taken, Released>>
    BY <1>0, <1>4, CubeDrainCounts
  <2>3. \A a \in Buffers : <<"MTE1_MTE2", a>> \in waits /\ <<"MTE1_MTE2", a>> \notin {}
    BY DEF Buffers
  <2>4. 0 \in Buffers
    BY <1>00 DEF Buffers, Positive
  <2>. HIDE DEF waits
  <2>5. AllWaited(f, g)
    BY <1>0, <2>1, <2>3, <2>4, EventsCounted
  <2>6. B[Released] \in DOMAIN f
    BY <1>0, <1>00, <1>02
  <2>. HIDE DEF f, g, B, off
  <2>7. FreeRing(g, Released, ALoaded, B, <<"AIC", "MTE2">> \in drained')
    <3>0. FreeRing(f, Released, ALoaded, B, off) /\ Released \in Nat /\ ALoaded \in Nat
          /\ off \in BOOLEAN
      BY <1>0
    <3>1. ~off /\ Released = ALoaded /\ \A b \in DOMAIN g : g[b] = 0
      BY <2>5, <2>6, <3>0, FreeOff
    <3>. QED  BY <1>0, <2>2, <3>1 DEF FreeRing
  <2>8. flag'[handed] = flag[handed]
    BY <1>0, <2>1 DEF Keeps
  <2>. QED  BY <1>0, <1>01, <2>2, <2>7, <2>8
<1>5. CASE Mmad
  BY <1>0, <1>03, <1>5, MmadStep, MmadCounts DEF Mmad, Keeps
<1>6. CASE GetTensorC
  BY <1>0, <1>03, <1>6, GetTensorCStep, GetTensorCCounts DEF GetTensorC, Keeps
<1>7. ASSUME NEW p \in {"MTE1", "M"}, CubeDrains(p)
      PROVE  L1Flags'
  <2>1. Keeps({"M_MTE1", "FIX_M"}) /\ UNCHANGED <<ALoaded, BLoaded, Taken, Released>>
        /\ (<<"AIC", "MTE2">> \in drained' <=> off)
    BY <1>0, <1>7, CubeDrainStep, CubeDrainCounts DEF Keeps, CubePipes
  <2>. QED  BY <1>0, <1>03, <2>1 DEF Keeps
<1>8. ASSUME NEW v \in SubBlocks, VectorAct(v)
      PROVE  L1Flags'
  BY <1>0, <1>03, <1>8, CubeUntouched DEF Keeps, CubePipes
<1>. QED  BY <1>1, <1>2, <1>3, <1>4, <1>5, <1>6, <1>7, <1>8, StepCases DEF VectorAct
-----------------------------------------------------------------------------
(* The events of the scales, one ring for A and one for B.                 *)
ScaleRing(kind, n, off) ==
    FreeRing(Events(kind, {0, 1}), Group(Released), Begun(n), InTurn(2), off)
NextScaleRing(kind, n, off) ==
    FreeRing(NextEvents(kind, {0, 1}), Group(Released'), Begun(n), InTurn(2), off)

LEMMA ScaleTurn ==
    \A t \in Nat : Group(t) \in Nat /\ InTurn(2)[Group(t)] = ScaleBuf(t) /\ ScaleBuf(t) \in {0, 1}
<1>. SUFFICES ASSUME NEW t \in Nat
              PROVE  Group(t) \in Nat /\ InTurn(2)[Group(t)] = ScaleBuf(t) /\ ScaleBuf(t) \in {0, 1}
  OBVIOUS
<1>. DEFINE x == Group(t)
<1>1. x \in Nat
  BY GroupNext
<1>2. ScaleBuf(t) = x % 2
  BY DEF ScaleBuf
<1>. HIDE DEF x
<1>3. x % 2 \in {0, 1} /\ InTurn(2)[x] = x % 2
  BY <1>1 DEF InTurn
<1>. QED  BY <1>1, <1>2, <1>3 DEF x

LEMMA ScaleTaken ==
    ASSUME PlaceInv, bufNum' = bufNum, CopyToL0, NEW kind \in {"SCALEA_FREE", "SCALEB_FREE"},
           NEW n \in Nat, Released < n, NEW off \in BOOLEAN, ScaleRing(kind, n, off)
    PROVE  NextScaleRing(kind, n, off)
<1>. DEFINE t == AtTile("MTE1")
            i == AtStep("MTE1")
            waits == {<<"M_MTE1", L0Buf(t, i)>>} \cup When(i = 0, TileReady(t))
            sets == {<<"MTE1_M", L0Buf(t, i)>>} \cup When(i = StepK(t) - 1, TileReleased(t))
            f == Events(kind, {0, 1})
            g == NextEvents(kind, {0, 1})
            B == InTurn(2)
<1>1. /\ Counts(waits, sets) /\ Released = t /\ t \in Nat /\ flag \in [Flags -> Nat]
      /\ Released' = t + (IF i = StepK(t) - 1 THEN 1 ELSE 0)
      /\ \A b \in {0, 1} : <<kind, b>> \in Flags
  BY CopyToL0Step, CopyToL0Counts, FlagNames, CountTypes DEF PlaceInv
<1>2. /\ B[Group(t)] = ScaleBuf(t) /\ ScaleBuf(t) \in {0, 1} /\ Group(t) \in Nat
      /\ Group(t + 1) = Group(t) + (IF ClosesGroup(t) THEN 1 ELSE 0)
      /\ Group(t) < Begun(n) /\ Begun(n) \in Nat
  BY <1>1, ScaleTurn, GroupNext, GroupBegun, BegunNext
<1>3. FreeRing(f, Group(t), Begun(n), B, off)
  BY <1>1 DEF ScaleRing
<1>4. \A a \in {0, 1} :
        /\ <<kind, a>> \notin waits
        /\ <<kind, a>> \in sets <=> i = StepK(t) - 1 /\ ClosesGroup(t) /\ a = ScaleBuf(t)
  BY DEF When, TileReady, TileReleased, CubeFree, VecReady
<1>. HIDE DEF waits, sets, t, i
<1>5. CASE i = StepK(t) - 1 /\ ClosesGroup(t)
  <2>1. IsSet(f, g, ScaleBuf(t))
    BY <1>1, <1>2, <1>4, <1>5, EventsCounted
  <2>. HIDE DEF f, g, B
  <2>2. FreeRing(g, Group(t) + 1, Begun(n), B, off)
    BY <1>2, <1>3, <2>1, FreeTake
  <2>3. Group(Released') = Group(t) + 1
    BY <1>1, <1>2, <1>5
  <2>. QED  BY <2>2, <2>3 DEF NextScaleRing, g, B
<1>6. CASE ~(i = StepK(t) - 1 /\ ClosesGroup(t))
  <2>0. \A a \in {0, 1} : <<kind, a>> \notin waits \cup sets
    BY <1>4, <1>6
  <2>1. g = f
    BY <1>1, <1>2, <2>0, EventsCounted
  <2>2. Group(Released') = Group(t)
    BY <1>1, <1>2, <1>6
  <2>. QED  BY <1>3, <2>1, <2>2 DEF NextScaleRing
<1>. QED  BY <1>5, <1>6

\* A load of the scales by LoadA or LoadScaleB: only with the first tile of a group.
LEMMA ScaleLoaded ==
    ASSUME flag \in [Flags -> Nat], bufNum \in BufNums, NEW kind \in {"SCALEA_FREE", "SCALEB_FREE"},
           NEW n \in Nat, NEW off \in BOOLEAN, ScaleRing(kind, n, off), Released \in Nat,
           Released' = Released, NEW waits, NEW sets, Counts(waits, sets),
           \A a \in {0, 1} : /\ <<kind, a>> \notin sets
                             /\ <<kind, a>> \in waits <=> OpensGroup(n) /\ a = ScaleBuf(n)
    PROVE  NextScaleRing(kind, n + 1, off)
<1>. DEFINE f == Events(kind, {0, 1})
            g == NextEvents(kind, {0, 1})
            B == InTurn(2)
            lo == Group(Released)
<1>1. /\ B[Group(n)] = ScaleBuf(n) /\ ScaleBuf(n) \in {0, 1} /\ lo \in Nat
      /\ Begun(n) \in Nat /\ Begun(n + 1) = Begun(n) + (IF OpensGroup(n) THEN 1 ELSE 0)
      /\ OpensGroup(n) => Begun(n) = Group(n)
      /\ \A b \in {0, 1} : <<kind, b>> \in Flags
  BY ScaleTurn, BegunNext, FlagNames
<1>2. FreeRing(f, lo, Begun(n), B, off) /\ DOMAIN f = {0, 1}
  BY DEF ScaleRing, Events
<1>3. CASE OpensGroup(n)
  <2>1. f[ScaleBuf(n)] > 0 /\ Waited(f, g, ScaleBuf(n))
    BY <1>1, <1>3, EventsCounted
  <2>2. B[Begun(n)] = ScaleBuf(n) /\ Begun(n + 1) = Begun(n) + 1
    BY <1>1, <1>3
  <2>. HIDE DEF f, g, B, lo
  <2>3. FreeRing(g, lo, Begun(n) + 1, B, off)
    BY <1>1, <1>2, <2>1, <2>2, FreePut
  <2>. QED  BY <2>2, <2>3 DEF NextScaleRing, g, B, lo
<1>4. CASE ~OpensGroup(n)
  <2>1. g = f
    BY <1>1, <1>4, EventsCounted
  <2>. QED  BY <1>1, <1>2, <1>4, <2>1 DEF NextScaleRing
<1>. QED  BY <1>3, <1>4

LEMMA ScaleDrained ==
    ASSUME PlaceInv, bufNum' = bufNum, CubeDrains("MTE2"),
           NEW kind \in {"SCALEA_FREE", "SCALEB_FREE"}, NEW n \in Nat, NEW off \in BOOLEAN,
           ScaleRing(kind, n, off)
    PROVE  NextScaleRing(kind, n, <<"AIC", "MTE2">> \in drained')
<1>. DEFINE waits == ({"MTE1_MTE2"} \X (0 .. bufNum - 1)) \cup ({"SCALEA_FREE", "SCALEB_FREE"} \X {0, 1})
            f == Events(kind, {0, 1})
            g == NextEvents(kind, {0, 1})
            B == InTurn(2)
<1>1. /\ Counts(waits, {}) /\ Released' = Released /\ Released \in Nat /\ flag \in [Flags -> Nat]
      /\ <<"AIC", "MTE2">> \in drained'
      /\ \A b \in {0, 1} : <<kind, b>> \in Flags
  BY CubeDrainStep, CubeDrainCounts, FlagNames, CountTypes DEF PlaceInv
<1>2. \A a \in {0, 1} : <<kind, a>> \in waits /\ <<kind, a>> \notin {}
  OBVIOUS
<1>. HIDE DEF waits
<1>3. AllWaited(f, g)
  BY <1>1, <1>2, EventsCounted
<1>4. /\ Group(Released) \in Nat /\ Begun(n) \in Nat /\ B[Group(Released)] \in DOMAIN f
      /\ FreeRing(f, Group(Released), Begun(n), B, off)
  BY <1>1, ScaleTurn, BegunNext DEF Events, ScaleRing
<1>. HIDE DEF f, g, B
<1>5. ~off /\ Group(Released) = Begun(n) /\ \A b \in DOMAIN g : g[b] = 0
  BY <1>3, <1>4, FreeOff
<1>. QED  BY <1>1, <1>4, <1>5 DEF NextScaleRing, FreeRing, g, B

LEMMA ScaleFlagsStep ==
    ASSUME FlagInv, Next
    PROVE  ScaleFlags'
<1>. DEFINE off == <<"AIC", "MTE2">> \in drained
            next == <<"AIC", "MTE2">> \in drained'
            A == "SCALEA_FREE"
            B == "SCALEB_FREE"
<1>0. /\ bufNum' = bufNum /\ PlaceInv /\ bufNum \in BufNums /\ flag \in [Flags -> Nat]
      /\ ScaleRing(A, ALoaded, off) /\ ScaleRing(B, BLoaded, off) /\ off \in BOOLEAN
      /\ Released \in Nat /\ ALoaded \in Nat /\ BLoaded \in Nat /\ BLoaded <= ALoaded
      /\ \A b \in {0, 1} : <<A, b>> \in Flags /\ <<B, b>> \in Flags
  BY StepCases, CountTypes, FlagNames
     DEF FlagInv, CreditInv, PlaceInv, CubeFlagInv, ScaleFlags, ScaleRing
<1>01. ScaleFlags' <=> NextScaleRing(A, ALoaded', next) /\ NextScaleRing(B, BLoaded', next)
  BY <1>0, CubeFlagsNext DEF NextScaleRing
<1>02. ASSUME NEW kind, NEW n, ScaleRing(kind, n, off), Released' = Released, next <=> off,
              \A b \in {0, 1} : flag'[<<kind, b>>] = flag[<<kind, b>>]
       PROVE  NextScaleRing(kind, n, next)
  <2>1. NextEvents(kind, {0, 1}) = Events(kind, {0, 1})
    BY <1>02, EventsKept
  <2>. QED  BY <1>02, <2>1 DEF ScaleRing, NextScaleRing
<1>03. ASSUME UNCHANGED <<Released, ALoaded, BLoaded>>, next <=> off,
              \A b \in {0, 1} : flag'[<<A, b>>] = flag[<<A, b>>] /\ flag'[<<B, b>>] = flag[<<B, b>>]
       PROVE  ScaleFlags'
  BY <1>0, <1>01, <1>02, <1>03
<1>1. CASE LoadA
  <2>. DEFINE t == AtTile("MTE2")
              waits == {<<"MTE1_MTE2", L1Buf(t)>>}
                         \cup When(OpensGroup(t), {<<"SCALEA_FREE", ScaleBuf(t)>>})
  <2>1. /\ Counts(waits, {}) /\ Keeps({"MTE1_MTE2", "SCALEA_FREE"}) /\ drained' = drained
        /\ ALoaded' = ALoaded + 1 /\ UNCHANGED <<BLoaded, Released>> /\ t = ALoaded
    BY <1>0, <1>1, LoadAStep, LoadACounts DEF LoadA, BLoaded
  <2>2. \A a \in {0, 1} : /\ <<A, a>> \notin {}
                          /\ <<A, a>> \in waits <=> OpensGroup(t) /\ a = ScaleBuf(t)
    BY DEF When
  <2>. HIDE DEF waits, t
  <2>3. NextScaleRing(A, ALoaded + 1, off)
    BY <1>0, <2>1, <2>2, ScaleLoaded
  <2>4. NextScaleRing(B, BLoaded, next)
    BY <1>0, <1>02, <2>1 DEF Keeps
  <2>. QED  BY <1>01, <2>1, <2>3, <2>4
<1>2. CASE LoadScaleB
  <2>. DEFINE t == AtTile("MTE2")
              waits == When(OpensGroup(t), {<<"SCALEB_FREE", ScaleBuf(t)>>})
              sets == {<<"MTE2_MTE1", 0>>}
  <2>1. /\ Counts(waits, sets) /\ Keeps({"MTE2_MTE1", "SCALEB_FREE"}) /\ drained' = drained
        /\ BLoaded' = BLoaded + 1 /\ UNCHANGED <<ALoaded, Released>> /\ t = BLoaded
    BY <1>0, <1>2, LoadScaleBStep, LoadScaleBCounts DEF LoadScaleB, BLoaded
  <2>2. \A a \in {0, 1} : /\ <<B, a>> \notin sets
                          /\ <<B, a>> \in waits <=> OpensGroup(t) /\ a = ScaleBuf(t)
    BY DEF When
  <2>. HIDE DEF waits, sets, t
  <2>3. NextScaleRing(B, BLoaded + 1, off)
    BY <1>0, <2>1, <2>2, ScaleLoaded
  <2>4. NextScaleRing(A, ALoaded, next)
    BY <1>0, <1>02, <2>1 DEF Keeps
  <2>. QED  BY <1>01, <2>1, <2>3, <2>4
<1>3. CASE CopyToL0
  <2>1. drained' = drained /\ UNCHANGED <<ALoaded, BLoaded>> /\ Released < BLoaded
    BY <1>0, <1>3, CopyToL0Counts, TileIsThere DEF CopyToL0, FlagInv, CubeFlagInv
  <2>2. A \in {"SCALEA_FREE", "SCALEB_FREE"} /\ B \in {"SCALEA_FREE", "SCALEB_FREE"}
        /\ Released < ALoaded
    BY <1>0, <2>1
  <2>. HIDE DEF A, B, off
  <2>3. NextScaleRing(A, ALoaded, off)
    BY <1>0, <1>3, <2>2, ScaleTaken
  <2>4. NextScaleRing(B, BLoaded, off)
    BY <1>0, <1>3, <2>1, <2>2, ScaleTaken
  <2>. QED  BY <1>01, <2>1, <2>3, <2>4 DEF off
<1>4. CASE CubeDrains("MTE2")
  BY <1>0, <1>01, <1>4, ScaleDrained, CubeDrainCounts
<1>5. CASE Mmad
  BY <1>0, <1>03, <1>5, MmadStep, MmadCounts DEF Mmad, Keeps
<1>6. CASE GetTensorC
  BY <1>0, <1>03, <1>6, GetTensorCStep, GetTensorCCounts DEF GetTensorC, Keeps
<1>7. ASSUME NEW p \in {"MTE1", "M"}, CubeDrains(p)
      PROVE  ScaleFlags'
  <2>1. Keeps({"M_MTE1", "FIX_M"}) /\ UNCHANGED <<ALoaded, BLoaded, Released>> /\ (next <=> off)
    BY <1>0, <1>7, CubeDrainStep, CubeDrainCounts DEF Keeps, CubePipes
  <2>. QED  BY <1>0, <1>03, <2>1 DEF Keeps
<1>8. ASSUME NEW v \in SubBlocks, VectorAct(v)
      PROVE  ScaleFlags'
  BY <1>0, <1>03, <1>8, CubeUntouched DEF Keeps, CubePipes
<1>. QED  BY <1>1, <1>2, <1>3, <1>4, <1>5, <1>6, <1>7, <1>8, StepCases DEF VectorAct
-----------------------------------------------------------------------------
(* The events of the halves of L0 and of L0C.                              *)
LEMMA L0BufAt ==
    ASSUME NEW t \in Nat, NEW i \in 0 .. StepK(t) - 1
    PROVE  L0Bufs[Index(t, i)] = L0Buf(t, i) /\ L0Buf(t, i) \in {0, 1}
<1>1. Index(t, i) \in Nat /\ TileAt(Index(t, i)) = t /\ StepAt(Index(t, i)) = i
  BY IndexIs
<1>2. i \in Nat
  BY TileHasSteps DEF Positive
<1>. QED  BY <1>1, <1>2, L0BufIs DEF L0Bufs

LEMMA L0FlagsStep ==
    ASSUME FlagInv, Next
    PROVE  L0Flags'
<1>. DEFINE B == L0Bufs
            off == <<"AIC", "MTE1">> \in drained
            D == {0, 1}
            f == Events("M_MTE1", D)
            g == NextEvents("M_MTE1", D)
            h == Events("MTE1_M", D)
            k == NextEvents("MTE1_M", D)
<1>0. /\ bufNum' = bufNum /\ PlaceInv /\ bufNum \in BufNums /\ flag \in [Flags -> Nat]
      /\ FreeRing(f, Multiplied, Copied, B, off) /\ FullEvents(h, Multiplied, Copied, B)
      /\ off \in BOOLEAN /\ Multiplied \in Nat /\ Copied \in Nat
      /\ \A b \in D : <<"M_MTE1", b>> \in Flags /\ <<"MTE1_M", b>> \in Flags
  BY StepCases, FlagNames, CountTypes
     DEF FlagInv, CreditInv, PlaceInv, CubeFlagInv, L0Flags
<1>00. \A t \in Nat : \A i \in 0 .. StepK(t) - 1 : B[Index(t, i)] = L0Buf(t, i) /\ L0Buf(t, i) \in D
  BY L0BufAt
<1>01. L0Flags' <=> /\ FreeRing(g, Multiplied', Copied', B, <<"AIC", "MTE1">> \in drained')
                    /\ FullEvents(k, Multiplied', Copied', B)
  BY <1>0, CubeFlagsNext
<1>02. DOMAIN f = D /\ DOMAIN h = D
  BY DEF Events
<1>03. ASSUME UNCHANGED <<Multiplied, Copied>>, <<"AIC", "MTE1">> \in drained' <=> off,
              \A b \in D : /\ flag'[<<"M_MTE1", b>>] = flag[<<"M_MTE1", b>>]
                           /\ flag'[<<"MTE1_M", b>>] = flag[<<"MTE1_M", b>>]
       PROVE  L0Flags'
  <2>1. g = f /\ k = h
    BY <1>03, EventsKept
  <2>. QED  BY <1>0, <1>01, <1>03, <2>1
<1>1. CASE CopyToL0
  <2>. DEFINE t == AtTile("MTE1")
              i == AtStep("MTE1")
              b == L0Buf(t, i)
              waits == {<<"M_MTE1", b>>} \cup When(i = 0, TileReady(t))
              sets == {<<"MTE1_M", b>>} \cup When(i = StepK(t) - 1, TileReleased(t))
  <2>1. /\ Counts(waits, sets) /\ drained' = drained
        /\ Copied' = Copied + 1 /\ Copied = Index(t, i) /\ Multiplied' = Multiplied
        /\ t \in Nat /\ i \in 0 .. StepK(t) - 1
    BY <1>0, <1>1, CopyToL0Step, CopyToL0Counts DEF CopyToL0
  <2>2. B[Copied] = b /\ b \in D
    BY <1>00, <2>1
  <2>3. \A a \in D : /\ <<"M_MTE1", a>> \in waits <=> a = b
                     /\ <<"M_MTE1", a>> \notin sets
                     /\ <<"MTE1_M", a>> \in sets <=> a = b
                     /\ <<"MTE1_M", a>> \notin waits
    BY DEF When, TileReady, TileReleased, CubeFree, VecReady
  <2>. HIDE DEF waits, sets, t, i, b
  <2>4. f[b] > 0 /\ Waited(f, g, b) /\ IsSet(h, k, b)
    BY <1>0, <2>1, <2>2, <2>3, EventsCounted
  <2>. HIDE DEF f, g, h, k, B, off, D
  <2>5. ~Held(Multiplied, Copied, B, b) /\ FreeRing(g, Multiplied, Copied + 1, B, off)
    BY <1>0, <1>02, <2>2, <2>4, FreePut
  <2>6. Multiplied <= Copied
    BY <1>0 DEF FreeRing, Apart
  <2>7. FullEvents(k, Multiplied, Copied + 1, B)
    BY <1>0, <2>2, <2>4, <2>5, <2>6, FullPut
  <2>. QED  BY <1>01, <2>1, <2>5, <2>7 DEF off
<1>2. CASE Mmad
  <2>. DEFINE t == AtTile("M")
              i == AtStep("M")
              b == L0Buf(t, i)
              waits == {<<"MTE1_M", b>>}
                         \cup When(KFractal(t, i) = 0, {<<"FIX_M", CHalf(BlockOf(t))>>})
              sets == {<<"M_MTE1", b>>}
                         \cup When(KOf(t) = KTiles - 1 /\ i = StepK(t) - 1, {<<"M_FIX", 0>>})
  <2>1. /\ Counts(waits, sets) /\ drained' = drained
        /\ Multiplied' = Multiplied + 1 /\ Multiplied = Index(t, i) /\ Copied' = Copied
        /\ t \in Nat /\ i \in 0 .. StepK(t) - 1
    BY <1>0, <1>2, MmadStep, MmadCounts DEF Mmad
  <2>2. B[Multiplied] = b /\ b \in D
    BY <1>00, <2>1
  <2>3. \A a \in D : /\ <<"MTE1_M", a>> \in waits <=> a = b
                     /\ <<"MTE1_M", a>> \notin sets
                     /\ <<"M_MTE1", a>> \in sets <=> a = b
                     /\ <<"M_MTE1", a>> \notin waits
    BY DEF When
  <2>. HIDE DEF waits, sets, t, i, b
  <2>4. h[b] > 0 /\ Waited(h, k, b) /\ IsSet(f, g, b)
    BY <1>0, <2>1, <2>2, <2>3, EventsCounted
  <2>. HIDE DEF f, g, h, k, B, off, D
  <2>5. Apart(Multiplied, Copied, B)
    BY <1>0 DEF FreeRing
  <2>6. Multiplied < Copied /\ FullEvents(k, Multiplied + 1, Copied, B)
    BY <1>0, <1>02, <2>2, <2>4, <2>5, FullTake
  <2>7. FreeRing(g, Multiplied + 1, Copied, B, off)
    BY <1>0, <2>2, <2>4, <2>6, FreeTake
  <2>. QED  BY <1>01, <2>1, <2>6, <2>7 DEF off
<1>3. CASE CubeDrains("MTE1")
  <2>. DEFINE waits == {"M_MTE1"} \X {0, 1}
  <2>1. /\ Counts(waits, {}) /\ Keeps({"M_MTE1"}) /\ <<"AIC", "MTE1">> \in drained'
        /\ UNCHANGED <<Multiplied, Copied>>
    BY <1>0, <1>3, CubeDrainStep, CubeDrainCounts
  <2>2. \A a \in D : <<"M_MTE1", a>> \in waits /\ <<"M_MTE1", a>> \notin {}
    OBVIOUS
  <2>. HIDE DEF waits
  <2>3. AllWaited(f, g)
    BY <1>0, <2>1, <2>2, EventsCounted
  <2>4. B[Multiplied] \in DOMAIN f
    <3>1. PlaceOK("M", aic["M"]) /\ AtTile("M") \in Nat
      BY <1>0 DEF PlaceInv, CubeInv, CubePipes, AtTile
    <3>2. AtStep("M") \in 0 .. StepK(AtTile("M")) - 1 /\ Multiplied = Index(AtTile("M"), AtStep("M"))
      BY <3>1 DEF PlaceOK, StepsAt, AtTile, AtStep, Multiplied
    <3>. QED  BY <1>00, <1>02, <3>1, <3>2
  <2>5. k = h
    BY <1>0, <2>1, EventsKept DEF Keeps
  <2>. HIDE DEF f, g, h, k, B, off, D
  <2>6. ~off /\ Multiplied = Copied /\ \A b \in DOMAIN g : g[b] = 0
    BY <1>0, <2>3, <2>4, FreeOff
  <2>. QED  BY <1>0, <1>01, <2>1, <2>5, <2>6 DEF FreeRing
<1>4. CASE LoadA
  BY <1>0, <1>03, <1>4, LoadAStep, LoadACounts DEF LoadA, Keeps
<1>5. CASE LoadScaleB
  BY <1>0, <1>03, <1>5, LoadScaleBStep, LoadScaleBCounts DEF LoadScaleB, Keeps
<1>6. CASE GetTensorC
  BY <1>0, <1>03, <1>6, GetTensorCStep, GetTensorCCounts DEF GetTensorC, Keeps
<1>7. ASSUME NEW p \in {"MTE2", "M"}, CubeDrains(p)
      PROVE  L0Flags'
  <2>1. Keeps({"MTE1_MTE2", "SCALEA_FREE", "SCALEB_FREE", "FIX_M"}) /\ UNCHANGED <<Multiplied, Copied>>
        /\ (<<"AIC", "MTE1">> \in drained' <=> off)
    BY <1>0, <1>7, CubeDrainStep, CubeDrainCounts DEF Keeps, CubePipes
  <2>. QED  BY <1>0, <1>03, <2>1 DEF Keeps
<1>8. ASSUME NEW v \in SubBlocks, VectorAct(v)
      PROVE  L0Flags'
  BY <1>0, <1>03, <1>8, CubeUntouched DEF Keeps, CubePipes
<1>. QED  BY <1>1, <1>2, <1>3, <1>4, <1>5, <1>6, <1>7, <1>8, StepCases DEF VectorAct

LEMMA CFlagsStep ==
    ASSUME FlagInv, Next
    PROVE  CFlags'
<1>. DEFINE B == InTurn(2)
            off == <<"AIC", "M">> \in drained
            D == {0, 1}
            full == <<"M_FIX", 0>>
            f == Events("FIX_M", D)
            g == NextEvents("FIX_M", D)
<1>0. /\ bufNum' = bufNum /\ PlaceInv /\ bufNum \in BufNums /\ flag \in [Flags -> Nat]
      /\ FreeRing(f, Written, Started, B, off) /\ flag[full] = Ended - Written
      /\ off \in BOOLEAN /\ Written \in Nat /\ Started \in Nat /\ Ended \in Nat /\ Ended <= Started
      /\ full \in Flags /\ \A b \in D : <<"FIX_M", b>> \in Flags
  BY StepCases, FlagNames, CountTypes
     DEF FlagInv, CreditInv, PlaceInv, CubeFlagInv, CFlags
<1>00. \A b \in Nat : B[b] = CHalf(b) /\ CHalf(b) \in D
  BY DEF InTurn, CHalf
<1>01. CFlags' <=> /\ FreeRing(g, Written', Started', B, <<"AIC", "M">> \in drained')
                   /\ flag'[full] = Ended' - Written'
  BY <1>0, CubeFlagsNext
<1>02. DOMAIN f = D
  BY DEF Events
<1>03. ASSUME UNCHANGED <<Written, Started, Ended>>, <<"AIC", "M">> \in drained' <=> off,
              flag'[full] = flag[full], \A b \in D : flag'[<<"FIX_M", b>>] = flag[<<"FIX_M", b>>]
       PROVE  CFlags'
  <2>1. g = f
    BY <1>03, EventsKept
  <2>. QED  BY <1>0, <1>01, <1>03, <2>1
<1>1. CASE Mmad
  <2>. DEFINE t == AtTile("M")
              i == AtStep("M")
              b == CHalf(BlockOf(t))
              first == KOf(t) = 0 /\ i = 0
              last == KOf(t) = KTiles - 1 /\ i = StepK(t) - 1
              waits == {<<"MTE1_M", L0Buf(t, i)>>}
                         \cup When(KFractal(t, i) = 0, {<<"FIX_M", CHalf(BlockOf(t))>>})
              sets == {<<"M_MTE1", L0Buf(t, i)>>} \cup When(last, {<<"M_FIX", 0>>})
  <2>1. /\ Counts(waits, sets) /\ drained' = drained
        /\ Started' = Started + (IF first THEN 1 ELSE 0)
        /\ Ended' = Ended + (IF last THEN 1 ELSE 0)
        /\ Ended = BlockOf(t) /\ (first => Started = Ended) /\ Written' = Written
        /\ t \in Nat /\ i \in 0 .. StepK(t) - 1
    BY <1>0, <1>1, MmadStep, MmadCounts DEF Mmad
  <2>2. (KFractal(t, i) = 0 <=> first) /\ (first => B[Started] = b) /\ b \in D
    <3>1. i \in Nat /\ BlockOf(t) \in Nat
      BY <1>0, <2>1, TileHasSteps DEF Positive
    <3>. QED  BY <1>00, <2>1, <3>1, FirstProduct
  <2>3. /\ \A a \in D : /\ <<"FIX_M", a>> \in waits <=> first /\ a = b
                        /\ <<"FIX_M", a>> \notin sets
        /\ full \notin waits /\ (full \in sets <=> last)
    <3>. HIDE DEF first, last, t, i
    <3>. QED  BY <2>2 DEF When
  <2>. HIDE DEF waits, sets, b, first, last
  <2>4. flag'[full] = flag[full] + (IF last THEN 1 ELSE 0)
    <3>1. flag[full] \in Nat
      BY <1>0
    <3>. HIDE DEF full
    <3>. QED  BY <1>0, <2>1, <2>3, <3>1 DEF Counts
  <2>5. CASE first
    <3>1. f[b] > 0 /\ Waited(f, g, b)
      BY <1>0, <2>1, <2>2, <2>3, <2>5, EventsCounted
    <3>. HIDE DEF f, g, B, off, D
    <3>2. FreeRing(g, Written, Started + 1, B, off)
      BY <1>0, <1>02, <2>2, <2>5, <3>1, FreePut
    <3>. QED  BY <1>0, <1>01, <2>1, <2>4, <2>5, <3>2 DEF off
  <2>6. CASE ~first
    <3>0. \A a \in D : <<"FIX_M", a>> \notin waits \cup sets
      BY <2>3, <2>6
    <3>1. g = f
      BY <1>0, <2>1, <2>2, <3>0, EventsCounted
    <3>. QED  BY <1>0, <1>01, <2>1, <2>4, <2>6, <3>1
  <2>. QED  BY <2>5, <2>6
<1>2. CASE GetTensorC
  <2>. DEFINE b == CHalf(AtTile("FIX"))
              waits == {full}
              sets == {<<"FIX_M", b>>}
  <2>1. /\ Counts(waits, sets) /\ drained' = drained
        /\ Written' = Written + 1 /\ Written = AtTile("FIX") /\ UNCHANGED <<Started, Ended>>
    BY <1>0, <1>2, GetTensorCStep, GetTensorCCounts DEF GetTensorC, Written
  <2>2. B[Written] = b /\ b \in D
    BY <1>0, <1>00, <2>1
  <2>3. /\ \A a \in D : /\ <<"FIX_M", a>> \in sets <=> a = b
                        /\ <<"FIX_M", a>> \notin waits
        /\ full \in waits /\ full \notin sets
    OBVIOUS
  <2>. HIDE DEF waits, sets, b
  <2>4. IsSet(f, g, b)
    BY <1>0, <2>1, <2>2, <2>3, EventsCounted
  <2>5. flag[full] > 0 /\ flag'[full] = flag[full] - 1 /\ flag[full] \in Nat
    <3>1. flag[full] \in Nat
      BY <1>0
    <3>. HIDE DEF full
    <3>. QED  BY <1>0, <2>1, <2>3, <3>1 DEF Counts
  <2>6. Written < Started
    BY <1>0, <2>5
  <2>. HIDE DEF f, g, B, off, D
  <2>7. FreeRing(g, Written + 1, Started, B, off)
    BY <1>0, <2>2, <2>4, <2>6, FreeTake
  <2>. QED  BY <1>0, <1>01, <2>1, <2>5, <2>7 DEF off
<1>3. CASE CubeDrains("M")
  <2>. DEFINE waits == {"FIX_M"} \X {0, 1}
  <2>1. /\ Counts(waits, {}) /\ Keeps({"FIX_M"}) /\ <<"AIC", "M">> \in drained'
        /\ UNCHANGED <<Written, Started, Ended>>
    BY <1>0, <1>3, CubeDrainStep, CubeDrainCounts
  <2>2. \A a \in D : <<"FIX_M", a>> \in waits /\ <<"FIX_M", a>> \notin {}
    OBVIOUS
  <2>. HIDE DEF waits
  <2>3. AllWaited(f, g)
    BY <1>0, <2>1, <2>2, EventsCounted
  <2>4. B[Written] \in DOMAIN f
    BY <1>0, <1>00, <1>02
  <2>5. flag'[full] = flag[full]
    BY <1>0, <2>1 DEF Keeps
  <2>. HIDE DEF f, g, B, off, D
  <2>6. ~off /\ Written = Started /\ \A b \in DOMAIN g : g[b] = 0
    BY <1>0, <2>3, <2>4, FreeOff
  <2>. QED  BY <1>0, <1>01, <2>1, <2>5, <2>6 DEF FreeRing
<1>4. CASE LoadA
  BY <1>0, <1>03, <1>4, LoadAStep, LoadACounts DEF LoadA, Keeps
<1>5. CASE LoadScaleB
  BY <1>0, <1>03, <1>5, LoadScaleBStep, LoadScaleBCounts DEF LoadScaleB, Keeps
<1>6. CASE CopyToL0
  BY <1>0, <1>03, <1>6, CopyToL0Step, CopyToL0Counts DEF CopyToL0, Keeps
<1>7. ASSUME NEW p \in {"MTE2", "MTE1"}, CubeDrains(p)
      PROVE  CFlags'
  <2>1. /\ Keeps({"MTE1_MTE2", "SCALEA_FREE", "SCALEB_FREE", "M_MTE1"})
        /\ UNCHANGED <<Written, Started, Ended>>
        /\ (<<"AIC", "M">> \in drained' <=> off)
    BY <1>0, <1>7, CubeDrainStep, CubeDrainCounts DEF Keeps, CubePipes
  <2>. QED  BY <1>0, <1>03, <2>1 DEF Keeps
<1>8. ASSUME NEW v \in SubBlocks, VectorAct(v)
      PROVE  CFlags'
  BY <1>0, <1>03, <1>8, CubeUntouched DEF Keeps, CubePipes
<1>. QED  BY <1>1, <1>2, <1>3, <1>4, <1>5, <1>6, <1>7, <1>8, StepCases DEF VectorAct
-----------------------------------------------------------------------------
(* The events of the unified buffers of a vector core.                     *)
UbKinds == {"MTE2_V", "V_MTE2", "V_MTE3", "MTE3_V"}
NextUbRing(v, free, full, lo, hi, off) ==
    /\ FreeRing([u \in Buffers |-> flag'[<<free, v, u>>] + (IF ~off /\ u >= hi THEN 1 ELSE 0)],
                lo, hi, InTurn(bufNum), off)
    /\ FullEvents([u \in Buffers |-> flag'[<<full, v, u>>]], lo, hi, InTurn(bufNum))

LEMMA UbFlagsNext ==
    ASSUME bufNum' = bufNum, NEW v \in SubBlocks
    PROVE  /\ UbInFlags(v)' <=> NextUbRing(v, "V_MTE2", "MTE2_V", Piece(v, "V")', Piece(v, "MTE2")',
                                           <<"MTE2", v>> \in drained')
           /\ UbOutFlags(v)' <=> NextUbRing(v, "MTE3_V", "V_MTE3", Piece(v, "MTE3")', Piece(v, "V")',
                                            <<"V", v>> \in drained')
<1>1. UbInFlags(v)' <=> NextUbRing(v, "V_MTE2", "MTE2_V", Piece(v, "V")', Piece(v, "MTE2")',
                                           <<"MTE2", v>> \in drained')
  BY DEF UbInFlags, UbRing, NextUbRing, FreshOf, EventsOf, FreeRing, FullEvents, Apart, Held, InTurn,
         Buffers
<1>2. UbOutFlags(v)' <=> NextUbRing(v, "MTE3_V", "V_MTE3", Piece(v, "MTE3")', Piece(v, "V")',
                                            <<"V", v>> \in drained')
  BY DEF UbOutFlags, UbRing, NextUbRing, FreshOf, EventsOf, FreeRing, FullEvents, Apart, Held, InTurn,
         Buffers
<1>. QED  BY <1>1, <1>2

LEMMA UbKept ==
    ASSUME NEW v \in SubBlocks, NEW free, NEW full, NEW lo, NEW hi, NEW off,
           UbRing(v, free, full, lo, hi, off),
           \A u \in Buffers : /\ flag'[<<free, v, u>>] = flag[<<free, v, u>>]
                              /\ flag'[<<full, v, u>>] = flag[<<full, v, u>>]
    PROVE  NextUbRing(v, free, full, lo, hi, off)
BY DEF UbRing, NextUbRing, FreshOf, EventsOf

NextEventsOf(v, kind) == [u \in Buffers |-> flag'[<<kind, v, u>>]]

\* The events of one kind of a vector core, by buffer.
LEMMA EventsOfCounted ==
    ASSUME flag \in [Flags -> Nat], bufNum \in BufNums, NEW v \in SubBlocks, NEW kind \in UbKinds,
           NEW waits, NEW sets, Counts(waits, sets), NEW u \in Buffers
    PROVE  /\ EventsOf(v, kind)[u] \in Nat /\ NextEventsOf(v, kind)[u] \in Nat
           /\ NextEventsOf(v, kind)[u]
                = EventsOf(v, kind)[u] - (IF <<kind, v, u>> \in waits THEN 1 ELSE 0)
                                       + (IF <<kind, v, u>> \in sets THEN 1 ELSE 0)
           /\ <<kind, v, u>> \in waits => EventsOf(v, kind)[u] > 0
<1>. DEFINE x == <<kind, v, u>>
<1>1. x \in Flags /\ flag[x] \in Nat
  BY FlagNames DEF UbKinds
<1>2. EventsOf(v, kind)[u] = flag[x] /\ NextEventsOf(v, kind)[u] = flag'[x]
  BY DEF EventsOf, NextEventsOf
<1>. HIDE DEF x
<1>3. /\ flag'[x] = flag[x] - (IF x \in waits THEN 1 ELSE 0) + (IF x \in sets THEN 1 ELSE 0)
      /\ x \in waits => flag[x] > 0
  BY <1>1 DEF Counts
<1>. QED  BY <1>1, <1>2, <1>3 DEF x

\* The producer fills the buffer of its next piece.
LEMMA UbPut ==
    ASSUME flag \in [Flags -> Nat], bufNum \in BufNums, NEW v \in SubBlocks,
           NEW free \in UbKinds, NEW full \in UbKinds, NEW lo \in Nat, NEW hi \in Nat,
           NEW off \in BOOLEAN, ~off, UbRing(v, free, full, lo, hi, off),
           NEW waits, NEW sets, Counts(waits, sets),
           \A u \in Buffers : /\ <<free, v, u>> \in waits <=> hi >= bufNum /\ u = UbBuf(hi)
                              /\ <<free, v, u>> \notin sets
                              /\ <<full, v, u>> \in sets <=> u = UbBuf(hi)
                              /\ <<full, v, u>> \notin waits
    PROVE  NextUbRing(v, free, full, lo, hi + 1, off)
<1>. DEFINE B == InTurn(bufNum)
            b == UbBuf(hi)
            a == EventsOf(v, free)
            c == NextEventsOf(v, free)
            f == FreshOf(v, free, hi, off)
            g == [u \in Buffers |-> flag'[<<free, v, u>>] + (IF ~off /\ u >= hi + 1 THEN 1 ELSE 0)]
            h == EventsOf(v, full)
            k == NextEventsOf(v, full)
<1>1. bufNum \in Nat /\ b \in Buffers /\ B[hi] = b /\ (hi < bufNum => b = hi)
  <2>1. bufNum \in {1, 2, 4}
    BY BufNumIs
  <2>2. bufNum \in Positive /\ bufNum \in Nat
    BY <2>1 DEF Positive
  <2>3. hi < bufNum => hi % bufNum = hi
    BY <2>1
  <2>. QED  BY <2>2, <2>3, TurnIs DEF UbBuf, Buffers
<1>2. \A u \in Buffers :
        /\ f[u] = a[u] + (IF u >= hi THEN 1 ELSE 0)
        /\ g[u] = c[u] + (IF u >= hi + 1 THEN 1 ELSE 0)
        /\ u \in Nat /\ u < bufNum
  BY <1>1 DEF FreshOf, EventsOf, NextEventsOf, Buffers
<1>3. /\ DOMAIN f = Buffers /\ DOMAIN g = Buffers
      /\ DOMAIN h = Buffers /\ DOMAIN k = Buffers
  BY DEF FreshOf, EventsOf, NextEventsOf
<1>4. FreeRing(f, lo, hi, B, off) /\ FullEvents(h, lo, hi, B)
  BY DEF UbRing
<1>5. \A u \in Buffers :
        /\ a[u] \in Nat /\ c[u] = a[u] - (IF hi >= bufNum /\ u = b THEN 1 ELSE 0)
        /\ hi >= bufNum /\ u = b => a[u] > 0
        /\ h[u] \in Nat /\ k[u] = h[u] + (IF u = b THEN 1 ELSE 0)
  <2>. SUFFICES ASSUME NEW u \in Buffers
                PROVE  /\ a[u] \in Nat /\ c[u] = a[u] - (IF hi >= bufNum /\ u = b THEN 1 ELSE 0)
                       /\ hi >= bufNum /\ u = b => a[u] > 0
                       /\ h[u] \in Nat /\ k[u] = h[u] + (IF u = b THEN 1 ELSE 0)
    OBVIOUS
  <2>1. /\ a[u] \in Nat /\ h[u] \in Nat
        /\ c[u] = a[u] - (IF <<free, v, u>> \in waits THEN 1 ELSE 0)
                       + (IF <<free, v, u>> \in sets THEN 1 ELSE 0)
        /\ <<free, v, u>> \in waits => a[u] > 0
        /\ k[u] = h[u] - (IF <<full, v, u>> \in waits THEN 1 ELSE 0)
                       + (IF <<full, v, u>> \in sets THEN 1 ELSE 0)
    BY EventsOfCounted
  <2>. HIDE DEF a, c, h, k
  <2>. QED  BY <2>1
<1>. HIDE DEF a, b, c, f, g, h, k, B
<1>6. f[b] > 0
  BY <1>1, <1>2, <1>5
<1>7. Waited(f, g, b) /\ IsSet(h, k, b)
  <2>1. \A u \in Buffers : g[u] = f[u] - (IF u = b THEN 1 ELSE 0)
    BY <1>1, <1>2, <1>5
  <2>. QED  BY <1>3, <1>5, <2>1 DEF Waited, IsSet
<1>8. ~Held(lo, hi, B, b) /\ FreeRing(g, lo, hi + 1, B, off)
  BY <1>1, <1>3, <1>4, <1>6, <1>7, FreePut
<1>9. FullEvents(k, lo, hi + 1, B)
  <2>1. lo <= hi
    BY <1>4 DEF FreeRing, Apart
  <2>. QED  BY <1>1, <1>4, <1>7, <1>8, <2>1, FullPut
<1>. QED  BY <1>8, <1>9 DEF NextUbRing, NextEventsOf, g, k, B

\* The consumer empties the buffer of its next piece.
LEMMA UbTake ==
    ASSUME flag \in [Flags -> Nat], bufNum \in BufNums, NEW v \in SubBlocks,
           NEW free \in UbKinds, NEW full \in UbKinds, NEW lo \in Nat, NEW hi \in Nat,
           NEW off \in BOOLEAN, UbRing(v, free, full, lo, hi, off),
           NEW waits, NEW sets, Counts(waits, sets),
           \A u \in Buffers : /\ <<full, v, u>> \in waits <=> u = UbBuf(lo)
                              /\ <<full, v, u>> \notin sets
                              /\ <<free, v, u>> \in sets <=> u = UbBuf(lo)
                              /\ <<free, v, u>> \notin waits
    PROVE  lo < hi /\ NextUbRing(v, free, full, lo + 1, hi, off)
<1>. DEFINE B == InTurn(bufNum)
            b == UbBuf(lo)
            a == EventsOf(v, free)
            c == NextEventsOf(v, free)
            f == FreshOf(v, free, hi, off)
            g == [u \in Buffers |-> flag'[<<free, v, u>>] + (IF ~off /\ u >= hi THEN 1 ELSE 0)]
            h == EventsOf(v, full)
            k == NextEventsOf(v, full)
            fresh == [u \in Buffers |-> IF ~off /\ u >= hi THEN 1 ELSE 0]
<1>1. b \in Buffers /\ B[lo] = b
  <2>1. bufNum \in Positive
    BY BufNumIs DEF Positive
  <2>. QED  BY <2>1, TurnIs DEF UbBuf, Buffers
<1>2. \A u \in Buffers : f[u] = a[u] + fresh[u] /\ g[u] = c[u] + fresh[u] /\ fresh[u] \in {0, 1}
  BY DEF FreshOf, EventsOf, NextEventsOf
<1>3. /\ DOMAIN f = Buffers /\ DOMAIN g = Buffers
      /\ DOMAIN h = Buffers /\ DOMAIN k = Buffers
  BY DEF FreshOf, EventsOf, NextEventsOf
<1>4. FreeRing(f, lo, hi, B, off) /\ FullEvents(h, lo, hi, B) /\ Apart(lo, hi, B)
  BY DEF UbRing, FreeRing
<1>5. \A u \in Buffers :
        /\ a[u] \in Nat /\ c[u] = a[u] + (IF u = b THEN 1 ELSE 0)
        /\ h[u] \in Nat /\ k[u] = h[u] - (IF u = b THEN 1 ELSE 0)
        /\ u = b => h[u] > 0
  <2>. SUFFICES ASSUME NEW u \in Buffers
                PROVE  /\ a[u] \in Nat /\ c[u] = a[u] + (IF u = b THEN 1 ELSE 0)
                       /\ h[u] \in Nat /\ k[u] = h[u] - (IF u = b THEN 1 ELSE 0)
                       /\ u = b => h[u] > 0
    OBVIOUS
  <2>1. /\ a[u] \in Nat /\ h[u] \in Nat
        /\ c[u] = a[u] - (IF <<free, v, u>> \in waits THEN 1 ELSE 0)
                       + (IF <<free, v, u>> \in sets THEN 1 ELSE 0)
        /\ <<full, v, u>> \in waits => h[u] > 0
        /\ k[u] = h[u] - (IF <<full, v, u>> \in waits THEN 1 ELSE 0)
                       + (IF <<full, v, u>> \in sets THEN 1 ELSE 0)
    BY EventsOfCounted
  <2>. HIDE DEF a, c, h, k
  <2>. QED  BY <2>1
<1>. HIDE DEF a, b, c, f, g, h, k, B, fresh
<1>6. h[b] > 0 /\ Waited(h, k, b)
  BY <1>1, <1>3, <1>5 DEF Waited
<1>7. IsSet(f, g, b)
  <2>1. \A u \in Buffers : g[u] = f[u] + (IF u = b THEN 1 ELSE 0)
    BY <1>2, <1>5
  <2>. QED  BY <1>3, <2>1 DEF IsSet
<1>8. lo < hi /\ FullEvents(k, lo + 1, hi, B)
  BY <1>1, <1>3, <1>4, <1>6, FullTake
<1>9. FreeRing(g, lo + 1, hi, B, off)
  BY <1>1, <1>4, <1>7, <1>8, FreeTake
<1>. QED  BY <1>8, <1>9 DEF NextUbRing, NextEventsOf, g, k, B

\* The buffers the destructor of an AIV waits for are those it has used.
LEMMA UsedUbIs ==
    ASSUME bufNum \in BufNums, NEW v \in SubBlocks
    PROVE  UsedUb(v) = {u \in Buffers : u < NumPieces[v]}
<1>1. NumPieces[v] \in Nat
  BY PieceCounts
<1>. DEFINE n == NumPieces[v]
<1>2. UsedUb(v) = CASE Quad -> {u \in Buffers : u <= n - 1}
                    [] ~Quad -> {u \in Buffers : n - 1 > 0 \/ (n - 1 = 0 /\ u = 0)}
  BY DEF UsedUb, Buffers
<1>. HIDE DEF n
<1>3. CASE bufNum = 4
  BY <1>1, <1>2, <1>3 DEF Quad, Buffers, n
<1>4. CASE bufNum \in {1, 2}
  BY <1>1, <1>2, <1>4 DEF Quad, Buffers, n
<1>. QED  BY <1>3, <1>4, BufNumIs

\* The destructor waits for the buffers its pipe has used.
LEMMA UbOff ==
    ASSUME flag \in [Flags -> Nat], bufNum \in BufNums, NEW v \in SubBlocks,
           NEW free \in UbKinds, NEW full \in UbKinds, free # full,
           NEW lo \in Nat, NEW hi, hi = NumPieces[v],
           NEW off \in BOOLEAN, ~off, UbRing(v, free, full, lo, hi, off),
           Counts({<<free, v, u>> : u \in UsedUb(v)}, {}), NEW now \in BOOLEAN, now
    PROVE  NextUbRing(v, free, full, lo, hi, now)
<1>. DEFINE B == InTurn(bufNum)
            a == EventsOf(v, free)
            c == NextEventsOf(v, free)
            f == FreshOf(v, free, hi, off)
            g == [u \in Buffers |-> flag'[<<free, v, u>>] + (IF ~now /\ u >= hi THEN 1 ELSE 0)]
            h == EventsOf(v, full)
            k == NextEventsOf(v, full)
            waits == {<<free, v, u>> : u \in UsedUb(v)}
<1>1. hi \in Nat /\ B[lo] \in DOMAIN f
  <2>1. bufNum \in Positive
    BY BufNumIs DEF Positive
  <2>. QED  BY <2>1, PieceCounts, TurnIs DEF Buffers, FreshOf
<1>2. \A u \in Buffers :
        f[u] = a[u] + (IF u >= hi THEN 1 ELSE 0) /\ g[u] = c[u] + 0 /\ u \in Nat
  BY BufNumIs DEF FreshOf, EventsOf, NextEventsOf, Buffers
<1>3. /\ DOMAIN f = Buffers /\ DOMAIN g = Buffers
      /\ DOMAIN h = Buffers /\ DOMAIN k = Buffers
  BY DEF FreshOf, EventsOf, NextEventsOf
<1>4. FreeRing(f, lo, hi, B, off) /\ FullEvents(h, lo, hi, B)
  BY DEF UbRing
<1>5. \A u \in Buffers :
        /\ a[u] \in Nat /\ c[u] = a[u] - (IF u < hi THEN 1 ELSE 0) /\ (u < hi => a[u] > 0)
        /\ h[u] \in Nat /\ k[u] = h[u]
  <2>. SUFFICES ASSUME NEW u \in Buffers
                PROVE  /\ a[u] \in Nat /\ c[u] = a[u] - (IF u < hi THEN 1 ELSE 0)
                       /\ (u < hi => a[u] > 0) /\ h[u] \in Nat /\ k[u] = h[u]
    OBVIOUS
  <2>1. (<<free, v, u>> \in waits <=> u < hi) /\ <<full, v, u>> \notin waits
    BY UsedUbIs
  <2>2. Counts(waits, {})
    OBVIOUS
  <2>. HIDE DEF waits
  <2>3. /\ a[u] \in Nat /\ h[u] \in Nat
        /\ c[u] = a[u] - (IF <<free, v, u>> \in waits THEN 1 ELSE 0)
                       + (IF <<free, v, u>> \in {} THEN 1 ELSE 0)
        /\ <<free, v, u>> \in waits => a[u] > 0
        /\ k[u] = h[u] - (IF <<full, v, u>> \in waits THEN 1 ELSE 0)
                       + (IF <<full, v, u>> \in {} THEN 1 ELSE 0)
    BY <2>2, EventsOfCounted
  <2>. HIDE DEF a, c, h, k
  <2>. QED  BY <2>1, <2>3
<1>. HIDE DEF a, c, f, g, h, k, B
<1>6. AllWaited(f, g)
  BY <1>1, <1>2, <1>3, <1>5 DEF AllWaited
<1>7. FullEvents(k, lo, hi, B)
  BY <1>3, <1>4, <1>5 DEF FullEvents
<1>8. lo = hi /\ \A u \in DOMAIN g : g[u] = 0
  BY <1>1, <1>4, <1>6, FreeOff
<1>9. FreeRing(g, lo, hi, B, now)
  BY <1>4, <1>8 DEF FreeRing
<1>. QED  BY <1>7, <1>9 DEF NextUbRing, NextEventsOf, g, k, B
-----------------------------------------------------------------------------
\* A step of the cube core leaves the events and the counts of the vector cores alone.
CubeAct ==
    \/ LoadA \/ LoadScaleB \/ CopyToL0 \/ Mmad \/ GetTensorC
    \/ \E p \in {"MTE2", "MTE1", "M"} : CubeDrains(p)

LEMMA VectorUntouched ==
    ASSUME PlaceInv, bufNum' = bufNum, CubeAct
    PROVE  /\ aiv' = aiv
           /\ \A p \in VectorPipes, v \in SubBlocks : <<p, v>> \in drained' <=> <<p, v>> \in drained
           /\ \A f \in Flags : f[1] \in UbKinds => flag'[f] = flag[f]
<1>1. CASE LoadA
  BY <1>1, LoadAStep DEF LoadA, Keeps, UbKinds
<1>2. CASE LoadScaleB
  BY <1>2, LoadScaleBStep DEF LoadScaleB, Keeps, UbKinds
<1>3. CASE CopyToL0
  BY <1>3, CopyToL0Step DEF CopyToL0, Keeps, UbKinds
<1>4. CASE Mmad
  BY <1>4, MmadStep DEF Mmad, Keeps, UbKinds
<1>5. CASE GetTensorC
  BY <1>5, GetTensorCStep DEF GetTensorC, Keeps, UbKinds
<1>6. ASSUME NEW p \in {"MTE2", "MTE1", "M"}, CubeDrains(p)
      PROVE  /\ aiv' = aiv
             /\ \A q \in VectorPipes, v \in SubBlocks : <<q, v>> \in drained' <=> <<q, v>> \in drained
             /\ \A f \in Flags : f[1] \in UbKinds => flag'[f] = flag[f]
  <2>1. /\ aiv' = aiv /\ drained' = drained \cup {<<"AIC", p>>}
        /\ Keeps({"MTE1_MTE2", "SCALEA_FREE", "SCALEB_FREE", "M_MTE1", "FIX_M"})
    BY <1>6, CubeDrainStep DEF Keeps
  <2>2. \A q \in VectorPipes, v \in SubBlocks : <<q, v>> # <<"AIC", p>>
    BY DEF VectorPipes
  <2>. QED  BY <2>1, <2>2 DEF Keeps, UbKinds
<1>. QED  BY <1>1, <1>2, <1>3, <1>4, <1>5, <1>6 DEF CubeAct

\* A step of one vector core leaves those of the other alone.
LEMMA OtherUntouched ==
    ASSUME PlaceInv, bufNum' = bufNum, NEW w \in SubBlocks, VectorAct(w), NEW v \in SubBlocks, v # w
    PROVE  /\ \A p \in VectorPipes : Piece(v, p)' = Piece(v, p)
           /\ \A p \in VectorPipes : <<p, v>> \in drained' <=> <<p, v>> \in drained
           /\ \A f \in Flags : f[2] = v => flag'[f] = flag[f]
<1>1. CASE CopyInWeight(w)
  BY <1>1, CopyInWeightStep DEF CopyInWeight, KeepsOther, Counted, Piece
<1>2. CASE AntiQuantCompute(w)
  BY <1>2, AntiQuantComputeStep DEF AntiQuantCompute, KeepsOther, Counted, Piece
<1>3. CASE CopyOutWeight(w)
  BY <1>3, CopyOutWeightStep DEF CopyOutWeight, KeepsOther, Counted, Piece
<1>4. ASSUME NEW p \in {"MTE2", "V"}, VectorDrains(p, w)
      PROVE  /\ \A q \in VectorPipes : Piece(v, q)' = Piece(v, q)
             /\ \A q \in VectorPipes : <<q, v>> \in drained' <=> <<q, v>> \in drained
             /\ \A f \in Flags : f[2] = v => flag'[f] = flag[f]
  <2>1. /\ aiv' = aiv /\ drained' = drained \cup {<<p, w>>}
        /\ KeepsOther(w, {IF p = "MTE2" THEN "V_MTE2" ELSE "MTE3_V"})
    BY <1>4, VectorDrainStep
  <2>2. \A q : <<q, v>> # <<p, w>>
    OBVIOUS
  <2>3. \A q \in VectorPipes : Piece(v, q)' = Piece(v, q)
    BY <2>1 DEF Piece
  <2>4. \A q \in VectorPipes : <<q, v>> \in drained' <=> <<q, v>> \in drained
    BY <2>1, <2>2
  <2>5. \A f \in Flags : f[2] = v => flag'[f] = flag[f]
    BY <2>1 DEF KeepsOther
  <2>. QED  BY <2>3, <2>4, <2>5
<1>5. CASE DrainCredits(w)
  <2>1. aiv' = aiv /\ drained' = drained \cup {<<"MTE3", w>>} /\ KeepsOther(w, {"CUBE_FREE"})
    BY <1>5, DrainCreditsStep
  <2>2. \A q : <<q, v>> # <<"MTE3", w>>
    OBVIOUS
  <2>3. \A q \in VectorPipes : Piece(v, q)' = Piece(v, q)
    BY <2>1 DEF Piece
  <2>4. \A q \in VectorPipes : <<q, v>> \in drained' <=> <<q, v>> \in drained
    BY <2>1, <2>2
  <2>5. \A f \in Flags : f[2] = v => flag'[f] = flag[f]
    BY <2>1 DEF KeepsOther
  <2>. QED  BY <2>3, <2>4, <2>5
<1>. QED  BY <1>1, <1>2, <1>3, <1>4, <1>5 DEF VectorAct

LEMMA UbKeptIn ==
    ASSUME bufNum' = bufNum, bufNum \in BufNums, NEW v \in SubBlocks, UbInFlags(v),
           Piece(v, "V")' = Piece(v, "V"), Piece(v, "MTE2")' = Piece(v, "MTE2"),
           <<"MTE2", v>> \in drained' <=> <<"MTE2", v>> \in drained,
           \A f \in Flags : f[2] = v /\ f[1] \in {"V_MTE2", "MTE2_V"} => flag'[f] = flag[f]
    PROVE  UbInFlags(v)'
<1>1. \A u \in Buffers : /\ flag'[<<"V_MTE2", v, u>>] = flag[<<"V_MTE2", v, u>>]
                         /\ flag'[<<"MTE2_V", v, u>>] = flag[<<"MTE2_V", v, u>>]
  BY FlagNames
<1>. DEFINE was == <<"MTE2", v>> \in drained
            now == <<"MTE2", v>> \in drained'
            lo  == Piece(v, "V")
            hi  == Piece(v, "MTE2")
<1>2. NextUbRing(v, "V_MTE2", "MTE2_V", lo, hi, was)
  BY <1>1, UbKept DEF UbInFlags
<1>3. was = now
  OBVIOUS
<1>4. UbInFlags(v)' <=> NextUbRing(v, "V_MTE2", "MTE2_V", lo, hi, now)
  BY UbFlagsNext
<1>. HIDE DEF was, now, lo, hi
<1>. QED  BY <1>2, <1>3, <1>4

LEMMA UbKeptOut ==
    ASSUME bufNum' = bufNum, bufNum \in BufNums, NEW v \in SubBlocks, UbOutFlags(v),
           Piece(v, "MTE3")' = Piece(v, "MTE3"), Piece(v, "V")' = Piece(v, "V"),
           <<"V", v>> \in drained' <=> <<"V", v>> \in drained,
           \A f \in Flags : f[2] = v /\ f[1] \in {"MTE3_V", "V_MTE3"} => flag'[f] = flag[f]
    PROVE  UbOutFlags(v)'
<1>1. \A u \in Buffers : /\ flag'[<<"MTE3_V", v, u>>] = flag[<<"MTE3_V", v, u>>]
                         /\ flag'[<<"V_MTE3", v, u>>] = flag[<<"V_MTE3", v, u>>]
  BY FlagNames
<1>. DEFINE was == <<"V", v>> \in drained
            now == <<"V", v>> \in drained'
            lo  == Piece(v, "MTE3")
            hi  == Piece(v, "V")
<1>2. NextUbRing(v, "MTE3_V", "V_MTE3", lo, hi, was)
  BY <1>1, UbKept DEF UbOutFlags
<1>3. was = now
  OBVIOUS
<1>4. UbOutFlags(v)' <=> NextUbRing(v, "MTE3_V", "V_MTE3", lo, hi, now)
  BY UbFlagsNext
<1>. HIDE DEF was, now, lo, hi
<1>. QED  BY <1>2, <1>3, <1>4

LEMMA UbFlagsStep ==
    ASSUME FlagInv, Next, NEW v \in SubBlocks
    PROVE  UbInFlags(v)' /\ UbOutFlags(v)'
<1>. DEFINE in == <<"MTE2", v>> \in drained
            away == <<"V", v>> \in drained
<1>0. /\ bufNum' = bufNum /\ PlaceInv /\ bufNum \in BufNums /\ flag \in [Flags -> Nat]
      /\ UbInFlags(v) /\ UbOutFlags(v) /\ in \in BOOLEAN /\ away \in BOOLEAN
      /\ \A p \in VectorPipes : Piece(v, p) \in Nat /\ Piece(v, p)' = aiv'[v][p]
      /\ in => ~HasPiece(v, "MTE2")
      /\ away => ~HasPiece(v, "V")
  <2>1. bufNum' = bufNum /\ PlaceInv /\ bufNum \in BufNums /\ flag \in [Flags -> Nat]
    BY StepCases DEF FlagInv, CreditInv, PlaceInv
  <2>2. UbInFlags(v) /\ UbOutFlags(v)
    BY DEF FlagInv, VectorFlagInv
  <2>3. \A p \in VectorPipes : Piece(v, p) \in Nat /\ Piece(v, p)' = aiv'[v][p]
    BY <2>1 DEF PlaceInv, VectorInv, Piece
  <2>4. "MTE2" \in VectorPipes /\ "V" \in VectorPipes
    BY DEF VectorPipes
  <2>5. (in => ~HasPiece(v, "MTE2")) /\ (away => ~HasPiece(v, "V"))
    BY <2>4 DEF FlagInv, ThroughInv
  <2>. QED  BY <2>1, <2>2, <2>3, <2>5
<1>1. CASE CubeAct
  <2>1. /\ \A p \in VectorPipes : Piece(v, p)' = Piece(v, p)
        /\ \A p \in VectorPipes : <<p, v>> \in drained' <=> <<p, v>> \in drained
        /\ \A f \in Flags : f[1] \in UbKinds => flag'[f] = flag[f]
    BY <1>0, <1>1, VectorUntouched DEF Piece
  <2>2. UbInFlags(v)'
    BY <1>0, <2>1, UbKeptIn DEF UbKinds, VectorPipes
  <2>3. UbOutFlags(v)'
    BY <1>0, <2>1, UbKeptOut DEF UbKinds, VectorPipes
  <2>. QED  BY <2>2, <2>3
<1>2. ASSUME NEW w \in SubBlocks, VectorAct(w), w # v
      PROVE  UbInFlags(v)' /\ UbOutFlags(v)'
  <2>1. /\ \A p \in VectorPipes : Piece(v, p)' = Piece(v, p)
        /\ \A p \in VectorPipes : <<p, v>> \in drained' <=> <<p, v>> \in drained
        /\ \A f \in Flags : f[2] = v => flag'[f] = flag[f]
    BY <1>0, <1>2, OtherUntouched
  <2>2. UbInFlags(v)'
    BY <1>0, <2>1, UbKeptIn DEF VectorPipes
  <2>3. UbOutFlags(v)'
    BY <1>0, <2>1, UbKeptOut DEF VectorPipes
  <2>. QED  BY <2>2, <2>3
<1>3. CASE CopyInWeight(v)
  <2>. DEFINE j == Piece(v, "MTE2")
              waits == When(j >= bufNum, {<<"V_MTE2", v, UbBuf(j)>>})
              sets == {<<"MTE2_V", v, UbBuf(j)>>}
  <2>1. /\ Counts(waits, sets) /\ Counted(v, "MTE2") /\ j \in 0 .. NumPieces[v] - 1
        /\ KeepsOther(v, {"V_MTE2", "MTE2_V"}) /\ drained' = drained
    BY <1>0, <1>3, CopyInWeightStep DEF CopyInWeight
  <2>2. /\ Piece(v, "MTE2")' = j + 1 /\ Piece(v, "V")' = Piece(v, "V")
        /\ Piece(v, "MTE3")' = Piece(v, "MTE3") /\ j \in Nat /\ Piece(v, "V") \in Nat /\ ~in
    BY <1>0, <2>1, PieceCounts DEF Counted, VectorPipes, Piece, HasPiece
  <2>3. \A u \in Buffers : /\ <<"V_MTE2", v, u>> \in waits <=> j >= bufNum /\ u = UbBuf(j)
                           /\ <<"V_MTE2", v, u>> \notin sets
                           /\ <<"MTE2_V", v, u>> \in sets <=> u = UbBuf(j)
                           /\ <<"MTE2_V", v, u>> \notin waits
    BY DEF When
  <2>4. UbRing(v, "V_MTE2", "MTE2_V", Piece(v, "V"), j, in)
    BY <1>0 DEF UbInFlags
  <2>. HIDE DEF waits, sets, j, in
  <2>5. NextUbRing(v, "V_MTE2", "MTE2_V", Piece(v, "V"), j + 1, in)
    BY <1>0, <2>1, <2>2, <2>3, <2>4, UbPut DEF UbKinds
  <2>6. UbInFlags(v)'
    BY <1>0, <2>1, <2>2, <2>5, UbFlagsNext DEF in
  <2>7. UbOutFlags(v)'
    BY <1>0, <2>1, <2>2, UbKeptOut DEF KeepsOther
  <2>. QED  BY <2>6, <2>7
<1>4. CASE AntiQuantCompute(v)
  <2>. DEFINE j == Piece(v, "V")
              waits == {<<"MTE2_V", v, UbBuf(j)>>} \cup When(j >= bufNum, {<<"MTE3_V", v, UbBuf(j)>>})
              sets == {<<"V_MTE3", v, UbBuf(j)>>, <<"V_MTE2", v, UbBuf(j)>>}
  <2>1. /\ Counts(waits, sets) /\ Counted(v, "V") /\ j \in 0 .. NumPieces[v] - 1
        /\ drained' = drained
    BY <1>0, <1>4, AntiQuantComputeStep DEF AntiQuantCompute
  <2>2. /\ Piece(v, "V")' = j + 1 /\ Piece(v, "MTE2")' = Piece(v, "MTE2")
        /\ Piece(v, "MTE3")' = Piece(v, "MTE3") /\ j \in Nat
        /\ Piece(v, "MTE2") \in Nat /\ Piece(v, "MTE3") \in Nat /\ ~away
    BY <1>0, <2>1, PieceCounts DEF Counted, VectorPipes, Piece, HasPiece
  <2>3. \A u \in Buffers : /\ <<"MTE2_V", v, u>> \in waits <=> u = UbBuf(j)
                           /\ <<"MTE2_V", v, u>> \notin sets
                           /\ <<"V_MTE2", v, u>> \in sets <=> u = UbBuf(j)
                           /\ <<"V_MTE2", v, u>> \notin waits
    BY DEF When
  <2>4. \A u \in Buffers : /\ <<"MTE3_V", v, u>> \in waits <=> j >= bufNum /\ u = UbBuf(j)
                           /\ <<"MTE3_V", v, u>> \notin sets
                           /\ <<"V_MTE3", v, u>> \in sets <=> u = UbBuf(j)
                           /\ <<"V_MTE3", v, u>> \notin waits
    BY DEF When
  <2>5. /\ UbRing(v, "V_MTE2", "MTE2_V", j, Piece(v, "MTE2"), in)
        /\ UbRing(v, "MTE3_V", "V_MTE3", Piece(v, "MTE3"), j, away)
    BY <1>0 DEF UbInFlags, UbOutFlags
  <2>. HIDE DEF waits, sets, j, in, away
  <2>6. NextUbRing(v, "V_MTE2", "MTE2_V", j + 1, Piece(v, "MTE2"), in)
    BY <1>0, <2>1, <2>2, <2>3, <2>5, UbTake DEF UbKinds
  <2>7. NextUbRing(v, "MTE3_V", "V_MTE3", Piece(v, "MTE3"), j + 1, away)
    BY <1>0, <2>1, <2>2, <2>4, <2>5, UbPut DEF UbKinds
  <2>. QED  BY <1>0, <2>1, <2>2, <2>6, <2>7, UbFlagsNext DEF in, away
<1>5. CASE CopyOutWeight(v)
  <2>. DEFINE j == Piece(v, "MTE3")
              waits == {<<"V_MTE3", v, UbBuf(j)>>} \cup When(Round(j) = 0, {CubeFree(v)})
              sets == {<<"MTE3_V", v, UbBuf(j)>>} \cup When(Round(j) = Rounds - 1, {VecReady(v)})
  <2>1. /\ Counts(waits, sets) /\ Counted(v, "MTE3") /\ j \in 0 .. NumPieces[v] - 1
        /\ KeepsOther(v, {"V_MTE3", "MTE3_V", "CUBE_FREE", "VEC_READY"}) /\ drained' = drained
    BY <1>0, <1>5, CopyOutWeightStep DEF CopyOutWeight
  <2>2. /\ Piece(v, "MTE3")' = j + 1 /\ Piece(v, "V")' = Piece(v, "V")
        /\ Piece(v, "MTE2")' = Piece(v, "MTE2") /\ j \in Nat /\ Piece(v, "V") \in Nat
    BY <1>0, <2>1 DEF Counted, VectorPipes, Piece
  <2>3. \A u \in Buffers : /\ <<"V_MTE3", v, u>> \in waits <=> u = UbBuf(j)
                           /\ <<"V_MTE3", v, u>> \notin sets
                           /\ <<"MTE3_V", v, u>> \in sets <=> u = UbBuf(j)
                           /\ <<"MTE3_V", v, u>> \notin waits
    BY DEF When, CubeFree, VecReady
  <2>4. UbRing(v, "MTE3_V", "V_MTE3", j, Piece(v, "V"), away)
    BY <1>0 DEF UbOutFlags
  <2>. HIDE DEF waits, sets, j, away
  <2>5. NextUbRing(v, "MTE3_V", "V_MTE3", j + 1, Piece(v, "V"), away)
    BY <1>0, <2>1, <2>2, <2>3, <2>4, UbTake DEF UbKinds
  <2>6. UbOutFlags(v)'
    BY <1>0, <2>1, <2>2, <2>5, UbFlagsNext DEF away
  <2>7. UbInFlags(v)'
    BY <1>0, <2>1, <2>2, UbKeptIn DEF KeepsOther
  <2>. QED  BY <2>6, <2>7
<1>6. CASE VectorDrains("MTE2", v)
  <2>. DEFINE now == <<"MTE2", v>> \in drained'
  <2>1. /\ Counts({<<"V_MTE2", v, u>> : u \in UsedUb(v)}, {}) /\ KeepsOther(v, {"V_MTE2"})
        /\ ~in /\ drained' = drained \cup {<<"MTE2", v>>} /\ UNCHANGED aiv
        /\ Piece(v, "MTE2") = NumPieces[v]
    BY <1>0, <1>6, VectorDrainStep
  <2>2. /\ \A p \in VectorPipes : Piece(v, p)' = Piece(v, p)
        /\ now \in BOOLEAN /\ now /\ (<<"V", v>> \in drained' <=> away) /\ Piece(v, "V") \in Nat
    BY <1>0, <2>1 DEF VectorPipes, Piece
  <2>3. UbRing(v, "V_MTE2", "MTE2_V", Piece(v, "V"), Piece(v, "MTE2"), in)
    BY <1>0 DEF UbInFlags
  <2>. HIDE DEF now, in
  <2>4. NextUbRing(v, "V_MTE2", "MTE2_V", Piece(v, "V"), Piece(v, "MTE2"), now)
    BY <1>0, <2>1, <2>2, <2>3, UbOff DEF UbKinds
  <2>5. UbInFlags(v)'
    BY <1>0, <2>2, <2>4, UbFlagsNext DEF now, VectorPipes
  <2>6. UbOutFlags(v)'
    BY <1>0, <2>1, <2>2, UbKeptOut DEF KeepsOther, VectorPipes
  <2>. QED  BY <2>5, <2>6
<1>7. CASE VectorDrains("V", v)
  <2>. DEFINE now == <<"V", v>> \in drained'
  <2>1. /\ Counts({<<"MTE3_V", v, u>> : u \in UsedUb(v)}, {}) /\ KeepsOther(v, {"MTE3_V"})
        /\ ~away /\ drained' = drained \cup {<<"V", v>>} /\ UNCHANGED aiv
        /\ Piece(v, "V") = NumPieces[v]
    BY <1>0, <1>7, VectorDrainStep
  <2>2. /\ \A p \in VectorPipes : Piece(v, p)' = Piece(v, p)
        /\ now \in BOOLEAN /\ now /\ (<<"MTE2", v>> \in drained' <=> in) /\ Piece(v, "MTE3") \in Nat
    BY <1>0, <2>1 DEF VectorPipes, Piece
  <2>3. UbRing(v, "MTE3_V", "V_MTE3", Piece(v, "MTE3"), Piece(v, "V"), away)
    BY <1>0 DEF UbOutFlags
  <2>. HIDE DEF now, away
  <2>4. NextUbRing(v, "MTE3_V", "V_MTE3", Piece(v, "MTE3"), Piece(v, "V"), now)
    BY <1>0, <2>1, <2>2, <2>3, UbOff DEF UbKinds
  <2>5. UbOutFlags(v)'
    BY <1>0, <2>2, <2>4, UbFlagsNext DEF now, VectorPipes
  <2>6. UbInFlags(v)'
    BY <1>0, <2>1, <2>2, UbKeptIn DEF KeepsOther, VectorPipes
  <2>. QED  BY <2>5, <2>6
<1>8. CASE DrainCredits(v)
  <2>1. /\ KeepsOther(v, {"CUBE_FREE"}) /\ drained' = drained \cup {<<"MTE3", v>>} /\ UNCHANGED aiv
    BY <1>0, <1>8, DrainCreditsStep
  <2>2. /\ \A p \in VectorPipes : Piece(v, p)' = Piece(v, p)
        /\ (<<"MTE2", v>> \in drained' <=> in) /\ (<<"V", v>> \in drained' <=> away)
    BY <1>0, <2>1 DEF Piece
  <2>. QED  BY <1>0, <2>1, <2>2, UbKeptIn, UbKeptOut DEF KeepsOther, VectorPipes
<1>. QED
  BY <1>1, <1>2, <1>3, <1>4, <1>5, <1>6, <1>7, <1>8, StepCases DEF CubeAct, VectorAct
-----------------------------------------------------------------------------
(* The cross-core flag VEC_READY.                                          *)
\* The tiles a vector core has handed over and the cube core has not taken.
LEMMA ReadyFlagsStep ==
    ASSUME FlagInv, Next, NEW v \in SubBlocks
    PROVE  ReadyFlags(v)'
<1>. DEFINE ready == VecReady(v)
            moved == Piece(v, "MTE3")
<1>0. /\ bufNum' = bufNum /\ PlaceInv /\ bufNum \in BufNums /\ flag \in [Flags -> Nat]
      /\ ready \in Flags /\ flag[ready] \in Nat
      /\ flag[ready] = (moved \div Rounds) - Served(v, Taken)
      /\ moved \in Nat /\ Taken \in Nat /\ Rounds \in Positive
  <2>1. bufNum' = bufNum /\ PlaceInv /\ bufNum \in BufNums /\ flag \in [Flags -> Nat]
    BY StepCases DEF FlagInv, CreditInv, PlaceInv
  <2>2. ready \in Flags /\ flag[ready] = (moved \div Rounds) - Served(v, Taken)
    BY CreditFlags DEF FlagInv, ReadyFlags
  <2>3. moved \in Nat /\ Taken \in Nat /\ Rounds \in Positive
    BY <2>1, CountTypes, PieceCounts DEF PlaceInv, VectorInv, VectorPipes, Piece
  <2>. QED  BY <2>1, <2>2, <2>3
<1>1. ReadyFlags(v)' <=> flag'[ready] = (aiv'[v]["MTE3"] \div Rounds) - Served(v, Taken')
  BY <1>0 DEF ReadyFlags, VecReady, Piece, Rounds, Served, Quad
<1>2. ASSUME Taken' = Taken, aiv'[v]["MTE3"] = moved, flag'[ready] = flag[ready]
      PROVE  ReadyFlags(v)'
  BY <1>0, <1>1, <1>2
<1>3. CASE CopyToL0
  <2>. DEFINE t == AtTile("MTE1")
              i == AtStep("MTE1")
              mine == v \in Partners(L1Buf(t))
              waits == {<<"M_MTE1", L0Buf(t, i)>>} \cup When(i = 0, TileReady(t))
              sets == {<<"MTE1_M", L0Buf(t, i)>>} \cup When(i = StepK(t) - 1, TileReleased(t))
  <2>1. /\ Counts(waits, sets) /\ Taken' = Taken + (IF i = 0 THEN 1 ELSE 0)
        /\ i = 0 => Taken = t
    BY <1>0, <1>3, CopyToL0Step, CopyToL0Counts
  <2>2. aiv' = aiv
    BY <1>3 DEF CopyToL0
  <2>3. ready \notin sets /\ (ready \in waits <=> i = 0 /\ mine)
    BY DEF When, TileReady, TileReleased, CubeFree, VecReady
  <2>4. Served(v, Taken + 1) = Served(v, Taken) + (IF v \in Partners(L1Buf(Taken)) THEN 1 ELSE 0)
        /\ Served(v, Taken) \in Nat
    BY <1>0, ServedNext
  <2>. HIDE DEF waits, sets, ready
  <2>5. flag'[ready] = flag[ready] - (IF i = 0 /\ mine THEN 1 ELSE 0)
    BY <1>0, <2>1, <2>3 DEF Counts
  <2>6. aiv'[v]["MTE3"] = moved
    BY <2>2 DEF Piece
  <2>7. moved \div Rounds \in Nat
    BY <1>0, DivMod
  <2>8. CASE i = 0
    <3>1. Taken' = Taken + 1 /\ Taken = t
      BY <2>1, <2>8
    <3>. HIDE DEF t, i, moved
    <3>. QED  BY <1>0, <1>1, <2>4, <2>5, <2>6, <2>7, <2>8, <3>1 DEF mine
  <2>9. CASE i # 0
    BY <1>0, <1>1, <2>1, <2>5, <2>6, <2>9
  <2>. QED  BY <2>8, <2>9
<1>4. CASE CopyOutWeight(v)
  <2>. DEFINE waits == {<<"V_MTE3", v, UbBuf(moved)>>} \cup When(Round(moved) = 0, {CubeFree(v)})
              sets == {<<"MTE3_V", v, UbBuf(moved)>>} \cup When(Round(moved) = Rounds - 1, {VecReady(v)})
  <2>1. Counts(waits, sets) /\ Counted(v, "MTE3")
    BY <1>0, <1>4, CopyOutWeightStep
  <2>2. Taken' = Taken
    BY <1>0, <1>4, CubeUntouched DEF VectorAct
  <2>3. aiv'[v]["MTE3"] = moved + 1
    BY <2>1 DEF Counted, VectorPipes, Piece
  <2>4. ready \notin waits /\ (ready \in sets <=> Round(moved) = Rounds - 1)
    BY DEF When, CubeFree, VecReady
  <2>. HIDE DEF waits, sets, ready, moved
  <2>5. flag'[ready] = flag[ready] + (IF Round(moved) = Rounds - 1 THEN 1 ELSE 0)
    BY <1>0, <2>1, <2>4 DEF Counts
  <2>6. (moved + 1) \div Rounds = (moved \div Rounds) + (IF Round(moved) = Rounds - 1 THEN 1 ELSE 0)
        /\ moved \div Rounds \in Nat /\ Served(v, Taken) \in Nat
    BY <1>0, NextDiv, DivMod, ServedNext DEF Round
  <2>. QED  BY <1>0, <1>1, <2>2, <2>3, <2>5, <2>6
<1>5. ASSUME CubeAct, ~CopyToL0
      PROVE  ReadyFlags(v)'
  <2>1. aiv'[v]["MTE3"] = moved
    BY <1>0, <1>5, VectorUntouched DEF Piece
  <2>2. Taken' = Taken /\ flag'[ready] = flag[ready]
    <3>1. CASE LoadA
      BY <1>0, <3>1, LoadAStep, LoadACounts DEF Keeps, VecReady
    <3>2. CASE LoadScaleB
      BY <1>0, <3>2, LoadScaleBStep, LoadScaleBCounts DEF Keeps, VecReady
    <3>3. CASE Mmad
      BY <1>0, <3>3, MmadStep, MmadCounts DEF Keeps, VecReady
    <3>4. CASE GetTensorC
      BY <1>0, <3>4, GetTensorCStep, GetTensorCCounts DEF Keeps, VecReady
    <3>5. ASSUME NEW p \in {"MTE2", "MTE1", "M"}, CubeDrains(p)
          PROVE  Taken' = Taken /\ flag'[ready] = flag[ready]
      <4>1. Keeps({"MTE1_MTE2", "SCALEA_FREE", "SCALEB_FREE", "M_MTE1", "FIX_M"})
        BY <1>0, <3>5, CubeDrainStep DEF Keeps
      <4>2. Taken' = Taken
        BY <1>0, <3>5, CubeDrainCounts
      <4>. QED  BY <1>0, <4>1, <4>2 DEF Keeps, VecReady
    <3>. QED  BY <1>5, <3>1, <3>2, <3>3, <3>4, <3>5 DEF CubeAct
  <2>. QED  BY <1>2, <2>1, <2>2
<1>6. ASSUME NEW w \in SubBlocks, VectorAct(w), w # v \/ ~CopyOutWeight(v)
      PROVE  ReadyFlags(v)'
  <2>1. Taken' = Taken
    BY <1>0, <1>6, CubeUntouched
  <2>2. CASE w # v
    <3>1. aiv'[v]["MTE3"] = moved /\ flag'[ready] = flag[ready]
      BY <1>0, <1>6, <2>2, OtherUntouched DEF Piece, VectorPipes, VecReady
    <3>. QED  BY <1>2, <2>1, <3>1
  <2>3. CASE w = v
    <3>1. CASE CopyInWeight(v)
      BY <1>0, <1>2, <2>1, <3>1, CopyInWeightStep DEF KeepsOther, Counted, Piece, VecReady, VectorPipes
    <3>2. CASE AntiQuantCompute(v)
      BY <1>0, <1>2, <2>1, <3>2, AntiQuantComputeStep
         DEF KeepsOther, Counted, Piece, VecReady, VectorPipes
    <3>3. ASSUME NEW p \in {"MTE2", "V"}, VectorDrains(p, v)
          PROVE  ReadyFlags(v)'
      <4>1. aiv' = aiv /\ KeepsOther(v, {IF p = "MTE2" THEN "V_MTE2" ELSE "MTE3_V"})
        BY <1>0, <3>3, VectorDrainStep
      <4>. QED  BY <1>0, <1>2, <2>1, <4>1 DEF KeepsOther, Piece, VecReady
    <3>4. CASE DrainCredits(v)
      <4>1. aiv' = aiv /\ KeepsOther(v, {"CUBE_FREE"})
        BY <1>0, <3>4, DrainCreditsStep
      <4>. QED  BY <1>0, <1>2, <2>1, <4>1 DEF KeepsOther, Piece, VecReady
    <3>. QED  BY <1>6, <2>3, <3>1, <3>2, <3>3, <3>4 DEF VectorAct
  <2>. QED  BY <2>2, <2>3
<1>. QED  BY <1>3, <1>4, <1>5, <1>6, StepCases DEF CubeAct, VectorAct
-----------------------------------------------------------------------------
(* The events no step touches, and the pipes that are through.             *)
\* No step waits for or sets the event of a buffer the kernel does not have.
Idle(f) ==
    \/ f[1] = "MTE1_MTE2" /\ f[2] \notin Buffers
    \/ f[1] \in UbKinds /\ f[3] \notin Buffers

LEMMA CountsKeep ==
    ASSUME flag \in [Flags -> Nat], NEW waits, NEW sets, Counts(waits, sets), NEW f \in Flags,
           f \notin waits \cup sets
    PROVE  flag'[f] = flag[f]
BY DEF Counts

LEMMA IdleUntouched ==
    ASSUME PlaceInv, Next, NEW f \in Flags, Idle(f)
    PROVE  flag'[f] = flag[f]
<1>1. /\ bufNum' = bufNum /\ bufNum \in BufNums /\ flag \in [Flags -> Nat]
      /\ \A j \in Nat : L1Buf(j) \in Buffers /\ UbBuf(j) \in Buffers
  <2>1. bufNum' = bufNum /\ bufNum \in BufNums /\ flag \in [Flags -> Nat]
    BY StepCases DEF PlaceInv
  <2>2. bufNum \in Positive
    BY <2>1, BufNumIs DEF Positive
  <2>. QED  BY <2>1, <2>2, TurnIs DEF L1Buf, UbBuf, Buffers, InTurn
<1>2. f[1] \in {"MTE1_MTE2", "MTE2_V", "V_MTE2", "V_MTE3", "MTE3_V"}
  BY DEF Idle, UbKinds
<1>3. CASE LoadA
  <2>. DEFINE t == AtTile("MTE2")
              waits == {<<"MTE1_MTE2", L1Buf(t)>>}
                         \cup When(OpensGroup(t), {<<"SCALEA_FREE", ScaleBuf(t)>>})
  <2>1. Counts(waits, {}) /\ t \in 0 .. NumTiles - 1
    BY <1>1, <1>3, LoadAStep
  <2>2. f \notin waits
    BY <1>1, <2>1 DEF When, Idle, UbKinds
  <2>. HIDE DEF waits
  <2>. QED  BY <1>1, <2>1, <2>2, CountsKeep
<1>4. CASE LoadScaleB
  BY <1>1, <1>2, <1>4, LoadScaleBStep DEF Keeps
<1>5. CASE CopyToL0
  <2>. DEFINE t == AtTile("MTE1")
              i == AtStep("MTE1")
              waits == {<<"M_MTE1", L0Buf(t, i)>>} \cup When(i = 0, TileReady(t))
              sets == {<<"MTE1_M", L0Buf(t, i)>>} \cup When(i = StepK(t) - 1, TileReleased(t))
  <2>1. Counts(waits, sets) /\ t \in 0 .. NumTiles - 1
    BY <1>1, <1>5, CopyToL0Step
  <2>2. L1Buf(t) \in Buffers
    BY <1>1, <2>1
  <2>. HIDE DEF t, i
  <2>3. f \notin waits
    BY <2>2 DEF When, Idle, UbKinds, TileReady, VecReady
  <2>4. f \notin sets
    BY <2>2 DEF When, Idle, UbKinds, TileReleased, CubeFree
  <2>. HIDE DEF waits, sets
  <2>. QED  BY <1>1, <2>1, <2>3, <2>4, CountsKeep
<1>6. CASE Mmad
  BY <1>1, <1>2, <1>6, MmadStep DEF Keeps
<1>7. CASE GetTensorC
  BY <1>1, <1>2, <1>7, GetTensorCStep DEF Keeps
<1>8. ASSUME NEW p \in {"MTE2", "MTE1", "M"}, CubeDrains(p)
      PROVE  flag'[f] = flag[f]
  <2>1. CASE p = "MTE2"
    <3>. DEFINE waits == ({"MTE1_MTE2"} \X (0 .. bufNum - 1)) \cup ({"SCALEA_FREE", "SCALEB_FREE"} \X {0, 1})
    <3>1. Counts(waits, {})
      BY <1>1, <1>8, <2>1, CubeDrainStep
    <3>2. f \notin waits
      BY DEF Idle, UbKinds, Buffers
    <3>. HIDE DEF waits
    <3>. QED  BY <1>1, <3>1, <3>2, CountsKeep
  <2>2. CASE p # "MTE2"
    <3>1. Keeps({"M_MTE1", "FIX_M"})
      BY <1>1, <1>8, <2>2, CubeDrainStep DEF Keeps
    <3>. QED  BY <1>2, <3>1 DEF Keeps
  <2>. QED  BY <2>1, <2>2
<1>9. ASSUME NEW v \in SubBlocks, VectorAct(v)
      PROVE  flag'[f] = flag[f]
  <2>0. \A p \in VectorPipes : Piece(v, p) \in Nat
    BY DEF PlaceInv, VectorInv, Piece
  <2>1. CASE CopyInWeight(v)
    <3>. DEFINE j == Piece(v, "MTE2")
                waits == When(j >= bufNum, {<<"V_MTE2", v, UbBuf(j)>>})
                sets == {<<"MTE2_V", v, UbBuf(j)>>}
    <3>1. Counts(waits, sets) /\ UbBuf(j) \in Buffers
      BY <1>1, <2>0, <2>1, CopyInWeightStep DEF VectorPipes
    <3>. HIDE DEF j
    <3>2. f \notin waits \cup sets
      BY <3>1 DEF When, Idle
    <3>. HIDE DEF waits, sets
    <3>. QED  BY <1>1, <3>1, <3>2, CountsKeep
  <2>2. CASE AntiQuantCompute(v)
    <3>. DEFINE j == Piece(v, "V")
                waits == {<<"MTE2_V", v, UbBuf(j)>>} \cup When(j >= bufNum, {<<"MTE3_V", v, UbBuf(j)>>})
                sets == {<<"V_MTE3", v, UbBuf(j)>>, <<"V_MTE2", v, UbBuf(j)>>}
    <3>1. Counts(waits, sets) /\ UbBuf(j) \in Buffers
      BY <1>1, <2>0, <2>2, AntiQuantComputeStep DEF VectorPipes
    <3>. HIDE DEF j
    <3>2. f \notin waits \cup sets
      BY <3>1 DEF When, Idle
    <3>. HIDE DEF waits, sets
    <3>. QED  BY <1>1, <3>1, <3>2, CountsKeep
  <2>3. CASE CopyOutWeight(v)
    <3>. DEFINE j == Piece(v, "MTE3")
                waits == {<<"V_MTE3", v, UbBuf(j)>>} \cup When(Round(j) = 0, {CubeFree(v)})
                sets == {<<"MTE3_V", v, UbBuf(j)>>} \cup When(Round(j) = Rounds - 1, {VecReady(v)})
    <3>1. Counts(waits, sets) /\ UbBuf(j) \in Buffers
      BY <1>1, <2>0, <2>3, CopyOutWeightStep DEF VectorPipes
    <3>. HIDE DEF j
    <3>2. f \notin waits
      BY <3>1 DEF When, Idle, UbKinds, CubeFree
    <3>3. f \notin sets
      BY <3>1 DEF When, Idle, UbKinds, VecReady
    <3>. HIDE DEF waits, sets
    <3>. QED  BY <1>1, <3>1, <3>2, <3>3, CountsKeep
  <2>4. ASSUME NEW p \in {"MTE2", "V"}, VectorDrains(p, v)
        PROVE  flag'[f] = flag[f]
    <3>. DEFINE waits == {<<IF p = "MTE2" THEN "V_MTE2" ELSE "MTE3_V", v, u>> : u \in UsedUb(v)}
    <3>1. Counts(waits, {})
      BY <1>1, <2>4, VectorDrainStep
    <3>2. UsedUb(v) \subseteq Buffers
      BY DEF UsedUb, Buffers
    <3>3. f \notin waits
      BY <3>2 DEF Idle
    <3>. HIDE DEF waits
    <3>. QED  BY <1>1, <3>1, <3>3, CountsKeep
  <2>5. CASE DrainCredits(v)
    <3>1. KeepsOther(v, {"CUBE_FREE"})
      BY <1>1, <2>5, DrainCreditsStep
    <3>. QED  BY <1>2, <3>1 DEF KeepsOther
  <2>. QED  BY <1>9, <2>1, <2>2, <2>3, <2>4, <2>5 DEF VectorAct
<1>. QED  BY <1>3, <1>4, <1>5, <1>6, <1>7, <1>8, <1>9, StepCases DEF VectorAct

LEMMA IdleFlagsStep ==
    ASSUME FlagInv, Next
    PROVE  IdleFlags'
<1>1. bufNum' = bufNum /\ PlaceInv /\ bufNum \in BufNums /\ bufNum \in Nat
  BY StepCases, BufNumIs DEF FlagInv, CreditInv, PlaceInv
<1>2. /\ \A b \in bufNum .. MaxBufNum - 1 : flag'[<<"MTE1_MTE2", b>>] = 0
  <2>. SUFFICES ASSUME NEW b \in bufNum .. MaxBufNum - 1
                PROVE  flag'[<<"MTE1_MTE2", b>>] = 0
    OBVIOUS
  <2>1. b \in 0 .. MaxBufNum - 1 /\ b \notin Buffers
    BY <1>1 DEF Buffers
  <2>2. <<"MTE1_MTE2", b>> \in Flags /\ Idle(<<"MTE1_MTE2", b>>)
    BY <1>1, <2>1, FlagNames DEF Idle
  <2>3. flag[<<"MTE1_MTE2", b>>] = 0
    BY DEF FlagInv, IdleFlags
  <2>. QED  BY <1>1, <2>2, <2>3, IdleUntouched
<1>3. ASSUME NEW v \in SubBlocks, NEW u \in bufNum .. MaxBufNum - 1, NEW kind \in UbKinds
      PROVE  flag'[<<kind, v, u>>] = 0
  <2>1. u \in 0 .. MaxBufNum - 1 /\ u \notin Buffers
    BY <1>1 DEF Buffers
  <2>2. <<kind, v, u>> \in Flags /\ Idle(<<kind, v, u>>)
    BY <1>1, <2>1, FlagNames DEF Idle, UbKinds
  <2>3. flag[<<kind, v, u>>] = 0
    BY DEF FlagInv, IdleFlags, UbKinds
  <2>. QED  BY <1>1, <2>2, <2>3, IdleUntouched
<1>4. MaxBufNum' = MaxBufNum
  BY DEF MaxBufNum
<1>. QED  BY <1>1, <1>2, <1>3, <1>4 DEF IdleFlags, UbKinds

\* A pipe whose destructor has run had nothing left to do.
LEMMA ThroughStep ==
    ASSUME FlagInv, Next
    PROVE  ThroughInv'
<1>0. bufNum' = bufNum /\ PlaceInv /\ ThroughInv /\ NumTiles' = NumTiles
      /\ NumPieces' = NumPieces
  BY StepCases DEF FlagInv, CreditInv, NumTiles, KTiles, CeilDiv, NumPieces, Rounds, Quad, Serves, L1Buf
<1>. DEFINE Cube == {"MTE2", "MTE1", "M"}
<1>1. \/ /\ drained' = drained /\ aiv' = aiv
         /\ \A p \in Cube : aic'[p] = aic[p] \/ AtTile(p) < NumTiles
      \/ /\ drained' = drained /\ aic' = aic
         /\ \A v \in SubBlocks, p \in VectorPipes : aiv'[v][p] = aiv[v][p] \/ HasPiece(v, p)
      \/ /\ UNCHANGED <<aic, aiv>>
         /\ \/ \E p \in Cube : AtTile(p) = NumTiles /\ drained' = drained \cup {<<"AIC", p>>}
            \/ \E v \in SubBlocks, p \in VectorPipes :
                 ~HasPiece(v, p) /\ drained' = drained \cup {<<p, v>>}
  <2>1. CASE LoadA
    BY <1>0, <2>1, LoadAStep DEF LoadA, Running, AtTile, Moves, CubePipes
  <2>2. CASE LoadScaleB
    BY <1>0, <2>2, LoadScaleBStep DEF LoadScaleB, Running, AtTile, Moves, CubePipes
  <2>3. CASE CopyToL0
    BY <1>0, <2>3, CopyToL0Step DEF CopyToL0, Running, AtTile, Moves, CubePipes
  <2>4. CASE Mmad
    BY <1>0, <2>4, MmadStep DEF Mmad, Running, AtTile, Moves, CubePipes
  <2>5. CASE GetTensorC
    BY <1>0, <2>5, GetTensorCStep DEF GetTensorC, Moves, CubePipes
  <2>6. ASSUME NEW p \in Cube, CubeDrains(p)
        PROVE  UNCHANGED <<aic, aiv>> /\ AtTile(p) = NumTiles /\ drained' = drained \cup {<<"AIC", p>>}
    BY <1>0, <2>6, CubeDrainStep
  <2>7. ASSUME NEW v \in SubBlocks, CopyInWeight(v) \/ AntiQuantCompute(v) \/ CopyOutWeight(v)
        PROVE  /\ drained' = drained /\ aic' = aic
               /\ \A w \in SubBlocks, p \in VectorPipes : aiv'[w][p] = aiv[w][p] \/ HasPiece(w, p)
    <3>1. CASE CopyInWeight(v)
      BY <1>0, <3>1, CopyInWeightStep DEF CopyInWeight, Counted
    <3>2. CASE AntiQuantCompute(v)
      BY <1>0, <3>2, AntiQuantComputeStep DEF AntiQuantCompute, Counted
    <3>3. CASE CopyOutWeight(v)
      BY <1>0, <3>3, CopyOutWeightStep DEF CopyOutWeight, Counted
    <3>. QED  BY <2>7, <3>1, <3>2, <3>3
  <2>8. ASSUME NEW v \in SubBlocks, NEW p \in {"MTE2", "V"}, VectorDrains(p, v)
        PROVE  /\ UNCHANGED <<aic, aiv>> /\ p \in VectorPipes
               /\ ~HasPiece(v, p) /\ drained' = drained \cup {<<p, v>>}
    BY <1>0, <2>8, VectorDrainStep DEF VectorDrains, Drain, VectorPipes
  <2>9. ASSUME NEW v \in SubBlocks, DrainCredits(v)
        PROVE  /\ UNCHANGED <<aic, aiv>> /\ "MTE3" \in VectorPipes
               /\ ~HasPiece(v, "MTE3") /\ drained' = drained \cup {<<"MTE3", v>>}
    BY <1>0, <2>9, DrainCreditsStep DEF DrainCredits, VectorPipes
  <2>. QED  BY <2>1, <2>2, <2>3, <2>4, <2>5, <2>6, <2>7, <2>8, <2>9, StepCases
<1>2. \A p \in Cube : <<"AIC", p>> \in drained' => aic'[p].tile = NumTiles
  <2>. SUFFICES ASSUME NEW p \in Cube, <<"AIC", p>> \in drained'
                PROVE  aic'[p].tile = NumTiles
    OBVIOUS
  <2>1. <<"AIC", p>> \in drained => AtTile(p) = NumTiles
    BY <1>0 DEF ThroughInv
  <2>2. AtTile(p) = aic[p].tile /\ NumTiles \in Nat
    BY Shapes DEF AtTile, Positive
  <2>3. \A v \in SubBlocks, q \in VectorPipes : <<q, v>> # <<"AIC", p>>
    BY DEF VectorPipes
  <2>4. \A q \in Cube : <<"AIC", q>> = <<"AIC", p>> => p = q
    OBVIOUS
  <2>. QED  BY <1>1, <2>1, <2>2, <2>3, <2>4
<1>3. \A v \in SubBlocks, p \in VectorPipes :
        <<p, v>> \in drained' => ~(aiv'[v][p] < NumPieces[v])
  <2>. SUFFICES ASSUME NEW v \in SubBlocks, NEW p \in VectorPipes, <<p, v>> \in drained'
                PROVE  ~(aiv'[v][p] < NumPieces[v])
    OBVIOUS
  <2>1. <<p, v>> \in drained => ~HasPiece(v, p)
    BY <1>0 DEF ThroughInv
  <2>2. HasPiece(v, p) <=> aiv[v][p] < NumPieces[v]
    BY DEF HasPiece, Piece
  <2>3. \A q \in Cube : <<"AIC", q>> # <<p, v>>
    BY DEF VectorPipes
  <2>4. \A w \in SubBlocks, q \in VectorPipes : <<q, w>> = <<p, v>> => p = q /\ v = w
    OBVIOUS
  <2>. QED  BY <1>1, <2>1, <2>2, <2>3, <2>4
<1>. QED  BY <1>0, <1>2, <1>3 DEF ThroughInv, AtTile, HasPiece, Piece, NumTiles, KTiles
-----------------------------------------------------------------------------
(* The invariant of all the flags.                                         *)
LEMMA EmptyRing ==
    ASSUME NEW lo \in Nat, NEW B
    PROVE  Apart(lo, lo, B) /\ \A b : ~Held(lo, lo, B, b)
BY DEF Apart, Held

LEMMA AtTheStart ==
    ASSUME Init
    PROVE  /\ ALoaded = 0 /\ BLoaded = 0 /\ Taken = 0 /\ Released = 0 /\ Copied = 0
           /\ Multiplied = 0 /\ Started = 0 /\ Ended = 0 /\ Written = 0
           /\ Group(0) = 0 /\ Begun(0) = 0
           /\ \A v \in SubBlocks, p \in VectorPipes : Piece(v, p) = 0
<1>1. KOf(0) = 0 /\ BlockOf(0) = 0
  BY Shapes, ZeroDivMod DEF KOf, BlockOf
<1>2. OpensGroup(0)
  BY <1>1, Shapes, ZeroDivMod DEF OpensGroup
<1>3. Group(0) = 0 /\ Begun(0) = 0
  <2>1. 0 \div ScaleFactor = 0 /\ GroupsOfBlock \in Positive
    BY Shapes, ZeroDivMod, LastGroup
  <2>. QED  BY <1>1, <1>2, <2>1 DEF Group, Begun, GroupsOfBlock, Positive
<1>4. Index(0, 0) = 0
  BY <1>1, StepKIs, Shapes DEF Index, Positive
<1>5. /\ \A p \in CubePipes : AtTile(p) = 0 /\ AtStep(p) = 0
      /\ \A v \in SubBlocks, p \in VectorPipes : Piece(v, p) = 0
  BY DEF Init, AtTile, AtStep, CubePipes, VectorPipes, Piece
<1>. QED  BY <1>1, <1>3, <1>4, <1>5
          DEF ALoaded, BLoaded, Taken, Released, Copied, Multiplied, Started, Ended, Written, CubePipes

LEMMA FirstUbRing ==
    ASSUME bufNum \in BufNums, NEW v \in SubBlocks, NEW free, NEW full, NEW off, ~off,
           \A u \in Buffers : flag[<<free, v, u>>] = 0 /\ flag[<<full, v, u>>] = 0
    PROVE  UbRing(v, free, full, 0, 0, off)
<1>1. \A u \in Buffers : u >= 0
  BY BufNumIs DEF Buffers
<1>2. \A u \in Buffers : FreshOf(v, free, 0, off)[u] = 1 /\ EventsOf(v, full)[u] = 0
  BY <1>1 DEF FreshOf, EventsOf
<1>3. DOMAIN FreshOf(v, free, 0, off) = Buffers /\ DOMAIN EventsOf(v, full) = Buffers
  BY DEF FreshOf, EventsOf
<1>4. Apart(0, 0, InTurn(bufNum)) /\ \A b : ~Held(0, 0, InTurn(bufNum), b)
  BY EmptyRing
<1>. QED  BY <1>2, <1>3, <1>4 DEF UbRing, FreeRing, FullEvents

LEMMA FlagsAtTheStart ==
    ASSUME Init
    PROVE  FlagInv
<1>1. PlaceInv /\ CreditInv /\ bufNum \in BufNums /\ drained = {} /\ flag \in [Flags -> Nat]
  BY PlaceInitially, CreditInvInductive DEF Init, PlaceInv
<1>2. ThroughInv
  BY <1>1 DEF ThroughInv
<1>3. \A f \in Flags :
        flag[f] = IF \/ f[1] \in {"SCALEA_FREE", "SCALEB_FREE", "M_MTE1", "FIX_M"}
                     \/ f[1] = "MTE1_MTE2" /\ f[2] < bufNum
                  THEN 1
                  ELSE IF f[1] = "CUBE_FREE" THEN Credits[f[2]] ELSE 0
  BY DEF Init
<1>4. /\ \A b \in Buffers : flag[<<"MTE1_MTE2", b>>] = 1
      /\ \A b \in bufNum .. MaxBufNum - 1 : flag[<<"MTE1_MTE2", b>>] = 0
      /\ \A kind \in {"SCALEA_FREE", "SCALEB_FREE", "M_MTE1", "FIX_M"}, b \in {0, 1} :
           flag[<<kind, b>>] = 1
      /\ \A b \in {0, 1} : flag[<<"MTE1_M", b>>] = 0
      /\ flag[<<"MTE2_MTE1", 0>>] = 0 /\ flag[<<"M_FIX", 0>>] = 0
      /\ \A kind \in UbKinds, v \in SubBlocks, u \in 0 .. MaxBufNum - 1 : flag[<<kind, v, u>>] = 0
      /\ \A v \in SubBlocks : flag[VecReady(v)] = 0
  <2>0. bufNum \in Nat /\ MaxBufNum \in Nat
    BY <1>1, BufNumIs, MaxBufNumIs
  <2>. DEFINE free(b) == <<"MTE1_MTE2", b>>
  <2>00. \A b \in 0 .. MaxBufNum - 1 :
           free(b) \in Flags /\ flag[free(b)] = IF b < bufNum THEN 1 ELSE 0
    <3>. SUFFICES ASSUME NEW b \in 0 .. MaxBufNum - 1
                  PROVE  free(b) \in Flags /\ flag[free(b)] = IF b < bufNum THEN 1 ELSE 0
      OBVIOUS
    <3>1. free(b) \in Flags
      BY <1>1, FlagNames
    <3>2. free(b)[1] = "MTE1_MTE2" /\ free(b)[2] = b
      OBVIOUS
    <3>. QED  BY <1>3, <3>1, <3>2
  <2>1. \A b \in Buffers : flag[free(b)] = 1
    <3>1. \A b \in Buffers : b \in 0 .. MaxBufNum - 1 /\ b < bufNum
      BY <1>1, <2>0, FlagNames DEF Buffers
    <3>. HIDE DEF free
    <3>. QED  BY <2>00, <3>1
  <2>2. \A b \in bufNum .. MaxBufNum - 1 : flag[free(b)] = 0
    <3>1. \A b \in bufNum .. MaxBufNum - 1 : b \in 0 .. MaxBufNum - 1 /\ ~(b < bufNum)
      BY <2>0
    <3>. HIDE DEF free
    <3>. QED  BY <2>00, <3>1
  <2>3. \A kind \in {"SCALEA_FREE", "SCALEB_FREE", "M_MTE1", "FIX_M"}, b \in {0, 1} :
           flag[<<kind, b>>] = 1
    BY <1>1, <1>3, FlagNames
  <2>4. \A b \in {0, 1} : flag[<<"MTE1_M", b>>] = 0
    BY <1>1, <1>3, FlagNames
  <2>5. flag[<<"MTE2_MTE1", 0>>] = 0 /\ flag[<<"M_FIX", 0>>] = 0
    BY <1>1, <1>3, FlagNames
  <2>6. \A kind \in UbKinds, v \in SubBlocks, u \in 0 .. MaxBufNum - 1 : flag[<<kind, v, u>>] = 0
    <3>. SUFFICES ASSUME NEW kind \in UbKinds, NEW v \in SubBlocks, NEW u \in 0 .. MaxBufNum - 1
                  PROVE  flag[<<kind, v, u>>] = 0
      OBVIOUS
    <3>1. <<kind, v, u>> \in Flags
      BY <1>1, FlagNames DEF UbKinds
    <3>. QED  BY <1>3, <3>1 DEF UbKinds
  <2>7. \A v \in SubBlocks : flag[VecReady(v)] = 0
    BY <1>3, CreditFlags DEF VecReady
  <2>. QED  BY <2>1, <2>2, <2>3, <2>4, <2>5, <2>6, <2>7
<1>5. IdleFlags
  <2>1. \A u \in bufNum .. MaxBufNum - 1 : u \in 0 .. MaxBufNum - 1
    BY <1>1, BufNumIs
  <2>. QED  BY <1>4, <2>1 DEF IdleFlags, UbKinds
<1>6. /\ Apart(0, 0, InTurn(bufNum)) /\ Apart(0, 0, InTurn(2)) /\ Apart(0, 0, L0Bufs)
      /\ \A b : ~Held(0, 0, InTurn(bufNum), b) /\ ~Held(0, 0, InTurn(2), b) /\ ~Held(0, 0, L0Bufs, b)
  BY EmptyRing
<1>8. L1Flags
  BY <1>1, <1>4, <1>6, AtTheStart DEF L1Flags, FreeRing, Events
<1>9. ScaleFlags
  BY <1>1, <1>4, <1>6, AtTheStart DEF ScaleFlags, FreeRing, Events
<1>10. L0Flags
  BY <1>1, <1>4, <1>6, AtTheStart DEF L0Flags, FreeRing, FullEvents, Events
<1>11. CFlags
  BY <1>1, <1>4, <1>6, AtTheStart DEF CFlags, FreeRing, Events
<1>12. ASSUME NEW v \in SubBlocks
       PROVE  UbInFlags(v) /\ UbOutFlags(v) /\ ReadyFlags(v)
  <2>1. Piece(v, "MTE2") = 0 /\ Piece(v, "V") = 0 /\ Piece(v, "MTE3") = 0
    BY AtTheStart DEF VectorPipes
  <2>2. \A u \in Buffers, kind \in UbKinds : flag[<<kind, v, u>>] = 0 /\ u \in Nat
    BY <1>1, <1>4, FlagNames DEF Buffers
  <2>3. <<"MTE2", v>> \notin drained /\ <<"V", v>> \notin drained
    BY <1>1
  <2>4. UbInFlags(v)
    BY <1>1, <2>1, <2>2, <2>3, FirstUbRing DEF UbInFlags, UbKinds
  <2>5. UbOutFlags(v)
    BY <1>1, <2>1, <2>2, <2>3, FirstUbRing DEF UbOutFlags, UbKinds
  <2>6. ReadyFlags(v)
    <3>1. 0 \div Rounds = 0 /\ Served(v, 0) = 0
      BY <1>1, PieceCounts, ZeroDivMod, ServedNext
    <3>. QED  BY <1>4, <2>1, <3>1, AtTheStart DEF ReadyFlags
  <2>. QED  BY <2>4, <2>5, <2>6
<1>. QED  BY <1>1, <1>2, <1>5, <1>8, <1>9, <1>10, <1>11, <1>12
          DEF FlagInv, CubeFlagInv, VectorFlagInv

LEMMA FlagsUnchanged ==
    ASSUME FlagInv, UNCHANGED vars
    PROVE  FlagInv'
<1>1. /\ bufNum' = bufNum /\ aic' = aic /\ aiv' = aiv /\ drained' = drained /\ flag' = flag
      /\ CreditInv'
  BY CreditInvInductive DEF vars, FlagInv
<1>2. /\ UNCHANGED <<ALoaded, BLoaded, Taken, Released, Copied, Multiplied, Started, Ended, Written>>
      /\ \A kind, D : NextEvents(kind, D) = Events(kind, D)
  BY <1>1, CountsKept DEF NextEvents, Events
<1>3. CubeFlagInv'
  BY <1>1, <1>2, CubeFlagsNext DEF FlagInv, CubeFlagInv, L1Flags, ScaleFlags, L0Flags, CFlags
<1>4. ASSUME NEW v \in SubBlocks
      PROVE  UbInFlags(v)' /\ UbOutFlags(v)' /\ ReadyFlags(v)'
  <2>1. /\ UbInFlags(v) /\ UbOutFlags(v) /\ ReadyFlags(v) /\ bufNum \in BufNums
        /\ \A p \in VectorPipes : Piece(v, p)' = Piece(v, p)
    BY <1>1 DEF FlagInv, VectorFlagInv, CreditInv, PlaceInv, Piece
  <2>2. UbInFlags(v)'
    BY <1>1, <2>1, UbKeptIn DEF VectorPipes
  <2>3. UbOutFlags(v)'
    BY <1>1, <2>1, UbKeptOut DEF VectorPipes
  <2>4. ReadyFlags(v)'
    BY <1>1, <1>2, <2>1 DEF ReadyFlags, VecReady, Piece, Rounds, Served, Quad
  <2>. QED  BY <2>2, <2>3, <2>4
<1>5. ThroughInv' /\ IdleFlags'
  BY <1>1 DEF FlagInv, ThroughInv, IdleFlags, AtTile, HasPiece, Piece, NumTiles, KTiles, CeilDiv,
              NumPieces, Rounds, Quad, Serves, L1Buf, MaxBufNum
<1>. QED  BY <1>1, <1>3, <1>4, <1>5 DEF FlagInv, VectorFlagInv

LEMMA FlagsKept ==
    ASSUME FlagInv, [Next]_vars
    PROVE  FlagInv'
<1>. SUFFICES ASSUME Next
              PROVE  FlagInv'
  BY FlagsUnchanged
<1>1. CreditInv'
  BY CreditInvInductive DEF FlagInv
<1>2. CubeFlagInv'
  BY L1FlagsStep, ScaleFlagsStep, L0FlagsStep, CFlagsStep DEF CubeFlagInv
<1>3. \A v \in SubBlocks : UbInFlags(v)' /\ UbOutFlags(v)' /\ ReadyFlags(v)'
  BY UbFlagsStep, ReadyFlagsStep
<1>4. ThroughInv' /\ IdleFlags'
  BY ThroughStep, IdleFlagsStep
<1>. QED  BY <1>1, <1>2, <1>3, <1>4 DEF FlagInv, VectorFlagInv

LEMMA FlagInvariant == Spec => []FlagInv
<1>1. Init => FlagInv
  BY FlagsAtTheStart
<1>2. FlagInv /\ [Next]_vars => FlagInv'
  BY FlagsKept
<1>. QED  BY <1>1, <1>2, PTL DEF Spec
-----------------------------------------------------------------------------
(* The end of the kernel.                                                  *)
LEMMA NineDrainable == IsFiniteSet(Drainable) /\ Cardinality(Drainable) = 9
<1>. DEFINE cube == {"AIC"} \X {"MTE2", "MTE1", "M"}
            vector == VectorPipes \X SubBlocks
<1>1. /\ IsFiniteSet({"AIC"}) /\ Cardinality({"AIC"}) = 1
      /\ IsFiniteSet({"MTE2", "MTE1", "M"}) /\ Cardinality({"MTE2", "MTE1", "M"}) = 3
      /\ IsFiniteSet(VectorPipes) /\ Cardinality(VectorPipes) = 3
      /\ IsFiniteSet(SubBlocks) /\ Cardinality(SubBlocks) = 2
  <2>1. \A a : IsFiniteSet({a}) /\ Cardinality({a}) = 1
    BY FS_Singleton
  <2>2. \A a, b : a # b => IsFiniteSet({a, b}) /\ Cardinality({a, b}) = 2
    <3>. SUFFICES ASSUME NEW a, NEW b, a # b
                  PROVE  IsFiniteSet({a, b}) /\ Cardinality({a, b}) = 2
      OBVIOUS
    <3>1. {a, b} = {a} \cup {b} /\ b \notin {a}
      OBVIOUS
    <3>2. IsFiniteSet({a}) /\ Cardinality({a}) = 1
      BY <2>1
    <3>3. IsFiniteSet({a} \cup {b}) /\ Cardinality({a} \cup {b}) = Cardinality({a}) + 1
      BY <3>1, <3>2, FS_AddElement
    <3>. QED  BY <3>1, <3>2, <3>3
  <2>3. \A a, b, c : a # b /\ a # c /\ b # c => IsFiniteSet({a, b, c}) /\ Cardinality({a, b, c}) = 3
    <3>. SUFFICES ASSUME NEW a, NEW b, NEW c, a # b, a # c, b # c
                  PROVE  IsFiniteSet({a, b, c}) /\ Cardinality({a, b, c}) = 3
      OBVIOUS
    <3>1. {a, b, c} = {a, b} \cup {c} /\ c \notin {a, b}
      OBVIOUS
    <3>2. IsFiniteSet({a, b}) /\ Cardinality({a, b}) = 2
      BY <2>2
    <3>3. IsFiniteSet({a, b} \cup {c}) /\ Cardinality({a, b} \cup {c}) = Cardinality({a, b}) + 1
      BY <3>1, <3>2, FS_AddElement
    <3>. QED  BY <3>1, <3>2, <3>3
  <2>4. IsFiniteSet({"AIC"}) /\ Cardinality({"AIC"}) = 1
    BY <2>1
  <2>5. /\ IsFiniteSet({"MTE2", "MTE1", "M"}) /\ Cardinality({"MTE2", "MTE1", "M"}) = 3
        /\ IsFiniteSet({"MTE2", "V", "MTE3"}) /\ Cardinality({"MTE2", "V", "MTE3"}) = 3
    <3>1. /\ "MTE2" # "MTE1" /\ "MTE2" # "M" /\ "MTE1" # "M"
          /\ "MTE2" # "V" /\ "MTE2" # "MTE3" /\ "V" # "MTE3"
      OBVIOUS
    <3>. QED  BY <2>3, <3>1, Zenon
  <2>6. IsFiniteSet({0, 1}) /\ Cardinality({0, 1}) = 2
    <3>1. 0 # 1
      OBVIOUS
    <3>. QED  BY <2>2, <3>1, Zenon
  <2>. QED  BY <2>4, <2>5, <2>6 DEF VectorPipes, SubBlocks
<1>2. IsFiniteSet(cube) /\ Cardinality(cube) = 3
  BY <1>1, FS_Product
<1>3. IsFiniteSet(vector) /\ Cardinality(vector) = 6
  BY <1>1, FS_Product
<1>4. cube \cap vector = {} /\ Drainable = cube \cup vector
  <2>1. "AIC" \notin VectorPipes
    BY DEF VectorPipes
  <2>. QED  BY <2>1 DEF Drainable
<1>. HIDE DEF cube, vector
<1>5. Cardinality({}) = 0
  BY FS_EmptySet
<1>6. /\ IsFiniteSet(cube \cup vector)
      /\ Cardinality(cube \cup vector) = Cardinality(cube) + Cardinality(vector) - Cardinality(cube \cap vector)
  BY <1>2, <1>3, FS_Union
<1>. QED  BY <1>2, <1>3, <1>4, <1>5, <1>6

\* At the end every pipe has done all its work.
LEMMA AtTheEnd ==
    ASSUME FlagInv, Finished
    PROVE  /\ drained = Drainable
           /\ \A p \in CubePipes : AtTile(p) = TilesOf(p) /\ AtStep(p) = 0
           /\ \A v \in SubBlocks, p \in VectorPipes : Piece(v, p) = NumPieces[v]
<1>1. PlaceInv /\ ThroughInv
  BY DEF FlagInv, CreditInv
<1>2. drained = Drainable
  <2>1. drained \subseteq Drainable /\ Cardinality(drained) = 9
    BY <1>1 DEF PlaceInv, Finished
  <2>2. Cardinality(drained) = Cardinality(Drainable) /\ IsFiniteSet(Drainable)
    BY <2>1, NineDrainable
  <2>. QED  BY <2>1, <2>2, FS_Subset
<1>3. \A p \in CubePipes : AtTile(p) = TilesOf(p)
  <2>1. \A p \in {"MTE2", "MTE1", "M"} : <<"AIC", p>> \in drained
    BY <1>2 DEF Drainable
  <2>. QED  BY <1>1, <2>1 DEF ThroughInv, CubePipes, TilesOf, Finished
<1>4. \A p \in CubePipes : AtStep(p) = 0
  BY <1>1, <1>3 DEF PlaceInv, CubeInv, PlaceOK, AtTile, AtStep
<1>5. ASSUME NEW v \in SubBlocks, NEW p \in VectorPipes
      PROVE  Piece(v, p) = NumPieces[v]
  <2>1. <<p, v>> \in drained
    BY <1>2 DEF Drainable
  <2>2. ~(Piece(v, p) < NumPieces[v])
    BY <1>1, <2>1 DEF ThroughInv, HasPiece
  <2>3. Piece(v, p) \in Nat /\ Piece(v, p) <= NumPieces[v] /\ NumPieces[v] \in Nat
    BY <1>1, PieceCounts DEF PlaceInv, VectorInv, Piece
  <2>. QED  BY <2>2, <2>3
<1>. QED  BY <1>2, <1>3, <1>4, <1>5

LEMMA CubeFlagsConsumed ==
    ASSUME FlagInv, Finished, NEW f \in AicFlags
    PROVE  flag[f] = 0
<1>0. /\ PlaceInv /\ bufNum \in BufNums /\ L1Flags /\ ScaleFlags /\ L0Flags /\ CFlags /\ IdleFlags
      /\ \A p \in {"MTE2", "MTE1", "M"} : <<"AIC", p>> \in drained
  BY AtTheEnd DEF FlagInv, CreditInv, PlaceInv, CubeFlagInv, Drainable
<1>1. /\ \A b \in Buffers : flag[<<"MTE1_MTE2", b>>] = 0
      /\ \A b \in {0, 1} : /\ flag[<<"SCALEA_FREE", b>>] = 0 /\ flag[<<"SCALEB_FREE", b>>] = 0
                           /\ flag[<<"M_MTE1", b>>] = 0 /\ flag[<<"FIX_M", b>>] = 0
  BY <1>0 DEF L1Flags, ScaleFlags, L0Flags, CFlags, FreeRing, Events
<1>2. \A b \in {0, 1} : flag[<<"MTE1_M", b>>] = 0
  <2>1. Multiplied = Copied /\ Multiplied \in Nat
    BY <1>0, CountTypes DEF L0Flags, FreeRing
  <2>2. \A b : ~Held(Multiplied, Copied, L0Bufs, b)
    BY <2>1, EmptyRing
  <2>. QED  BY <1>0, <2>2 DEF L0Flags, FullEvents, Events
<1>3. \A b \in 0 .. MaxBufNum - 1 : flag[<<"MTE1_MTE2", b>>] = 0
  <2>1. \A b \in 0 .. MaxBufNum - 1 : b \in Buffers \/ b \in bufNum .. MaxBufNum - 1
    BY <1>0, BufNumIs, MaxBufNumIs DEF Buffers
  <2>. QED  BY <1>0, <1>1, <2>1 DEF IdleFlags
<1>4. /\ AtTile("MTE2") = NumTiles /\ AtTile("MTE1") = NumTiles /\ AtTile("M") = NumTiles
      /\ AtTile("FIX") = NumBlocks
      /\ AtStep("MTE2") = 0 /\ AtStep("MTE1") = 0 /\ AtStep("M") = 0
  BY AtTheEnd DEF CubePipes, TilesOf
<1>5. flag[<<"MTE2_MTE1", 0>>] = 0
  BY <1>0, <1>4, Shapes DEF L1Flags, BLoaded, Taken, Positive
<1>6. flag[<<"M_FIX", 0>>] = 0
  <2>1. NumTiles = KTiles * NumBlocks + 0 /\ 0 \in 0 .. KTiles - 1 /\ NumBlocks \in Nat
    BY Shapes DEF NumTiles, Positive
  <2>2. NumTiles \div KTiles = NumBlocks
    BY <2>1, Shapes, DivModUnique
  <2>3. BlockOf(NumTiles) = NumBlocks
    BY <2>2 DEF BlockOf
  <2>. QED  BY <1>0, <1>4, <2>1, <2>3 DEF CFlags, Ended, Written
<1>. QED  BY <1>1, <1>2, <1>3, <1>5, <1>6 DEF AicFlags

LEMMA UbFlagsConsumed ==
    ASSUME FlagInv, Finished, NEW f \in AivFlags
    PROVE  flag[f] = 0
<1>1. PICK kind \in UbKinds, v \in SubBlocks, u \in 0 .. MaxBufNum - 1 : f = <<kind, v, u>>
  BY DEF AivFlags, UbKinds
<1>2. /\ PlaceInv /\ bufNum \in BufNums /\ IdleFlags /\ UbInFlags(v) /\ UbOutFlags(v)
      /\ <<"MTE2", v>> \in drained /\ <<"V", v>> \in drained
  BY AtTheEnd DEF FlagInv, CreditInv, PlaceInv, VectorFlagInv, Drainable, VectorPipes
<1>3. CASE u \notin Buffers
  <2>1. u \in bufNum .. MaxBufNum - 1
    BY <1>2, <1>3, BufNumIs, MaxBufNumIs DEF Buffers
  <2>. QED  BY <1>1, <1>2, <2>1 DEF IdleFlags, UbKinds
<1>4. CASE u \in Buffers
  <2>1. ASSUME NEW free, NEW full, NEW n \in Nat, NEW off, off, UbRing(v, free, full, n, n, off)
        PROVE  flag[<<free, v, u>>] + 0 = 0 /\ flag[<<full, v, u>>] = 0
    <3>1. FreshOf(v, free, n, off)[u] = 0
      BY <1>4, <2>1 DEF UbRing, FreeRing, FreshOf
    <3>2. EventsOf(v, full)[u] = 0
      BY <1>4, <2>1, EmptyRing DEF UbRing, FullEvents, EventsOf
    <3>. QED  BY <1>4, <2>1, <3>1, <3>2 DEF FreshOf, EventsOf
  <2>2. \A p \in VectorPipes : Piece(v, p) = NumPieces[v] /\ NumPieces[v] \in Nat
    BY <1>2, AtTheEnd, PieceCounts
  <2>3. /\ UbRing(v, "V_MTE2", "MTE2_V", NumPieces[v], NumPieces[v], <<"MTE2", v>> \in drained)
        /\ UbRing(v, "MTE3_V", "V_MTE3", NumPieces[v], NumPieces[v], <<"V", v>> \in drained)
        /\ NumPieces[v] \in Nat
    BY <1>2, <2>2 DEF UbInFlags, UbOutFlags, VectorPipes
  <2>4. \A k \in UbKinds : flag[<<k, v, u>>] + 0 = 0 \/ flag[<<k, v, u>>] = 0
    BY <1>2, <2>1, <2>3 DEF UbKinds
  <2>5. flag[f] \in Nat
    BY <1>2 DEF PlaceInv, Flags
  <2>. QED  BY <1>1, <2>4, <2>5
<1>. QED  BY <1>3, <1>4

LEMMA CreditsConsumed ==
    ASSUME FlagInv, Finished, NEW v \in SubBlocks
    PROVE  /\ flag[VecReady(v)] = 0
           /\ flag[CubeFree(v)] = IF bufNum = 2 /\ v = 1 THEN 1 ELSE 0
<1>0. /\ PlaceInv /\ bufNum \in BufNums /\ CreditsConserved /\ ReadyFlags(v)
      /\ flag \in [Flags -> Nat] /\ (v = 0 \/ v = 1)
  BY DEF FlagInv, CreditInv, PlaceInv, SubBlocks
<1>1. /\ Piece(v, "MTE3") = NumPieces[v] /\ <<"MTE3", v>> \in drained
      /\ AtTile("MTE1") = NumTiles /\ AtStep("MTE1") = 0
  BY AtTheEnd DEF VectorPipes, Drainable, CubePipes, TilesOf
<1>. DEFINE n == Served(v, NumTiles)
<1>2. n \in Nat /\ Rounds \in Positive /\ NumPieces[v] = Rounds * n + 0 /\ 0 \in 0 .. Rounds - 1
      /\ n = Served(v, NumTiles)
  <2>1. n \in Nat /\ Rounds \in Positive
    BY <1>0, ServedNext, PieceCounts, Shapes DEF Positive
  <2>2. NumPieces[v] = Rounds * n
    BY <1>0, PiecesServed
  <2>. HIDE DEF n
  <2>3. Rounds * n \in Nat /\ 0 \in 0 .. Rounds - 1
    BY <2>1 DEF Positive
  <2>. QED  BY <2>1, <2>2, <2>3 DEF n
<1>. HIDE DEF n
<1>3. NumPieces[v] \div Rounds = n /\ NumPieces[v] % Rounds = 0
  BY <1>2, DivModUnique
<1>4. flag[VecReady(v)] = 0
  <2>1. Taken = NumTiles
    BY <1>1, Shapes DEF Taken, Positive
  <2>. QED  BY <1>0, <1>1, <1>2, <1>3, <2>1 DEF ReadyFlags
<1>5. Filling(v) = 0 /\ Reading(v) = 0 /\ TakenBack(v) = FinalWaits(v)
  BY <1>1, <1>3 DEF Filling, Round, Reading, TakenBack
<1>6. flag[CubeFree(v)] + FinalWaits(v) = Credits[v] /\ flag[CubeFree(v)] \in Nat
  <2>1. flag[CubeFree(v)] \in Nat /\ FinalWaits(v) \in Nat
    BY <1>0, CreditFlags DEF FinalWaits
  <2>. QED  BY <1>0, <1>4, <1>5, <2>1 DEF CreditsConserved
<1>7. flag[CubeFree(v)] = IF bufNum = 2 /\ v = 1 THEN 1 ELSE 0
  BY <1>0, <1>6, CreditsAre, BufNumIs DEF FinalWaits, Quad
<1>. QED  BY <1>4, <1>7

\* When the last pipe has run its destructor no event and no cross-core flag is left set for the
\* next kernel, but the credit of AIV 1 with two buffers (~BlockMmad and ~BlockPrologue,
\* block_mmad_b_prologue_mx.h and block_prologue_b_cast_scsc.h), for every shape.
THEOREM KernelConsumesFlags == Spec => []FlagsConsumed
<1>1. FlagInv => FlagsConsumed
  <2>. SUFFICES ASSUME FlagInv, Finished, NEW f \in Flags
                PROVE  flag[f] = Residue(f)
    BY DEF FlagsConsumed
  <2>1. CASE f \in AicFlags
    <3>1. f # CubeFree(1)
      BY <2>1 DEF AicFlags, CubeFree
    <3>. QED  BY <2>1, <3>1, CubeFlagsConsumed DEF Residue
  <2>2. CASE f \in AivFlags
    <3>1. f # CubeFree(1)
      BY <2>2 DEF AivFlags, CubeFree
    <3>. QED  BY <2>2, <3>1, UbFlagsConsumed DEF Residue
  <2>3. CASE f \in CrossFlags
    <3>1. PICK v \in SubBlocks : f = CubeFree(v) \/ f = VecReady(v)
      BY <2>3 DEF CrossFlags, CubeFree, VecReady
    <3>2. (v = 1 <=> CubeFree(v) = CubeFree(1)) /\ VecReady(v) # CubeFree(1)
      BY DEF CubeFree, VecReady
    <3>. QED  BY <3>1, <3>2, CreditsConsumed DEF Residue
  <2>. QED  BY <2>1, <2>2, <2>3 DEF Flags
<1>. QED  BY <1>1, FlagInvariant, PTL
-----------------------------------------------------------------------------
(* What the memories hold, in the terms of the rings: items lo to hi - 1   *)
(* are in their buffers, and a buffer holds an item below hi that goes     *)
(* through it, or was never written.                                       *)
Holds(m, lo, hi, B, val) == \A j \in lo .. hi - 1 : m[B[j]] = val[j]
Known(m, hi, B) == \A b \in DOMAIN m : m[b] = Empty \/ (m[b] \in 0 .. hi - 1 /\ B[m[b]] = b)
Wrote(m, g, b, what) == DOMAIN g = DOMAIN m /\ \A a \in DOMAIN m : g[a] = IF a = b THEN what ELSE m[a]

LEMMA HoldsPut ==
    ASSUME NEW lo \in Nat, NEW hi \in Nat, NEW B, NEW val, NEW m, NEW g, Apart(lo, hi + 1, B),
           \A j \in lo .. hi : B[j] \in DOMAIN m, Holds(m, lo, hi, B, val), Wrote(m, g, B[hi], val[hi])
    PROVE  Holds(g, lo, hi + 1, B, val)
<1>. SUFFICES ASSUME NEW j \in lo .. hi PROVE g[B[j]] = val[j]
  BY DEF Holds
<1>1. CASE j = hi
  BY <1>1 DEF Wrote
<1>2. CASE j # hi
  <2>1. B[j] # B[hi] /\ m[B[j]] = val[j]
    BY <1>2 DEF Apart, Holds
  <2>. QED  BY <2>1 DEF Wrote
<1>. QED  BY <1>1, <1>2

LEMMA HoldsFewer ==
    ASSUME NEW lo \in Nat, NEW hi \in Nat, NEW B, NEW val, NEW m, Holds(m, lo, hi, B, val),
           NEW low \in Nat, lo <= low
    PROVE  Holds(m, low, hi, B, val)
BY DEF Holds

LEMMA KnownPut ==
    ASSUME NEW hi \in Nat, NEW B, NEW m, NEW g, Known(m, hi, B), Wrote(m, g, B[hi], hi)
    PROVE  Known(g, hi + 1, B)
BY DEF Known, Wrote

Cells(kind, D) == [b \in D |-> mem[<<kind, b>>]]
CellsOf(v, kind) == [u \in Buffers |-> mem[<<kind, v, u>>]]
NextCells(kind, D) == [b \in D |-> mem'[<<kind, b>>]]
NextCellsOf(v, kind) == [u \in Buffers |-> mem'[<<kind, v, u>>]]

LEMMA CellsWritten ==
    ASSUME NEW kind, NEW D, NEW b, NEW what,
           \A a \in D : mem'[<<kind, a>>] = IF a = b THEN what ELSE mem[<<kind, a>>]
    PROVE  Wrote(Cells(kind, D), NextCells(kind, D), b, what)
BY DEF Wrote, Cells, NextCells

LEMMA CellsKept ==
    ASSUME NEW kind, NEW D, \A a \in D : mem'[<<kind, a>>] = mem[<<kind, a>>]
    PROVE  NextCells(kind, D) = Cells(kind, D)
BY DEF Cells, NextCells

LEMMA LocationNames ==
    ASSUME bufNum \in BufNums
    PROVE  /\ Buffers \subseteq 0 .. MaxBufNum - 1
           /\ \A b \in 0 .. MaxBufNum - 1 : <<"L1A", b>> \in Locations
           /\ \A b \in 0 .. MaxBufNum - 1 : \A p \in SubBlocks \cup 0 .. UbRounds - 1 :
                <<"L1B", b, p>> \in Locations
           /\ \A b \in 0 .. MaxBufNum - 1, p \in {0, 1} : <<"BIAS", b, p>> \in Locations
           /\ \A kind \in {"SCALEA", "SCALEB", "L0", "C"}, b \in {0, 1} : <<kind, b>> \in Locations
           /\ \A kind \in {"UBIN", "UBOUT"}, v \in SubBlocks, u \in 0 .. MaxBufNum - 1 :
                <<kind, v, u>> \in Locations
<1>1. Buffers \subseteq 0 .. MaxBufNum - 1
  BY FlagNames
<1>2. /\ \A b \in 0 .. MaxBufNum - 1 : <<"L1A", b>> \in Locations
      /\ \A b \in 0 .. MaxBufNum - 1 : \A p \in SubBlocks \cup 0 .. UbRounds - 1 :
                <<"L1B", b, p>> \in Locations
  BY DEF Locations
<1>3. /\ \A b \in 0 .. MaxBufNum - 1, p \in {0, 1} : <<"BIAS", b, p>> \in Locations
      /\ \A kind \in {"SCALEA", "SCALEB", "L0", "C"}, b \in {0, 1} : <<kind, b>> \in Locations
  BY DEF Locations
<1>4. \A kind \in {"UBIN", "UBOUT"}, v \in SubBlocks, u \in 0 .. MaxBufNum - 1 :
                <<kind, v, u>> \in Locations
  BY DEF Locations
<1>. QED  BY <1>1, <1>2, <1>3, <1>4

-----------------------------------------------------------------------------
(* What each step stores.                                                  *)
Stores(where, what) == \A loc \in Locations : mem'[loc] = IF loc \in where THEN what ELSE mem[loc]
StoresOnly(kinds) == \A loc \in Locations : loc[1] \notin kinds => mem'[loc] = mem[loc]
StoresOnlyOf(v, kind) ==
    \A loc \in Locations : ~(loc[1] = kind /\ loc[2] = v) => mem'[loc] = mem[loc]

LEMMA LoadAStores ==
    ASSUME PlaceInv, LoadA
    PROVE  LET t == AtTile("MTE2") IN
           /\ StoresOnly({"L1A", "SCALEA"})
           /\ \A b \in 0 .. MaxBufNum - 1 :
                mem'[<<"L1A", b>>] = IF b = L1Buf(t) THEN t ELSE mem[<<"L1A", b>>]
           /\ \A b \in {0, 1} : mem'[<<"SCALEA", b>>] = IF OpensGroup(t) /\ b = ScaleBuf(t)
                                                        THEN Group(t) ELSE mem[<<"SCALEA", b>>]
<1>. DEFINE t == AtTile("MTE2")
<1>1. /\ mem' = [mem EXCEPT ![<<"L1A", L1Buf(t)>>] = t,
                            ![<<"SCALEA", ScaleBuf(t)>>] = IF OpensGroup(t) THEN Group(t) ELSE @]
      /\ DOMAIN mem = Locations /\ bufNum \in BufNums
  BY DEF LoadA, PlaceInv
<1>2. /\ \A b \in 0 .. MaxBufNum - 1 : <<"L1A", b>> \in Locations
      /\ \A b \in {0, 1} : <<"SCALEA", b>> \in Locations
  BY <1>1, LocationNames
<1>. HIDE DEF t
<1>3. \A loc \in Locations :
        mem'[loc] = IF loc = <<"SCALEA", ScaleBuf(t)>>
                    THEN IF OpensGroup(t) THEN Group(t) ELSE mem[loc]
                    ELSE IF loc = <<"L1A", L1Buf(t)>> THEN t ELSE mem[loc]
  BY <1>1
<1>. QED  BY <1>2, <1>3 DEF StoresOnly, t

LEMMA LoadScaleBStores ==
    ASSUME PlaceInv, LoadScaleB
    PROVE  LET t == AtTile("MTE2") IN
           /\ StoresOnly({"SCALEB"})
           /\ \A b \in {0, 1} : mem'[<<"SCALEB", b>>] = IF OpensGroup(t) /\ b = ScaleBuf(t)
                                                        THEN Group(t) ELSE mem[<<"SCALEB", b>>]
<1>. DEFINE t == AtTile("MTE2")
<1>1. Stores(When(OpensGroup(t), {<<"SCALEB", ScaleBuf(t)>>}), Group(t)) /\ bufNum \in BufNums
  BY DEF LoadScaleB, PlaceInv, Put, Stores
<1>2. \A b \in {0, 1} : <<"SCALEB", b>> \in Locations
  BY <1>1, LocationNames
<1>. QED  BY <1>1, <1>2 DEF StoresOnly, Stores, When

LEMMA CopyToL0Stores ==
    ASSUME PlaceInv, CopyToL0
    PROVE  LET t == AtTile("MTE1")
               i == AtStep("MTE1") IN
           /\ StoresOnly({"L0"})
           /\ \A b \in {0, 1} : mem'[<<"L0", b>>] = IF b = L0Buf(t, i) THEN Operands(t, i)
                                                    ELSE mem[<<"L0", b>>]
<1>. DEFINE t == AtTile("MTE1")
            i == AtStep("MTE1")
<1>1. Stores({<<"L0", L0Buf(t, i)>>}, Operands(t, i)) /\ bufNum \in BufNums
  BY DEF CopyToL0, PlaceInv, Put, Stores
<1>2. \A b \in {0, 1} : <<"L0", b>> \in Locations
  BY <1>1, LocationNames
<1>. HIDE DEF t, i
<1>. QED  BY <1>1, <1>2 DEF StoresOnly, Stores, t, i

LEMMA MmadStores ==
    ASSUME PlaceInv, Mmad
    PROVE  LET t == AtTile("M")
               i == AtStep("M")
               c == CHalf(BlockOf(t)) IN
           /\ StoresOnly({"C"})
           /\ \A b \in {0, 1} : mem'[<<"C", b>>] =
                IF b = c THEN Accumulate(t, i, mem[<<"L0", L0Buf(t, i)>>], mem[<<"C", c>>])
                ELSE mem[<<"C", b>>]
<1>. DEFINE t == AtTile("M")
            i == AtStep("M")
            c == CHalf(BlockOf(t))
            acc == Accumulate(t, i, mem[<<"L0", L0Buf(t, i)>>], mem[<<"C", c>>])
<1>1. Stores({<<"C", c>>}, acc) /\ bufNum \in BufNums
  BY DEF Mmad, PlaceInv, Put, Stores
<1>2. \A b \in {0, 1} : <<"C", b>> \in Locations
  BY <1>1, LocationNames
<1>. HIDE DEF t, i, c, acc
<1>3. StoresOnly({"C"}) /\ \A b \in {0, 1} : mem'[<<"C", b>>] = IF b = c THEN acc ELSE mem[<<"C", b>>]
  BY <1>1, <1>2 DEF StoresOnly, Stores
<1>. QED  BY <1>3 DEF t, i, c, acc

LEMMA CopyInWeightStores ==
    ASSUME PlaceInv, NEW v \in SubBlocks, CopyInWeight(v)
    PROVE  LET j == Piece(v, "MTE2") IN
           /\ StoresOnlyOf(v, "UBIN")
           /\ \A u \in Buffers : mem'[<<"UBIN", v, u>>] = IF u = UbBuf(j) THEN <<Tile(v, j), Round(j)>>
                                                          ELSE mem[<<"UBIN", v, u>>]
<1>. DEFINE j == Piece(v, "MTE2")
            what == <<Tile(v, j), Round(j)>>
<1>1. Stores({<<"UBIN", v, UbBuf(j)>>}, what) /\ bufNum \in BufNums
  BY DEF CopyInWeight, PlaceInv, Put, Stores
<1>2. \A u \in Buffers : <<"UBIN", v, u>> \in Locations
  BY <1>1, LocationNames
<1>. HIDE DEF j, what
<1>3. StoresOnlyOf(v, "UBIN")
      /\ \A u \in Buffers : mem'[<<"UBIN", v, u>>] = IF u = UbBuf(j) THEN what ELSE mem[<<"UBIN", v, u>>]
  BY <1>1, <1>2 DEF StoresOnlyOf, Stores
<1>. QED  BY <1>3 DEF j, what

LEMMA AntiQuantComputeStores ==
    ASSUME PlaceInv, NEW v \in SubBlocks, AntiQuantCompute(v)
    PROVE  LET j == Piece(v, "V") IN
           /\ StoresOnlyOf(v, "UBOUT")
           /\ \A u \in Buffers : mem'[<<"UBOUT", v, u>>] = IF u = UbBuf(j) THEN mem[<<"UBIN", v, UbBuf(j)>>]
                                                           ELSE mem[<<"UBOUT", v, u>>]
<1>. DEFINE j == Piece(v, "V")
            what == mem[<<"UBIN", v, UbBuf(j)>>]
<1>1. Stores({<<"UBOUT", v, UbBuf(j)>>}, what) /\ bufNum \in BufNums
  BY DEF AntiQuantCompute, PlaceInv, Put, Stores
<1>2. \A u \in Buffers : <<"UBOUT", v, u>> \in Locations
  BY <1>1, LocationNames
<1>. HIDE DEF j, what
<1>3. StoresOnlyOf(v, "UBOUT")
      /\ \A u \in Buffers : mem'[<<"UBOUT", v, u>>] = IF u = UbBuf(j) THEN what ELSE mem[<<"UBOUT", v, u>>]
  BY <1>1, <1>2 DEF StoresOnlyOf, Stores
<1>. QED  BY <1>3 DEF j, what

LEMMA CopyOutWeightStores ==
    ASSUME PlaceInv, NEW v \in SubBlocks, CopyOutWeight(v)
    PROVE  LET j     == Piece(v, "MTE3")
               buf   == L1Buf(Tile(v, j))
               piece == mem[<<"UBOUT", v, UbBuf(j)>>] IN
           /\ StoresOnly({"L1B", "BIAS"})
           /\ \A b, p : <<"L1B", b, p>> \in Locations =>
                mem'[<<"L1B", b, p>>] = IF b = buf /\ p \in PartsOf(v, j) THEN piece
                                        ELSE mem[<<"L1B", b, p>>]
           /\ \A b, p : <<"BIAS", b, p>> \in Locations =>
                mem'[<<"BIAS", b, p>>] = IF b = buf /\ p \in BiasPartsOf(v, j) THEN BlockOf(piece[1])
                                         ELSE mem[<<"BIAS", b, p>>]
<1>. DEFINE j == Piece(v, "MTE3")
            buf   == L1Buf(Tile(v, j))
            piece == mem[<<"UBOUT", v, UbBuf(j)>>]
            parts == PartsOf(v, j)
            bias == BiasPartsOf(v, j)
<1>1. \A loc \in Locations :
        mem'[loc] = IF loc \in {<<"L1B", buf, p>> : p \in parts} THEN piece
                    ELSE IF loc \in {<<"BIAS", buf, p>> : p \in bias} THEN BlockOf(piece[1])
                    ELSE mem[loc]
  BY DEF CopyOutWeight, CopyVecOut2L1
<1>. HIDE DEF j, buf, piece, parts, bias
<1>2. StoresOnly({"L1B", "BIAS"})
  BY <1>1 DEF StoresOnly
<1>3. \A b, p : <<"L1B", b, p>> \in Locations =>
                mem'[<<"L1B", b, p>>] = IF b = buf /\ p \in parts THEN piece
                                        ELSE mem[<<"L1B", b, p>>]
  BY <1>1
<1>4. \A b, p : <<"BIAS", b, p>> \in Locations =>
                mem'[<<"BIAS", b, p>>] = IF b = buf /\ p \in bias THEN BlockOf(piece[1])
                                         ELSE mem[<<"BIAS", b, p>>]
  BY <1>1
<1>. QED  BY <1>2, <1>3, <1>4 DEF j, buf, piece, parts, bias

LEMMA OthersStoreNothing ==
    /\ GetTensorC => mem' = mem
    /\ \A p \in {"MTE2", "MTE1", "M"} : CubeDrains(p) => mem' = mem
    /\ \A v \in SubBlocks, p \in {"MTE2", "V"} : VectorDrains(p, v) => mem' = mem
    /\ \A v \in SubBlocks : DrainCredits(v) => mem' = mem
BY DEF GetTensorC, CubeDrains, VectorDrains, Drain, DrainCredits
-----------------------------------------------------------------------------
(* The tiles of A and the scales in L1.                                    *)
Same == [j \in Nat |-> j]
Stored(m, lo, hi, B) == Holds(m, lo, hi, B, Same) /\ Known(m, hi, B)

LEMMA StoredPut ==
    ASSUME NEW lo \in Nat, NEW hi \in Nat, NEW B, NEW m, NEW g, Apart(lo, hi + 1, B),
           \A j \in lo .. hi : B[j] \in DOMAIN m, Stored(m, lo, hi, B), Wrote(m, g, B[hi], hi)
    PROVE  Stored(g, lo, hi + 1, B)
<1>1. Same[hi] = hi
  BY DEF Same
<1>2. Holds(g, lo, hi + 1, B, Same)
  BY <1>1, HoldsPut DEF Stored
<1>. QED  BY <1>2, KnownPut DEF Stored

LEMMA StoredFewer ==
    ASSUME NEW lo \in Nat, NEW hi \in Nat, NEW B, NEW m, Stored(m, lo, hi, B),
           NEW low \in Nat, lo <= low
    PROVE  Stored(m, low, hi, B)
BY HoldsFewer DEF Stored

L1AData == Stored(Cells("L1A", Buffers), Released, ALoaded, InTurn(bufNum))
ScaleData(kind, n) == Stored(Cells(kind, {0, 1}), Group(Released), Begun(n), InTurn(2))
NextScaleData(kind, n) == Stored(NextCells(kind, {0, 1}), Group(Released'), Begun(n), InTurn(2))
ScalesData == ScaleData("SCALEA", ALoaded) /\ ScaleData("SCALEB", BLoaded)

LEMMA TileDataNext ==
    ASSUME bufNum' = bufNum
    PROVE  /\ L1AData' <=> Stored(NextCells("L1A", Buffers), Released', ALoaded', InTurn(bufNum))
           /\ ScalesData' <=> NextScaleData("SCALEA", ALoaded') /\ NextScaleData("SCALEB", BLoaded')
<1>1. Cells("L1A", Buffers)' = NextCells("L1A", Buffers)
  BY DEF Cells, NextCells, Buffers
<1>2. L1AData' <=> Stored(NextCells("L1A", Buffers), Released', ALoaded', InTurn(bufNum))
  BY <1>1 DEF L1AData, Stored, Holds, Known, InTurn, Same
<1>3. Cells("SCALEA", {0, 1})' = NextCells("SCALEA", {0, 1})
      /\ Cells("SCALEB", {0, 1})' = NextCells("SCALEB", {0, 1})
  BY DEF Cells, NextCells
<1>4. Group(Released)' = Group(Released') /\ Begun(ALoaded)' = Begun(ALoaded')
      /\ Begun(BLoaded)' = Begun(BLoaded')
  BY DEF Group, Begun, OpensGroup, KOf, BlockOf, KTiles, CeilDiv
<1>5. ScalesData' <=> NextScaleData("SCALEA", ALoaded') /\ NextScaleData("SCALEB", BLoaded')
  <2>1. ScaleData("SCALEA", ALoaded)'
          <=> Stored(NextCells("SCALEA", {0, 1}), Group(Released'), Begun(ALoaded'), InTurn(2))
    BY <1>3, <1>4 DEF ScaleData, Stored, Holds, Known, InTurn, Same
  <2>2. ScaleData("SCALEB", BLoaded)'
          <=> Stored(NextCells("SCALEB", {0, 1}), Group(Released'), Begun(BLoaded'), InTurn(2))
    BY <1>3, <1>4 DEF ScaleData, Stored, Holds, Known, InTurn, Same
  <2>. QED  BY <2>1, <2>2 DEF ScalesData, NextScaleData
<1>. QED  BY <1>2, <1>5

\* The rings of the next state: what is stored in it is in buffers of its own.
LEMMA NextApart ==
    ASSUME bufNum' = bufNum, CubeFlagInv'
    PROVE  /\ Apart(Released', ALoaded', InTurn(bufNum))
           /\ Apart(Group(Released'), Begun(ALoaded'), InTurn(2))
           /\ Apart(Group(Released'), Begun(BLoaded'), InTurn(2))
           /\ Apart(Multiplied', Copied', L0Bufs)
           /\ Apart(Written', Started', InTurn(2))
BY CubeFlagsNext DEF CubeFlagInv, FreeRing

\* A step of anybody but LoadA, LoadScaleB and CopyToL0 leaves the tiles of A and the scales alone.
LEMMA TilesUntouched ==
    ASSUME PlaceInv, Next, ~LoadA, ~LoadScaleB, ~CopyToL0
    PROVE  /\ UNCHANGED <<Released, ALoaded, BLoaded, Copied, Taken>>
           /\ StoresOnly({"C", "UBIN", "UBOUT", "L1B", "BIAS"})
<1>0. bufNum' = bufNum
  BY StepCases
<1>1. CASE Mmad
  BY <1>0, <1>1, MmadCounts, MmadStores DEF StoresOnly
<1>2. CASE GetTensorC
  BY <1>0, <1>2, GetTensorCCounts, OthersStoreNothing DEF StoresOnly
<1>3. ASSUME NEW p \in {"MTE2", "MTE1", "M"}, CubeDrains(p)
      PROVE  /\ UNCHANGED <<Released, ALoaded, BLoaded, Copied, Taken>>
             /\ StoresOnly({"C", "UBIN", "UBOUT", "L1B", "BIAS"})
  BY <1>0, <1>3, CubeDrainCounts, OthersStoreNothing DEF StoresOnly
<1>4. ASSUME NEW v \in SubBlocks, VectorAct(v)
      PROVE  /\ UNCHANGED <<Released, ALoaded, BLoaded, Copied, Taken>>
             /\ StoresOnly({"C", "UBIN", "UBOUT", "L1B", "BIAS"})
  <2>1. UNCHANGED <<Released, ALoaded, BLoaded, Copied, Taken>>
    BY <1>0, <1>4, CubeUntouched
  <2>2. CASE CopyInWeight(v)
    BY <2>1, <2>2, CopyInWeightStores DEF StoresOnly, StoresOnlyOf
  <2>3. CASE AntiQuantCompute(v)
    BY <2>1, <2>3, AntiQuantComputeStores DEF StoresOnly, StoresOnlyOf
  <2>4. CASE CopyOutWeight(v)
    BY <2>1, <2>4, CopyOutWeightStores DEF StoresOnly
  <2>5. CASE mem' = mem
    BY <2>1, <2>5 DEF StoresOnly
  <2>. QED  BY <1>4, <2>2, <2>3, <2>4, <2>5, OthersStoreNothing DEF VectorAct
<1>. QED  BY <1>1, <1>2, <1>3, <1>4, StepCases DEF VectorAct

LEMMA L1ADataStep ==
    ASSUME FlagInv, FlagInv', Next, L1AData
    PROVE  L1AData'
<1>. DEFINE B == InTurn(bufNum)
            m == Cells("L1A", Buffers)
            g == NextCells("L1A", Buffers)
<1>0. /\ bufNum' = bufNum /\ PlaceInv /\ bufNum \in BufNums /\ Stored(m, Released, ALoaded, B)
      /\ Released \in Nat /\ ALoaded \in Nat
      /\ \A b \in Buffers : <<"L1A", b>> \in Locations
  BY StepCases, CountTypes, LocationNames DEF FlagInv, CreditInv, PlaceInv, L1AData
<1>00. \A j \in Nat : B[j] = L1Buf(j) /\ B[j] \in Buffers
  <2>1. bufNum \in Positive
    BY <1>0, BufNumIs DEF Positive
  <2>. QED  BY <2>1, TurnIs DEF Buffers, L1Buf
<1>01. L1AData' <=> Stored(g, Released', ALoaded', B)
  BY <1>0, TileDataNext
<1>02. Apart(Released', ALoaded', B)
  BY <1>0, NextApart DEF FlagInv
<1>03. ASSUME \A b \in Buffers : mem'[<<"L1A", b>>] = mem[<<"L1A", b>>]
       PROVE  g = m
  BY <1>03, CellsKept
<1>1. CASE LoadA
  <2>. DEFINE t == AtTile("MTE2")
  <2>1. /\ \A b \in Buffers : mem'[<<"L1A", b>>] = IF b = L1Buf(t) THEN t ELSE mem[<<"L1A", b>>]
        /\ ALoaded' = ALoaded + 1 /\ Released' = Released /\ t = ALoaded
    BY <1>0, <1>1, LoadAStores, LoadACounts, LocationNames DEF BLoaded
  <2>2. B[ALoaded] = L1Buf(t) /\ DOMAIN m = Buffers
    BY <1>0, <1>00, <2>1 DEF Cells
  <2>. HIDE DEF t
  <2>3. Wrote(m, g, L1Buf(t), t)
    BY <2>1, CellsWritten
  <2>. HIDE DEF m, g, B
  <2>4. Wrote(m, g, B[ALoaded], ALoaded) /\ Apart(Released, ALoaded + 1, B)
        /\ \A j \in Released .. ALoaded : B[j] \in DOMAIN m
    BY <1>0, <1>00, <1>02, <2>1, <2>2, <2>3
  <2>5. Stored(g, Released, ALoaded + 1, B)
    BY <1>0, <2>4, StoredPut
  <2>. QED  BY <1>01, <2>1, <2>5
<1>2. CASE LoadScaleB
  <2>1. /\ \A b \in Buffers : mem'[<<"L1A", b>>] = mem[<<"L1A", b>>]
        /\ UNCHANGED <<Released, ALoaded>>
    BY <1>0, <1>2, LoadScaleBStores, LoadScaleBCounts DEF StoresOnly
  <2>. QED  BY <1>0, <1>01, <1>03, <2>1
<1>3. CASE CopyToL0
  <2>1. /\ \A b \in Buffers : mem'[<<"L1A", b>>] = mem[<<"L1A", b>>]
        /\ ALoaded' = ALoaded /\ Released' \in Nat /\ Released <= Released'
    BY <1>0, <1>3, CopyToL0Stores, CopyToL0Counts DEF StoresOnly
  <2>2. g = m
    BY <1>03, <2>1
  <2>. HIDE DEF m, g, B
  <2>3. Stored(m, Released', ALoaded, B)
    BY <1>0, <2>1, StoredFewer
  <2>. QED  BY <1>01, <2>1, <2>2, <2>3
<1>4. CASE ~LoadA /\ ~LoadScaleB /\ ~CopyToL0
  <2>1. /\ \A b \in Buffers : mem'[<<"L1A", b>>] = mem[<<"L1A", b>>]
        /\ UNCHANGED <<Released, ALoaded>>
    BY <1>0, <1>4, TilesUntouched DEF StoresOnly
  <2>. QED  BY <1>0, <1>01, <1>03, <2>1
<1>. QED  BY <1>1, <1>2, <1>3, <1>4

\* A load of the scales by LoadA or LoadScaleB: only with the first tile of a group.
LEMMA ScaleStored ==
    ASSUME NEW kind, NEW n \in Nat, Released \in Nat, Released' = Released, ScaleData(kind, n),
           Apart(Group(Released), Begun(n + 1), InTurn(2)),
           \A b \in {0, 1} : mem'[<<kind, b>>] = IF OpensGroup(n) /\ b = ScaleBuf(n)
                                                 THEN Group(n) ELSE mem[<<kind, b>>]
    PROVE  NextScaleData(kind, n + 1)
<1>. DEFINE B == InTurn(2)
            m == Cells(kind, {0, 1})
            g == NextCells(kind, {0, 1})
            lo == Group(Released)
<1>0. /\ Stored(m, lo, Begun(n), B) /\ lo \in Nat /\ Begun(n) \in Nat
      /\ Begun(n + 1) = Begun(n) + (IF OpensGroup(n) THEN 1 ELSE 0)
      /\ OpensGroup(n) => Begun(n) = Group(n)
      /\ DOMAIN m = {0, 1}
  BY GroupNext, BegunNext DEF ScaleData, Cells
<1>00. \A j \in Nat : B[j] \in {0, 1}
  <2>1. 2 \in Positive
    BY DEF Positive
  <2>. QED  BY <2>1, TurnIs
<1>1. CASE OpensGroup(n)
  <2>1. Wrote(m, g, ScaleBuf(n), Group(n))
    BY <1>1, CellsWritten
  <2>2. Begun(n) = Group(n) /\ B[Group(n)] = ScaleBuf(n)
    BY <1>0, <1>1, ScaleTurn
  <2>3. Wrote(m, g, B[Begun(n)], Begun(n)) /\ Apart(lo, Begun(n) + 1, B)
        /\ \A j \in lo .. Begun(n) : B[j] \in DOMAIN m
    BY <1>0, <1>00, <1>1, <2>1, <2>2
  <2>. HIDE DEF m, g, B, lo
  <2>4. Stored(g, lo, Begun(n) + 1, B)
    BY <1>0, <2>3, StoredPut
  <2>. QED  BY <1>0, <1>1, <2>4 DEF NextScaleData, lo, g, B
<1>2. CASE ~OpensGroup(n)
  <2>1. g = m
    BY <1>2, CellsKept
  <2>. QED  BY <1>0, <1>2, <2>1 DEF NextScaleData
<1>. QED  BY <1>1, <1>2

LEMMA ScalesDataStep ==
    ASSUME FlagInv, FlagInv', Next, ScalesData
    PROVE  ScalesData'
<1>0. /\ bufNum' = bufNum /\ PlaceInv /\ bufNum \in BufNums
      /\ ScaleData("SCALEA", ALoaded) /\ ScaleData("SCALEB", BLoaded)
      /\ Released \in Nat /\ ALoaded \in Nat /\ BLoaded \in Nat
      /\ \A kind \in {"SCALEA", "SCALEB"}, b \in {0, 1} : <<kind, b>> \in Locations
  BY StepCases, CountTypes, LocationNames DEF FlagInv, CreditInv, PlaceInv, ScalesData
<1>01. ScalesData' <=> NextScaleData("SCALEA", ALoaded') /\ NextScaleData("SCALEB", BLoaded')
  BY <1>0, TileDataNext
<1>02. /\ Apart(Group(Released'), Begun(ALoaded'), InTurn(2))
       /\ Apart(Group(Released'), Begun(BLoaded'), InTurn(2))
  BY <1>0, NextApart DEF FlagInv
<1>03. ASSUME NEW kind, NEW n \in Nat, ScaleData(kind, n), Group(Released') \in Nat,
              Group(Released) <= Group(Released'),
              \A b \in {0, 1} : mem'[<<kind, b>>] = mem[<<kind, b>>]
       PROVE  NextScaleData(kind, n)
  <2>1. NextCells(kind, {0, 1}) = Cells(kind, {0, 1})
    BY <1>03, CellsKept
  <2>2. Stored(Cells(kind, {0, 1}), Group(Released), Begun(n), InTurn(2))
        /\ Group(Released) \in Nat /\ Begun(n) \in Nat
    BY <1>0, <1>03, GroupNext, BegunNext DEF ScaleData
  <2>3. Stored(Cells(kind, {0, 1}), Group(Released'), Begun(n), InTurn(2))
    BY <1>03, <2>2, StoredFewer
  <2>. QED  BY <2>1, <2>3 DEF NextScaleData
<1>04. Group(Released) \in Nat /\ Group(Released) <= Group(Released)
  BY <1>0, GroupNext
<1>1. CASE LoadA
  <2>1. /\ \A b \in {0, 1} : mem'[<<"SCALEA", b>>] = IF OpensGroup(ALoaded) /\ b = ScaleBuf(ALoaded)
                                                     THEN Group(ALoaded) ELSE mem[<<"SCALEA", b>>]
        /\ \A b \in {0, 1} : mem'[<<"SCALEB", b>>] = mem[<<"SCALEB", b>>]
        /\ ALoaded' = ALoaded + 1 /\ UNCHANGED <<Released, BLoaded>>
    BY <1>0, <1>1, LoadAStores, LoadACounts DEF BLoaded, StoresOnly
  <2>2. NextScaleData("SCALEA", ALoaded + 1)
    BY <1>0, <1>02, <2>1, ScaleStored
  <2>3. NextScaleData("SCALEB", BLoaded)
    BY <1>0, <1>03, <1>04, <2>1
  <2>. QED  BY <1>01, <2>1, <2>2, <2>3
<1>2. CASE LoadScaleB
  <2>1. /\ \A b \in {0, 1} : mem'[<<"SCALEB", b>>] = IF OpensGroup(BLoaded) /\ b = ScaleBuf(BLoaded)
                                                     THEN Group(BLoaded) ELSE mem[<<"SCALEB", b>>]
        /\ \A b \in {0, 1} : mem'[<<"SCALEA", b>>] = mem[<<"SCALEA", b>>]
        /\ BLoaded' = BLoaded + 1 /\ UNCHANGED <<Released, ALoaded>>
    BY <1>0, <1>2, LoadScaleBStores, LoadScaleBCounts DEF BLoaded, StoresOnly
  <2>2. NextScaleData("SCALEB", BLoaded + 1)
    BY <1>0, <1>02, <2>1, ScaleStored
  <2>3. NextScaleData("SCALEA", ALoaded)
    BY <1>0, <1>03, <1>04, <2>1
  <2>. QED  BY <1>01, <2>1, <2>2, <2>3
<1>3. CASE CopyToL0
  <2>1. /\ \A kind \in {"SCALEA", "SCALEB"}, b \in {0, 1} : mem'[<<kind, b>>] = mem[<<kind, b>>]
        /\ UNCHANGED <<ALoaded, BLoaded>>
        /\ Released' = Released \/ Released' = Released + 1
    BY <1>0, <1>3, CopyToL0Stores, CopyToL0Counts DEF StoresOnly
  <2>2. Group(Released') \in Nat /\ Group(Released) <= Group(Released')
    BY <1>0, <1>04, <2>1, GroupNext
  <2>. QED  BY <1>0, <1>01, <1>03, <2>1, <2>2
<1>4. CASE ~LoadA /\ ~LoadScaleB /\ ~CopyToL0
  <2>1. /\ \A kind \in {"SCALEA", "SCALEB"}, b \in {0, 1} : mem'[<<kind, b>>] = mem[<<kind, b>>]
        /\ UNCHANGED <<Released, ALoaded, BLoaded>>
    BY <1>0, <1>4, TilesUntouched DEF StoresOnly
  <2>. QED  BY <1>0, <1>01, <1>03, <1>04, <2>1
<1>. QED  BY <1>1, <1>2, <1>3, <1>4
-----------------------------------------------------------------------------
(* The pieces in the unified buffers.                                      *)
PiecesOf(v) == [j \in Nat |-> <<Tile(v, j), Round(j)>>]
UbData(v) ==
    /\ Holds(CellsOf(v, "UBIN"), Piece(v, "V"), Piece(v, "MTE2"), InTurn(bufNum), PiecesOf(v))
    /\ Holds(CellsOf(v, "UBOUT"), Piece(v, "MTE3"), Piece(v, "V"), InTurn(bufNum), PiecesOf(v))

LEMMA UbDataNext ==
    ASSUME bufNum' = bufNum, NEW v \in SubBlocks
    PROVE  UbData(v)' <=>
             /\ Holds(NextCellsOf(v, "UBIN"), Piece(v, "V")', Piece(v, "MTE2")', InTurn(bufNum),
                      PiecesOf(v))
             /\ Holds(NextCellsOf(v, "UBOUT"), Piece(v, "MTE3")', Piece(v, "V")', InTurn(bufNum),
                      PiecesOf(v))
<1>1. CellsOf(v, "UBIN")' = NextCellsOf(v, "UBIN") /\ CellsOf(v, "UBOUT")' = NextCellsOf(v, "UBOUT")
  BY DEF CellsOf, NextCellsOf, Buffers
<1>2. PiecesOf(v)' = PiecesOf(v)
  BY DEF PiecesOf, Tile, Round, Rounds, Quad
<1>. QED  BY <1>1, <1>2 DEF UbData, Holds, InTurn

\* How far the pipes of a vector core are after a step of it.
OneMore(v, pipe) ==
    /\ Piece(v, "MTE2")' = Piece(v, "MTE2") + (IF pipe = "MTE2" THEN 1 ELSE 0)
    /\ Piece(v, "V")' = Piece(v, "V") + (IF pipe = "V" THEN 1 ELSE 0)
    /\ Piece(v, "MTE3")' = Piece(v, "MTE3") + (IF pipe = "MTE3" THEN 1 ELSE 0)
NoMore(v) ==
    Piece(v, "MTE2")' = Piece(v, "MTE2") /\ Piece(v, "V")' = Piece(v, "V")
    /\ Piece(v, "MTE3")' = Piece(v, "MTE3")

LEMMA PiecesMove ==
    ASSUME PlaceInv, bufNum' = bufNum, NEW v \in SubBlocks
    PROVE  /\ Piece(v, "MTE2") \in Nat /\ Piece(v, "V") \in Nat /\ Piece(v, "MTE3") \in Nat
           /\ CopyInWeight(v) => OneMore(v, "MTE2")
           /\ AntiQuantCompute(v) => OneMore(v, "V")
           /\ CopyOutWeight(v) => OneMore(v, "MTE3")
           /\ aiv' = aiv => NoMore(v)
<1>1. \A p \in VectorPipes : Piece(v, p) \in Nat /\ Piece(v, p)' = aiv'[v][p]
  BY DEF PlaceInv, VectorInv, Piece
<1>2. CopyInWeight(v) => Counted(v, "MTE2")
  BY CopyInWeightStep
<1>3. AntiQuantCompute(v) => Counted(v, "V")
  BY AntiQuantComputeStep
<1>4. CopyOutWeight(v) => Counted(v, "MTE3")
  BY CopyOutWeightStep
<1>5. "MTE2" \in VectorPipes /\ "V" \in VectorPipes /\ "MTE3" \in VectorPipes
  BY DEF VectorPipes
<1>6. \A pipe \in VectorPipes : Counted(v, pipe) => OneMore(v, pipe)
  BY <1>1, <1>5 DEF Counted, Piece, OneMore
<1>7. aiv' = aiv => NoMore(v)
  BY DEF Piece, NoMore
<1>. QED  BY <1>1, <1>2, <1>3, <1>4, <1>5, <1>6, <1>7

LEMMA DrainsKeepPieces ==
    ASSUME PlaceInv, bufNum' = bufNum, NEW v \in SubBlocks, VectorAct(v),
           ~CopyInWeight(v), ~AntiQuantCompute(v), ~CopyOutWeight(v)
    PROVE  aiv' = aiv
BY VectorDrainStep, DrainCreditsStep DEF VectorAct

\* The cube core stores nothing in the unified buffers nor where the vector cores do.
LEMMA CubeStores ==
    ASSUME PlaceInv, CubeAct
    PROVE  StoresOnly({"L1A", "SCALEA", "SCALEB", "L0", "C"})
<1>1. CASE LoadA
  BY <1>1, LoadAStores DEF StoresOnly
<1>2. CASE LoadScaleB
  BY <1>2, LoadScaleBStores DEF StoresOnly
<1>3. CASE CopyToL0
  BY <1>3, CopyToL0Stores DEF StoresOnly
<1>4. CASE Mmad
  BY <1>4, MmadStores DEF StoresOnly
<1>5. CASE mem' = mem
  BY <1>5 DEF StoresOnly
<1>. QED  BY <1>1, <1>2, <1>3, <1>4, <1>5, OthersStoreNothing DEF CubeAct

\* What a step of a vector core stores.
LEMMA VectorStores ==
    ASSUME PlaceInv, NEW v \in SubBlocks, VectorAct(v)
    PROVE  \/ CopyInWeight(v) /\ StoresOnlyOf(v, "UBIN")
           \/ AntiQuantCompute(v) /\ StoresOnlyOf(v, "UBOUT")
           \/ CopyOutWeight(v) /\ StoresOnly({"L1B", "BIAS"})
           \/ ~CopyInWeight(v) /\ ~AntiQuantCompute(v) /\ ~CopyOutWeight(v) /\ mem' = mem
BY CopyInWeightStores, AntiQuantComputeStores, CopyOutWeightStores, OthersStoreNothing DEF VectorAct

LEMMA NextUbApart ==
    ASSUME bufNum' = bufNum, VectorFlagInv', NEW v \in SubBlocks
    PROVE  /\ Apart(Piece(v, "V")', Piece(v, "MTE2")', InTurn(bufNum))
           /\ Apart(Piece(v, "MTE3")', Piece(v, "V")', InTurn(bufNum))
<1>1. UbInFlags(v)' /\ UbOutFlags(v)'
  BY DEF VectorFlagInv, SubBlocks
<1>. QED  BY <1>1, UbFlagsNext DEF NextUbRing, FreeRing

LEMMA UbDataStep ==
    ASSUME FlagInv, FlagInv', Next, NEW v \in SubBlocks, UbData(v)
    PROVE  UbData(v)'
<1>. DEFINE B == InTurn(bufNum)
            in == CellsOf(v, "UBIN")
            unpacked == CellsOf(v, "UBOUT")
            nextIn == NextCellsOf(v, "UBIN")
            nextUnpacked == NextCellsOf(v, "UBOUT")
            P == PiecesOf(v)
            j2 == Piece(v, "MTE2")
            jV == Piece(v, "V")
            j3 == Piece(v, "MTE3")
<1>0. /\ bufNum' = bufNum /\ PlaceInv /\ bufNum \in BufNums
      /\ Holds(in, jV, j2, B, P) /\ Holds(unpacked, j3, jV, B, P)
      /\ j2 \in Nat /\ jV \in Nat /\ j3 \in Nat
      /\ \A u \in Buffers : <<"UBIN", v, u>> \in Locations /\ <<"UBOUT", v, u>> \in Locations
      /\ DOMAIN in = Buffers /\ DOMAIN unpacked = Buffers
  <2>1. bufNum' = bufNum /\ PlaceInv /\ bufNum \in BufNums
    BY StepCases DEF FlagInv, CreditInv, PlaceInv
  <2>2. j2 \in Nat /\ jV \in Nat /\ j3 \in Nat
    BY <2>1 DEF PlaceInv, VectorInv, VectorPipes, Piece
  <2>3. \A u \in Buffers : <<"UBIN", v, u>> \in Locations /\ <<"UBOUT", v, u>> \in Locations
    BY <2>1, LocationNames
  <2>. QED  BY <2>1, <2>2, <2>3 DEF UbData, CellsOf
<1>00. \A j \in Nat : B[j] = UbBuf(j) /\ B[j] \in Buffers
  <2>1. bufNum \in Positive
    BY <1>0, BufNumIs DEF Positive
  <2>. QED  BY <2>1, TurnIs DEF Buffers, UbBuf
<1>01. UbData(v)' <=> /\ Holds(nextIn, Piece(v, "V")', Piece(v, "MTE2")', B, P)
                      /\ Holds(nextUnpacked, Piece(v, "MTE3")', Piece(v, "V")', B, P)
  BY <1>0, UbDataNext
<1>02. Apart(Piece(v, "V")', Piece(v, "MTE2")', B) /\ Apart(Piece(v, "MTE3")', Piece(v, "V")', B)
  BY <1>0, NextUbApart DEF FlagInv
<1>03. /\ (\A u \in Buffers : mem'[<<"UBIN", v, u>>] = mem[<<"UBIN", v, u>>]) => nextIn = in
       /\ (\A u \in Buffers : mem'[<<"UBOUT", v, u>>] = mem[<<"UBOUT", v, u>>])
            => nextUnpacked = unpacked
  BY DEF CellsOf, NextCellsOf
<1>1. CASE CubeAct
  <2>1. /\ \A p \in VectorPipes : Piece(v, p)' = Piece(v, p)
        /\ \A u \in Buffers : /\ mem'[<<"UBIN", v, u>>] = mem[<<"UBIN", v, u>>]
                              /\ mem'[<<"UBOUT", v, u>>] = mem[<<"UBOUT", v, u>>]
    BY <1>0, <1>1, VectorUntouched, CubeStores DEF Piece, StoresOnly
  <2>. QED  BY <1>0, <1>01, <1>03, <2>1 DEF VectorPipes
<1>2. ASSUME NEW w \in SubBlocks, VectorAct(w), w # v
      PROVE  UbData(v)'
  <2>1. \A p \in VectorPipes : Piece(v, p)' = Piece(v, p)
    BY <1>0, <1>2, OtherUntouched
  <2>2. \A u \in Buffers : /\ mem'[<<"UBIN", v, u>>] = mem[<<"UBIN", v, u>>]
                           /\ mem'[<<"UBOUT", v, u>>] = mem[<<"UBOUT", v, u>>]
    BY <1>0, <1>2, VectorStores DEF StoresOnly, StoresOnlyOf
  <2>. QED  BY <1>0, <1>01, <1>03, <2>1, <2>2 DEF VectorPipes
<1>3. CASE CopyInWeight(v)
  <2>1. /\ Piece(v, "MTE2")' = j2 + 1 /\ Piece(v, "V")' = jV /\ Piece(v, "MTE3")' = j3
    BY <1>0, <1>3, PiecesMove DEF OneMore
  <2>2. /\ StoresOnlyOf(v, "UBIN")
        /\ \A u \in Buffers : mem'[<<"UBIN", v, u>>] = IF u = UbBuf(j2) THEN <<Tile(v, j2), Round(j2)>>
                                                       ELSE mem[<<"UBIN", v, u>>]
    BY <1>0, <1>3, CopyInWeightStores
  <2>3. P[j2] = <<Tile(v, j2), Round(j2)>>
    BY <1>0 DEF PiecesOf
  <2>4. nextUnpacked = unpacked
    BY <1>0, <1>03, <2>2 DEF StoresOnlyOf
  <2>. HIDE DEF P, j2, jV, j3
  <2>5. Wrote(in, nextIn, B[j2], P[j2])
    <3>1. DOMAIN nextIn = Buffers
      BY DEF NextCellsOf
    <3>. QED  BY <1>0, <1>00, <2>2, <2>3, <3>1 DEF Wrote, CellsOf, NextCellsOf
  <2>. HIDE DEF in, nextIn, B
  <2>6. Holds(nextIn, jV, j2 + 1, B, P)
    <3>1. \A j \in jV .. j2 : B[j] \in DOMAIN in
      BY <1>0, <1>00
    <3>2. Apart(jV, j2 + 1, B)
      BY <1>02, <2>1
    <3>. QED  BY <1>0, <2>5, <3>1, <3>2, HoldsPut
  <2>. QED  BY <1>0, <1>01, <2>1, <2>4, <2>6
<1>4. CASE AntiQuantCompute(v)
  <2>1. /\ Piece(v, "MTE2")' = j2 /\ Piece(v, "V")' = jV + 1 /\ Piece(v, "MTE3")' = j3
    BY <1>0, <1>4, PiecesMove DEF OneMore
  <2>2. /\ StoresOnlyOf(v, "UBOUT")
        /\ \A u \in Buffers : mem'[<<"UBOUT", v, u>>] = IF u = UbBuf(jV) THEN mem[<<"UBIN", v, UbBuf(jV)>>]
                                                        ELSE mem[<<"UBOUT", v, u>>]
    BY <1>0, <1>4, AntiQuantComputeStores
  <2>3. nextIn = in
    BY <1>0, <1>03, <2>2 DEF StoresOnlyOf
  <2>. HIDE DEF P, j2, jV, j3
  <2>4. jV < j2
    BY <1>0, <1>02, <2>1 DEF Apart
  <2>5. P[jV] = mem[<<"UBIN", v, UbBuf(jV)>>]
    <3>1. in[B[jV]] = P[jV]
      BY <1>0, <2>4 DEF Holds
    <3>2. B[jV] = UbBuf(jV) /\ UbBuf(jV) \in Buffers
      BY <1>0, <1>00
    <3>. HIDE DEF B, P
    <3>. QED  BY <3>1, <3>2 DEF CellsOf
  <2>6. Wrote(unpacked, nextUnpacked, B[jV], P[jV])
    <3>1. DOMAIN nextUnpacked = Buffers
      BY DEF NextCellsOf
    <3>. QED  BY <1>0, <1>00, <2>2, <2>5, <3>1 DEF Wrote, CellsOf, NextCellsOf
  <2>. HIDE DEF in, nextIn, unpacked, nextUnpacked, B
  <2>7. Holds(nextUnpacked, j3, jV + 1, B, P)
    <3>1. \A j \in j3 .. jV : B[j] \in DOMAIN unpacked
      BY <1>0, <1>00
    <3>2. Apart(j3, jV + 1, B)
      BY <1>02, <2>1
    <3>. QED  BY <1>0, <2>6, <3>1, <3>2, HoldsPut
  <2>8. Holds(in, jV + 1, j2, B, P)
    BY <1>0, HoldsFewer
  <2>. QED  BY <1>0, <1>01, <2>1, <2>3, <2>7, <2>8
<1>5. CASE CopyOutWeight(v)
  <2>1. /\ Piece(v, "MTE2")' = j2 /\ Piece(v, "V")' = jV /\ Piece(v, "MTE3")' = j3 + 1
    BY <1>0, <1>5, PiecesMove DEF OneMore
  <2>2. nextIn = in /\ nextUnpacked = unpacked
    BY <1>0, <1>03, <1>5, CopyOutWeightStores DEF StoresOnly
  <2>. HIDE DEF P, j2, jV, j3, in, nextIn, unpacked, nextUnpacked, B
  <2>3. Holds(unpacked, j3 + 1, jV, B, P)
    BY <1>0, HoldsFewer
  <2>. QED  BY <1>0, <1>01, <2>1, <2>2, <2>3
<1>6. CASE VectorAct(v) /\ ~CopyInWeight(v) /\ ~AntiQuantCompute(v) /\ ~CopyOutWeight(v)
  <2>1. mem' = mem /\ aiv' = aiv
    BY <1>0, <1>6, VectorStores, DrainsKeepPieces
  <2>. QED  BY <1>0, <1>01, <1>03, <2>1, PiecesMove DEF NoMore
<1>. QED  BY <1>1, <1>2, <1>3, <1>4, <1>5, <1>6, StepCases DEF CubeAct, VectorAct
-----------------------------------------------------------------------------
(* The weights and the bias in L1.                                         *)
\* The pieces a vector core has moved are of tiles the cube core has released or of the bufNum next.
Window == \A v \in SubBlocks : \A j \in 0 .. Piece(v, "MTE3") - 1 : Tile(v, j) < Released + bufNum

HoldsPiece(m, v, j) ==
    /\ \A p \in PartsOf(v, j) : m[<<"L1B", L1Buf(Tile(v, j)), p>>] = <<Tile(v, j), Round(j)>>
    /\ \A p \in BiasPartsOf(v, j) : m[<<"BIAS", L1Buf(Tile(v, j)), p>>] = BlockOf(Tile(v, j))
WeightData ==
    \A v \in SubBlocks : \A j \in 0 .. Piece(v, "MTE3") - 1 :
        Released <= Tile(v, j) => HoldsPiece(mem, v, j)

\* Piece j of AIV v is what part p of an L1 buffer holds.
Left(held, b, p, v, j) == L1Buf(Tile(v, j)) = b /\ p \in PartsOf(v, j) /\ held = <<Tile(v, j), Round(j)>>
AllParts == SubBlocks \cup 0 .. UbRounds - 1
WeightKnown ==
    \A b \in 0 .. MaxBufNum - 1, p \in AllParts :
        \/ mem[<<"L1B", b, p>>] = Empty
        \/ \E v \in SubBlocks : \E j \in 0 .. Piece(v, "MTE3") - 1 : Left(mem[<<"L1B", b, p>>], b, p, v, j)

LEMMA WeightDataNext ==
    ASSUME bufNum' = bufNum
    PROVE  /\ Window' <=> \A v \in SubBlocks : \A j \in 0 .. Piece(v, "MTE3")' - 1 :
                            Tile(v, j) < Released' + bufNum
           /\ WeightData' <=> \A v \in SubBlocks : \A j \in 0 .. Piece(v, "MTE3")' - 1 :
                                Released' <= Tile(v, j) => HoldsPiece(mem', v, j)
           /\ WeightKnown' <=>
                \A b \in 0 .. MaxBufNum - 1, p \in AllParts :
                   \/ mem'[<<"L1B", b, p>>] = Empty
                   \/ \E v \in SubBlocks : \E j \in 0 .. Piece(v, "MTE3")' - 1 :
                        Left(mem'[<<"L1B", b, p>>], b, p, v, j)
<1>1. \A v, j : Tile(v, j)' = Tile(v, j)
  BY DEF Tile, Rounds, Quad
<1>2. Window' <=> \A v \in SubBlocks : \A j \in 0 .. Piece(v, "MTE3")' - 1 :
                            Tile(v, j) < Released' + bufNum
  BY DEF Window, Tile, Rounds, Quad
<1>3. \A v, j : HoldsPiece(mem, v, j)' <=> HoldsPiece(mem', v, j)
  BY DEF HoldsPiece, Tile, Round, Rounds, Quad, L1Buf, PartsOf, BiasPartsOf, KOf, BlockOf
<1>4. WeightData' <=> \A v \in SubBlocks : \A j \in 0 .. Piece(v, "MTE3")' - 1 :
                                Released' <= Tile(v, j) => HoldsPiece(mem', v, j)
  BY <1>1, <1>3 DEF WeightData
<1>5. \A b, p, v, j : Left(mem[<<"L1B", b, p>>], b, p, v, j)' <=> Left(mem'[<<"L1B", b, p>>], b, p, v, j)
  BY DEF Left, Tile, Round, Rounds, Quad, L1Buf, PartsOf, KOf
<1>6. WeightKnown' <=>
                \A b \in 0 .. MaxBufNum - 1, p \in AllParts :
                   \/ mem'[<<"L1B", b, p>>] = Empty
                   \/ \E v \in SubBlocks : \E j \in 0 .. Piece(v, "MTE3")' - 1 :
                        Left(mem'[<<"L1B", b, p>>], b, p, v, j)
  BY <1>5 DEF WeightKnown, AllParts, MaxBufNum
<1>. QED  BY <1>2, <1>4, <1>6

\* The pieces of a vector core, and the tiles it takes.
LEMMA TileServed ==
    ASSUME bufNum \in BufNums, NEW v \in SubBlocks, NEW j \in 0 .. NumPieces[v] - 1
    PROVE  /\ j \in Nat /\ Tile(v, j) \in Nat /\ Round(j) \in 0 .. Rounds - 1 /\ j \div Rounds \in Nat
           /\ v \in Partners(L1Buf(Tile(v, j)))
           /\ Served(v, Tile(v, j)) = j \div Rounds
<1>1. j \in Nat /\ Rounds \in Positive /\ NumPieces[v] \in Nat
  BY PieceCounts
<1>2. j \div Rounds \in Nat /\ Round(j) \in 0 .. Rounds - 1
  BY <1>1, DivMod DEF Round
<1>3. CASE bufNum = 4
  BY <1>1, <1>2, <1>3 DEF Tile, Served, Quad, Partners
<1>4. CASE bufNum = 2
  <2>. DEFINE k == j \div Rounds
  <2>1. Tile(v, j) = 2 * k + v /\ L1Buf(Tile(v, j)) = (2 * k + v) % 2
        /\ Served(v, Tile(v, j)) = (2 * k + v + 1 - v) \div 2
    BY <1>4 DEF Tile, L1Buf, Served, Quad
  <2>2. v = 0 \/ v = 1
    BY DEF SubBlocks
  <2>3. k \in Nat
    BY <1>2
  <2>. HIDE DEF k
  <2>4. (2 * k + v) % 2 = v /\ (2 * k + v + 1 - v) \div 2 = k /\ 2 * k + v \in Nat
    BY <2>2, <2>3
  <2>5. Partners(L1Buf(Tile(v, j))) = {v}
    BY <1>4, <2>1, <2>4 DEF Partners, Quad
  <2>. QED  BY <1>1, <1>2, <2>1, <2>4, <2>5 DEF k
<1>5. CASE bufNum = 1
  <2>1. NumPieces[v] = Rounds * Served(v, NumTiles)
    BY PiecesServed
  <2>2. v = 0
    <3>1. Served(v, NumTiles) = 0 => NumPieces[v] = 0
      BY <1>1, <2>1 DEF Positive
    <3>2. v # 0 => Served(v, NumTiles) = 0
      BY <1>5 DEF Served, Quad
    <3>. QED  BY <1>1, <3>1, <3>2
  <2>. QED  BY <1>1, <1>2, <1>5, <2>2 DEF Tile, Served, Quad, Partners
<1>. QED  BY <1>3, <1>4, <1>5, BufNumIs

\* A vector core that is ahead of the cube core by no more than its credits is ahead by less than
\* the number of buffers.
LEMMA AheadByCredits ==
    ASSUME bufNum \in BufNums, NEW v \in SubBlocks, NEW r \in Nat, NEW t \in Nat,
           v \in Partners(L1Buf(t)), Served(v, t) + 1 <= Served(v, r) + Credits[v]
    PROVE  t < r + bufNum
<1>1. CASE bufNum = 4
  BY <1>1, CreditsAre DEF Served, Quad
<1>2. CASE bufNum = 2
  <2>1. Served(v, t) = (t + 1 - v) \div 2 /\ Served(v, r) = (r + 1 - v) \div 2 /\ Credits[v] = 1
    BY <1>2, CreditsAre DEF Served, Quad
  <2>2. t % 2 = v
    BY <1>2 DEF Partners, Quad, L1Buf
  <2>3. v = 0 \/ v = 1
    BY DEF SubBlocks
  <2>. QED  BY <1>2, <2>1, <2>2, <2>3
<1>3. CASE bufNum = 1
  <2>1. v = 0
    BY <1>3 DEF Partners, Quad
  <2>. QED  BY <1>3, <2>1, CreditsAre DEF Served, Quad
<1>. QED  BY <1>1, <1>2, <1>3, BufNumIs

\* The tile a vector core fills is one the cube core has not taken, and within the window.
LEMMA FillsInWindow ==
    ASSUME FlagInv, bufNum' = bufNum, NEW v \in SubBlocks, CopyOutWeight(v)
    PROVE  LET t == Tile(v, Piece(v, "MTE3")) IN
           /\ Piece(v, "MTE3") \in 0 .. NumPieces[v] - 1
           /\ t \in Nat /\ Taken <= t /\ Released <= t /\ t < Released + bufNum
<1>. DEFINE j == Piece(v, "MTE3")
            t == Tile(v, j)
            k == j \div Rounds
<1>1. /\ PlaceInv /\ bufNum \in BufNums /\ flag \in [Flags -> Nat]
      /\ flag[VecReady(v)] = k - Served(v, Taken)
      /\ flag[CubeFree(v)] + flag[VecReady(v)] + Filling(v) + Reading(v) + TakenBack(v) = Credits[v]
      /\ flag[CubeFree(v)] \in Nat /\ flag[VecReady(v)] \in Nat
  BY CreditFlags DEF FlagInv, CreditInv, CreditsConserved, PlaceInv, ReadyFlags
<1>2. /\ j \in 0 .. NumPieces[v] - 1
      /\ Counts({<<"V_MTE3", v, UbBuf(j)>>} \cup When(Round(j) = 0, {CubeFree(v)}),
                {<<"MTE3_V", v, UbBuf(j)>>} \cup When(Round(j) = Rounds - 1, {VecReady(v)}))
  BY <1>1, CopyOutWeightStep
<1>3. t \in Nat /\ v \in Partners(L1Buf(t)) /\ Served(v, t) = k /\ k \in Nat
  BY <1>1, <1>2, TileServed
<1>4. /\ Taken \in Nat /\ Released \in Nat /\ Released <= Taken
      /\ Reading(v) = Served(v, Taken) - Served(v, Released)
      /\ Served(v, Taken) \in Nat /\ Served(v, Released) \in Nat
  <2>1. Taken \in Nat /\ Released \in Nat /\ Released <= Taken
    BY <1>1, CountTypes
  <2>2. /\ Served(v, Released) \in Nat /\ Served(v, Taken) \in Nat
        /\ Served(v, Released + 1) = Served(v, Released) + (IF v \in Partners(L1Buf(Released)) THEN 1 ELSE 0)
    BY <1>1, <2>1, ServedNext
  <2>3. Reading(v) = IF AtStep("MTE1") > 0 /\ v \in Partners(L1Buf(Released)) THEN 1 ELSE 0
    BY <1>1, ReadingIs DEF Released
  <2>4. Taken = Released + (IF AtStep("MTE1") > 0 THEN 1 ELSE 0)
    BY DEF Taken, Released
  <2>. HIDE DEF Taken, Released
  <2>5. CASE AtStep("MTE1") > 0
    BY <2>1, <2>2, <2>3, <2>4, <2>5
  <2>6. CASE ~(AtStep("MTE1") > 0)
    BY <2>1, <2>2, <2>3, <2>4, <2>6
  <2>. QED  BY <2>1, <2>2, <2>5, <2>6
<1>5. flag[CubeFree(v)] + Filling(v) >= 1 /\ Filling(v) \in Nat
  <2>1. CASE Round(j) = 0
    <3>1. flag[CubeFree(v)] > 0
      BY <1>2, <2>1 DEF Counts, When
    <3>. QED  BY <1>1, <2>1, <3>1 DEF Filling
  <2>2. CASE Round(j) # 0
    BY <1>1, <2>2 DEF Filling
  <2>. QED  BY <2>1, <2>2
<1>6. TakenBack(v) \in Nat
  BY DEF TakenBack, FinalWaits
<1>. HIDE DEF j, t, k
<1>7. k + 1 <= Served(v, Released) + Credits[v] /\ Served(v, Taken) <= k
  BY <1>1, <1>3, <1>4, <1>5, <1>6
<1>8. t < Released + bufNum
  BY <1>1, <1>3, <1>4, <1>7, AheadByCredits
<1>9. Taken <= t
  <2>1. SUFFICES ASSUME t + 1 <= Taken PROVE FALSE
    BY <1>3, <1>4
  <2>2. Served(v, t + 1) = k + 1
    BY <1>1, <1>3, ServedNext
  <2>3. Served(v, t + 1) <= Served(v, Taken)
    BY <1>1, <1>3, <1>4, <2>1, ServedMonotone
  <2>. QED  BY <1>3, <1>4, <1>7, <2>2, <2>3
<1>. QED  BY <1>2, <1>3, <1>4, <1>8, <1>9 DEF j, t

\* Two tiles of the window in one buffer are the same.
LEMMA WindowApart ==
    ASSUME bufNum \in BufNums, NEW r \in Nat, NEW t \in Nat, NEW u \in Nat, L1Buf(t) = L1Buf(u),
           r <= t, t < r + bufNum, r <= u, u < r + bufNum
    PROVE  t = u
<1>1. bufNum \in Positive /\ bufNum \in Nat
  BY BufNumIs DEF Positive
<1>2. Apart(r, r + bufNum, InTurn(bufNum))
  BY <1>1, TurnsApart
<1>3. InTurn(bufNum)[t] = L1Buf(t) /\ InTurn(bufNum)[u] = L1Buf(u)
  BY <1>1, TurnIs DEF L1Buf
<1>. QED  BY <1>1, <1>2, <1>3 DEF Apart

\* The parts a piece is put in, and that two pieces of one tile in one part are the same.
LEMMA PartsAre ==
    ASSUME bufNum \in BufNums, NEW v \in SubBlocks, NEW j \in Nat
    PROVE  /\ PartsOf(v, j) \subseteq AllParts
           /\ BiasPartsOf(v, j) \subseteq {0, 1}
           /\ \A w \in SubBlocks, i \in Nat : \A p \in PartsOf(v, j) : p \in PartsOf(w, i) => Round(i) = Round(j)
<1>1. BiasPartsOf(v, j) \subseteq {0, 1}
  BY DEF BiasPartsOf, SubBlocks
<1>2. CASE Quad
  <2>1. \A i \in Nat : Round(i) = 0
    BY <1>2 DEF Round, Rounds
  <2>2. PartsOf(v, j) \subseteq SubBlocks
    BY <1>2 DEF PartsOf
  <2>. QED  BY <1>1, <2>1, <2>2 DEF AllParts
<1>3. CASE ~Quad
  <2>1. \A w, i : PartsOf(w, i) = {Round(i)}
    BY <1>3 DEF PartsOf
  <2>2. Round(j) \in 0 .. UbRounds - 1
    BY <1>3, Shapes, DivMod DEF Round, Rounds
  <2>. QED  BY <1>1, <2>1, <2>2 DEF AllParts
<1>. QED  BY <1>2, <1>3
LEMMA L1BNames ==
    ASSUME bufNum \in BufNums
    PROVE  /\ \A t \in Nat : L1Buf(t) \in 0 .. MaxBufNum - 1
           /\ \A b \in 0 .. MaxBufNum - 1, p \in AllParts : <<"L1B", b, p>> \in Locations
           /\ \A b \in 0 .. MaxBufNum - 1, p \in {0, 1} : <<"BIAS", b, p>> \in Locations
<1>1. bufNum \in Positive
  BY BufNumIs DEF Positive
<1>2. \A t \in Nat : L1Buf(t) \in Buffers
  BY <1>1, DivMod DEF L1Buf, Buffers
<1>. QED  BY <1>2, LocationNames DEF AllParts

\* Every step but CopyOutWeight leaves the weights and the bias in L1 alone.
LEMMA WeightsUntouched ==
    ASSUME FlagInv, Next, \A v \in SubBlocks : ~CopyOutWeight(v)
    PROVE  /\ \A v \in SubBlocks : Piece(v, "MTE3")' = Piece(v, "MTE3")
           /\ Released \in Nat /\ Released' \in Nat /\ Released <= Released'
           /\ StoresOnly({"L1A", "SCALEA", "SCALEB", "L0", "C", "UBIN", "UBOUT"})
<1>0. bufNum' = bufNum /\ PlaceInv /\ Released \in Nat
  BY StepCases, CountTypes DEF FlagInv, CreditInv
<1>1. CASE CubeAct
  <2>1. \A v \in SubBlocks : Piece(v, "MTE3")' = Piece(v, "MTE3")
    BY <1>0, <1>1, VectorUntouched DEF Piece
  <2>2. StoresOnly({"L1A", "SCALEA", "SCALEB", "L0", "C", "UBIN", "UBOUT"})
    BY <1>0, <1>1, CubeStores DEF StoresOnly
  <2>3. Released' \in Nat /\ Released <= Released'
    <3>1. CASE CopyToL0
      BY <1>0, <3>1, CopyToL0Counts
    <3>2. CASE ~CopyToL0
      BY <1>0, <1>1, <3>2, LoadACounts, LoadScaleBCounts, MmadCounts, GetTensorCCounts, CubeDrainCounts
         DEF CubeAct
    <3>. QED  BY <3>1, <3>2
  <2>. QED  BY <1>0, <2>1, <2>2, <2>3
<1>2. ASSUME NEW w \in SubBlocks, VectorAct(w)
      PROVE  /\ \A v \in SubBlocks : Piece(v, "MTE3")' = Piece(v, "MTE3")
             /\ Released \in Nat /\ Released' \in Nat /\ Released <= Released'
             /\ StoresOnly({"L1A", "SCALEA", "SCALEB", "L0", "C", "UBIN", "UBOUT"})
  <2>1. Released' = Released
    BY <1>0, <1>2, CubeUntouched
  <2>2. StoresOnly({"L1A", "SCALEA", "SCALEB", "L0", "C", "UBIN", "UBOUT"})
    BY <1>0, <1>2, VectorStores DEF StoresOnly, StoresOnlyOf
  <2>3. ASSUME NEW v \in SubBlocks, v # w
        PROVE  Piece(v, "MTE3")' = Piece(v, "MTE3")
    BY <1>0, <1>2, <2>3, OtherUntouched DEF VectorPipes
  <2>4. Piece(w, "MTE3")' = Piece(w, "MTE3")
    <3>1. ~CopyOutWeight(w)
      OBVIOUS
    <3>2. CASE CopyInWeight(w)
      BY <1>0, <3>2, PiecesMove DEF OneMore
    <3>3. CASE AntiQuantCompute(w)
      BY <1>0, <3>3, PiecesMove DEF OneMore
    <3>4. CASE ~CopyInWeight(w) /\ ~AntiQuantCompute(w)
      BY <1>0, <1>2, <3>1, <3>4, DrainsKeepPieces, PiecesMove DEF NoMore
    <3>. QED  BY <3>2, <3>3, <3>4
  <2>. QED  BY <1>0, <2>1, <2>2, <2>3, <2>4
<1>. QED  BY <1>1, <1>2, StepCases DEF CubeAct, VectorAct

\* The piece CopyOutWeight takes from the unified buffer is its own.
LEMMA PieceTaken ==
    ASSUME FlagInv, FlagInv', bufNum' = bufNum, NEW v \in SubBlocks, UbData(v), CopyOutWeight(v)
    PROVE  LET j == Piece(v, "MTE3") IN mem[<<"UBOUT", v, UbBuf(j)>>] = <<Tile(v, j), Round(j)>>
<1>. DEFINE j == Piece(v, "MTE3")
            jV == Piece(v, "V")
            B == InTurn(bufNum)
            m == CellsOf(v, "UBOUT")
<1>0. /\ PlaceInv /\ bufNum \in BufNums /\ j \in Nat /\ jV \in Nat
      /\ Holds(m, j, jV, B, PiecesOf(v))
  BY PiecesMove DEF FlagInv, CreditInv, PlaceInv, UbData
<1>1. j < jV
  <2>1. Apart(Piece(v, "MTE3")', Piece(v, "V")', B)
    BY NextUbApart DEF FlagInv
  <2>2. Piece(v, "MTE3")' = j + 1 /\ Piece(v, "V")' = jV
    BY <1>0, PiecesMove DEF OneMore
  <2>. HIDE DEF j, jV, B
  <2>. QED  BY <1>0, <2>1, <2>2 DEF Apart
<1>2. bufNum \in Positive
  BY <1>0, BufNumIs DEF Positive
<1>3. B[j] = UbBuf(j) /\ UbBuf(j) \in Buffers /\ PiecesOf(v)[j] = <<Tile(v, j), Round(j)>>
  BY <1>0, <1>2, TurnIs DEF Buffers, UbBuf, PiecesOf
<1>4. m[B[j]] = PiecesOf(v)[j]
  <2>. HIDE DEF m, B, j, jV
  <2>. QED  BY <1>0, <1>1 DEF Holds
<1>. HIDE DEF B, j, jV
<1>5. m[UbBuf(j)] = <<Tile(v, j), Round(j)>>
  BY <1>3, <1>4
<1>. QED  BY <1>3, <1>5 DEF CellsOf, j

\* The pieces moved so far.
LEMMA MovedPieces ==
    ASSUME PlaceInv, NEW v \in SubBlocks, NEW j \in 0 .. Piece(v, "MTE3") - 1
    PROVE  j \in 0 .. NumPieces[v] - 1 /\ j \in Nat /\ Tile(v, j) \in Nat
<1>1. /\ Piece(v, "MTE3") \in Nat /\ Piece(v, "MTE3") <= NumPieces[v] /\ NumPieces[v] \in Nat
      /\ bufNum \in BufNums
  BY PieceCounts DEF PlaceInv, VectorInv, VectorPipes, Piece
<1>2. j \in 0 .. NumPieces[v] - 1
  BY <1>1
<1>. QED  BY <1>1, <1>2, TileServed

LEMMA CopyOutMoves ==
    ASSUME FlagInv, bufNum' = bufNum, NEW w \in SubBlocks, CopyOutWeight(w)
    PROVE  /\ \A v \in SubBlocks : Piece(v, "MTE3")' = Piece(v, "MTE3") + (IF v = w THEN 1 ELSE 0)
           /\ \A v \in SubBlocks : Piece(v, "MTE3") \in Nat
           /\ Released' = Released /\ Released \in Nat
<1>1. PlaceInv /\ Released \in Nat
  BY CountTypes DEF FlagInv, CreditInv
<1>2. \A v \in SubBlocks : Piece(v, "MTE3") \in Nat
  BY <1>1, PiecesMove
<1>3. Released' = Released
  BY <1>1, CubeUntouched DEF VectorAct
<1>4. Piece(w, "MTE3")' = Piece(w, "MTE3") + 1
  BY <1>1, PiecesMove DEF OneMore
<1>5. \A v \in SubBlocks : v # w => Piece(v, "MTE3")' = Piece(v, "MTE3")
  BY <1>1, OtherUntouched DEF VectorAct, VectorPipes
<1>. QED  BY <1>1, <1>2, <1>3, <1>4, <1>5

LEMMA WindowStep ==
    ASSUME FlagInv, Next, Window
    PROVE  Window'
<1>0. bufNum' = bufNum /\ PlaceInv /\ bufNum \in BufNums /\ bufNum \in Nat /\ Released \in Nat
  BY StepCases, CountTypes, BufNumIs DEF FlagInv, CreditInv, PlaceInv
<1>1. SUFFICES ASSUME NEW v \in SubBlocks, NEW j \in 0 .. Piece(v, "MTE3")' - 1
               PROVE  Tile(v, j) < Released' + bufNum
  BY <1>0, WeightDataNext
<1>2. j \in 0 .. Piece(v, "MTE3") - 1 => Tile(v, j) \in Nat /\ Tile(v, j) < Released + bufNum
  BY <1>0, MovedPieces DEF Window
<1>3. CASE \A w \in SubBlocks : ~CopyOutWeight(w)
  BY <1>0, <1>2, <1>3, WeightsUntouched
<1>4. ASSUME NEW w \in SubBlocks, CopyOutWeight(w)
      PROVE  Tile(v, j) < Released' + bufNum
  <2>1. /\ Piece(v, "MTE3")' = Piece(v, "MTE3") + (IF v = w THEN 1 ELSE 0)
        /\ Piece(v, "MTE3") \in Nat /\ Released' = Released
    BY <1>0, <1>4, CopyOutMoves
  <2>2. Tile(w, Piece(w, "MTE3")) < Released + bufNum
    BY <1>0, <1>4, FillsInWindow
  <2>3. j \in 0 .. Piece(v, "MTE3") - 1 \/ (v = w /\ j = Piece(w, "MTE3"))
    BY <2>1
  <2>. QED  BY <1>2, <2>1, <2>2, <2>3
<1>. QED  BY <1>3, <1>4

LEMMA WeightKnownStep ==
    ASSUME FlagInv, FlagInv', Next, WeightKnown, \A v \in SubBlocks : UbData(v)
    PROVE  WeightKnown'
<1>0. bufNum' = bufNum /\ PlaceInv /\ bufNum \in BufNums
  BY StepCases DEF FlagInv, CreditInv, PlaceInv
<1>1. SUFFICES ASSUME NEW b \in 0 .. MaxBufNum - 1, NEW p \in AllParts
               PROVE  \/ mem'[<<"L1B", b, p>>] = Empty
                      \/ \E v \in SubBlocks : \E j \in 0 .. Piece(v, "MTE3")' - 1 :
                           Left(mem'[<<"L1B", b, p>>], b, p, v, j)
  BY <1>0, WeightDataNext
<1>. DEFINE cell == <<"L1B", b, p>>
<1>2. cell \in Locations
  BY <1>0, L1BNames
<1>3. \A v \in SubBlocks : Piece(v, "MTE3") \in Nat
  BY <1>0, PiecesMove
<1>4. ASSUME mem'[cell] = mem[cell],
             \A v \in SubBlocks : Piece(v, "MTE3")' = Piece(v, "MTE3") \/ Piece(v, "MTE3")' = Piece(v, "MTE3") + 1
      PROVE  \/ mem'[cell] = Empty
             \/ \E v \in SubBlocks : \E j \in 0 .. Piece(v, "MTE3")' - 1 : Left(mem'[cell], b, p, v, j)
  <2>1. CASE mem[cell] = Empty
    BY <1>4, <2>1
  <2>2. ASSUME NEW v \in SubBlocks, NEW j \in 0 .. Piece(v, "MTE3") - 1, Left(mem[cell], b, p, v, j)
        PROVE  \E w \in SubBlocks : \E i \in 0 .. Piece(w, "MTE3")' - 1 : Left(mem'[cell], b, p, w, i)
    <3>1. j \in 0 .. Piece(v, "MTE3")' - 1
      BY <1>3, <1>4
    <3>2. Left(mem'[cell], b, p, v, j)
      BY <1>4, <2>2
    <3>. QED  BY <3>1, <3>2
  <2>. QED  BY <2>1, <2>2 DEF WeightKnown
<1>5. CASE \A w \in SubBlocks : ~CopyOutWeight(w)
  BY <1>2, <1>4, <1>5, WeightsUntouched DEF StoresOnly
<1>6. ASSUME NEW w \in SubBlocks, CopyOutWeight(w)
      PROVE  \/ mem'[cell] = Empty
             \/ \E v \in SubBlocks : \E j \in 0 .. Piece(v, "MTE3")' - 1 : Left(mem'[cell], b, p, v, j)
  <2>. DEFINE j == Piece(w, "MTE3")
              written == b = L1Buf(Tile(w, j)) /\ p \in PartsOf(w, j)
  <2>1. \A v \in SubBlocks : Piece(v, "MTE3")' = Piece(v, "MTE3") + (IF v = w THEN 1 ELSE 0)
    BY <1>0, <1>6, CopyOutMoves
  <2>2. mem'[cell] = IF written THEN mem[<<"UBOUT", w, UbBuf(j)>>] ELSE mem[cell]
    BY <1>0, <1>2, <1>6, CopyOutWeightStores
  <2>3. mem[<<"UBOUT", w, UbBuf(j)>>] = <<Tile(w, j), Round(j)>>
    BY <1>0, <1>6, PieceTaken
  <2>. HIDE DEF cell
  <2>4. CASE written
    <3>1. Left(mem'[cell], b, p, w, j)
      BY <2>2, <2>3, <2>4 DEF Left
    <3>2. j \in 0 .. Piece(w, "MTE3")' - 1
      BY <1>3, <2>1
    <3>. QED  BY <3>1, <3>2
  <2>5. CASE ~written
    <3>1. mem'[cell] = mem[cell]
      BY <2>2, <2>5
    <3>2. \A v \in SubBlocks : Piece(v, "MTE3")' = Piece(v, "MTE3") \/ Piece(v, "MTE3")' = Piece(v, "MTE3") + 1
      BY <1>3, <2>1
    <3>. QED  BY <1>4, <3>1, <3>2 DEF cell
  <2>. QED  BY <2>4, <2>5
<1>. QED  BY <1>5, <1>6

LEMMA WeightDataStep ==
    ASSUME FlagInv, FlagInv', Next, Window, WeightData, \A v \in SubBlocks : UbData(v)
    PROVE  WeightData'
<1>0. bufNum' = bufNum /\ PlaceInv /\ bufNum \in BufNums /\ Released \in Nat
  BY StepCases, CountTypes DEF FlagInv, CreditInv, PlaceInv
<1>1. SUFFICES ASSUME NEW v \in SubBlocks, NEW j \in 0 .. Piece(v, "MTE3")' - 1,
                      Released' <= Tile(v, j)
               PROVE  HoldsPiece(mem', v, j)
  BY <1>0, WeightDataNext
<1>2. ASSUME j \in 0 .. Piece(v, "MTE3") - 1
      PROVE  /\ j \in Nat /\ Tile(v, j) \in Nat /\ Tile(v, j) < Released + bufNum
             /\ L1Buf(Tile(v, j)) \in 0 .. MaxBufNum - 1
             /\ \A p \in PartsOf(v, j) : p \in AllParts /\ <<"L1B", L1Buf(Tile(v, j)), p>> \in Locations
             /\ \A p \in BiasPartsOf(v, j) : <<"BIAS", L1Buf(Tile(v, j)), p>> \in Locations
  <2>1. j \in Nat /\ Tile(v, j) \in Nat /\ Tile(v, j) < Released + bufNum
    BY <1>0, <1>2, MovedPieces DEF Window
  <2>2. L1Buf(Tile(v, j)) \in 0 .. MaxBufNum - 1
    BY <1>0, <2>1, L1BNames
  <2>3. PartsOf(v, j) \subseteq AllParts /\ BiasPartsOf(v, j) \subseteq {0, 1}
    BY <1>0, <2>1, PartsAre
  <2>. QED  BY <1>0, <2>1, <2>2, <2>3, L1BNames
<1>3. CASE \A w \in SubBlocks : ~CopyOutWeight(w)
  <2>1. /\ Piece(v, "MTE3")' = Piece(v, "MTE3") /\ Released' \in Nat /\ Released <= Released'
        /\ StoresOnly({"L1A", "SCALEA", "SCALEB", "L0", "C", "UBIN", "UBOUT"})
    BY <1>3, WeightsUntouched
  <2>2. j \in 0 .. Piece(v, "MTE3") - 1
    BY <2>1
  <2>3. Released <= Tile(v, j)
    BY <1>0, <1>1, <1>2, <2>1, <2>2
  <2>4. HoldsPiece(mem, v, j)
    BY <2>2, <2>3 DEF WeightData
  <2>. QED  BY <1>2, <2>1, <2>2, <2>4 DEF HoldsPiece, StoresOnly
<1>4. ASSUME NEW w \in SubBlocks, CopyOutWeight(w)
      PROVE  HoldsPiece(mem', v, j)
  <2>. DEFINE i == Piece(w, "MTE3")
              t == Tile(v, j)
              u == Tile(w, i)
              piece == mem[<<"UBOUT", w, UbBuf(i)>>]
  <2>1. /\ Piece(v, "MTE3")' = Piece(v, "MTE3") + (IF v = w THEN 1 ELSE 0)
        /\ Piece(v, "MTE3") \in Nat /\ i \in Nat /\ Released' = Released
    BY <1>0, <1>4, CopyOutMoves
  <2>2. u \in Nat /\ Released <= u /\ u < Released + bufNum
    BY <1>0, <1>4, FillsInWindow
  <2>3. piece = <<u, Round(i)>> /\ piece[1] = u
    BY <1>0, <1>4, PieceTaken
  <2>4. /\ \A b, p : <<"L1B", b, p>> \in Locations =>
                mem'[<<"L1B", b, p>>] = IF b = L1Buf(u) /\ p \in PartsOf(w, i) THEN piece
                                        ELSE mem[<<"L1B", b, p>>]
        /\ \A b, p : <<"BIAS", b, p>> \in Locations =>
                mem'[<<"BIAS", b, p>>] = IF b = L1Buf(u) /\ p \in BiasPartsOf(w, i) THEN BlockOf(piece[1])
                                         ELSE mem[<<"BIAS", b, p>>]
    BY <1>0, <1>4, CopyOutWeightStores
  <2>5. j \in 0 .. Piece(v, "MTE3") - 1 \/ (v = w /\ j = i)
    BY <2>1
  <2>6. CASE v = w /\ j = i
    <3>1. L1Buf(u) \in 0 .. MaxBufNum - 1 /\ PartsOf(w, i) \subseteq AllParts
          /\ BiasPartsOf(w, i) \subseteq {0, 1}
      BY <1>0, <2>1, <2>2, L1BNames, PartsAre
    <3>2. /\ \A p \in PartsOf(w, i) : <<"L1B", L1Buf(u), p>> \in Locations
          /\ \A p \in BiasPartsOf(w, i) : <<"BIAS", L1Buf(u), p>> \in Locations
      BY <1>0, <3>1, L1BNames
    <3>. HIDE DEF i, u, piece
    <3>3. HoldsPiece(mem', w, i)
      BY <2>3, <2>4, <3>2 DEF HoldsPiece, u
    <3>. QED  BY <2>6, <3>3
  <2>7. CASE j \in 0 .. Piece(v, "MTE3") - 1
    <3>1. /\ j \in Nat /\ t \in Nat /\ t < Released + bufNum /\ Released <= t
          /\ \A p \in PartsOf(v, j) : p \in AllParts /\ <<"L1B", L1Buf(t), p>> \in Locations
          /\ \A p \in BiasPartsOf(v, j) : <<"BIAS", L1Buf(t), p>> \in Locations
      BY <1>1, <1>2, <2>1, <2>7
    <3>2. HoldsPiece(mem, v, j)
      BY <2>7, <3>1 DEF WeightData
    <3>3. L1Buf(t) = L1Buf(u) => t = u
      BY <1>0, <2>2, <3>1, WindowApart
    <3>4. \A p \in PartsOf(v, j) : p \in PartsOf(w, i) => Round(i) = Round(j)
      BY <1>0, <2>1, <3>1, PartsAre
    <3>. HIDE DEF i, t, u, piece
    <3>5. \A p \in PartsOf(v, j) : mem'[<<"L1B", L1Buf(t), p>>] = <<t, Round(j)>>
      BY <2>3, <2>4, <3>1, <3>2, <3>3, <3>4 DEF HoldsPiece, t
    <3>6. \A p \in BiasPartsOf(v, j) : mem'[<<"BIAS", L1Buf(t), p>>] = BlockOf(t)
      BY <2>3, <2>4, <3>1, <3>2, <3>3 DEF HoldsPiece, t
    <3>. QED  BY <3>5, <3>6 DEF HoldsPiece, t
  <2>. QED  BY <2>5, <2>6, <2>7
<1>. QED  BY <1>3, <1>4
-----------------------------------------------------------------------------
(* No buffer is overwritten while its reader needs what it holds.          *)
LoadedInv ==
    /\ L1AData /\ ScalesData
    /\ \A v \in SubBlocks : UbData(v)
    /\ Window /\ WeightData /\ WeightKnown

LEMMA LoadedStep ==
    ASSUME FlagInv, FlagInv', Next, LoadedInv
    PROVE  LoadedInv'
<1>1. L1AData' /\ ScalesData'
  BY L1ADataStep, ScalesDataStep DEF LoadedInv
<1>2. ASSUME NEW v \in SubBlocks PROVE UbData(v)'
  BY UbDataStep DEF LoadedInv
<1>3. Window' /\ WeightData' /\ WeightKnown'
  BY WindowStep, WeightDataStep, WeightKnownStep DEF LoadedInv
<1>4. (\A v \in SubBlocks : UbData(v))'
  BY <1>2 DEF SubBlocks
<1>. QED  BY <1>1, <1>3, <1>4 DEF LoadedInv

\* What is still needed, by kind of buffer.
LEMMA StillNeededIs ==
    ASSUME NEW loc \in Locations, StillNeeded(loc)
    PROVE  LET held == mem[loc] IN
           /\ held # Empty
           /\ \/ loc[1] = "L1A" /\ Released <= held
              \/ loc[1] = "L1B" /\ Released <= held[1]
              \/ loc[1] \in {"SCALEA", "SCALEB"} /\ Group(Released) <= held
              \/ loc[1] = "L0" /\ flag[<<"MTE1_M", loc[2]>>] > 0
              \/ loc[1] = "C" /\ CHalf(Written) = loc[2] /\ flag[<<"M_FIX", 0>>] > 0
<1>1. mem[loc] # Empty
  BY DEF StillNeeded
<1>2. loc[1] \in {"L1A", "L1B", "SCALEA", "SCALEB", "L0", "C"}
  BY DEF StillNeeded
<1>. QED  BY <1>1, <1>2 DEF StillNeeded, Released, Written

\* Items that share a buffer of a ring.
LEMMA NotHeldTwice ==
    ASSUME NEW lo \in Nat, NEW hi \in Nat, NEW B, Apart(lo, hi + 1, B), NEW j \in lo .. hi - 1
    PROVE  B[j] # B[hi]
BY DEF Apart

LEMMA KeepsTilesOfA ==
    ASSUME FlagInv, FlagInv', LoadedInv, LoadA, bufNum' = bufNum, NEW b \in 0 .. MaxBufNum - 1,
           mem'[<<"L1A", b>>] # mem[<<"L1A", b>>]
    PROVE  ~StillNeeded(<<"L1A", b>>)
<1>. DEFINE B == InTurn(bufNum)
            m == Cells("L1A", Buffers)
            held == mem[<<"L1A", b>>]
<1>0. /\ PlaceInv /\ bufNum \in BufNums /\ Released \in Nat /\ ALoaded \in Nat
      /\ <<"L1A", b>> \in Locations /\ bufNum \in Positive
      /\ Known(m, ALoaded, B)
      /\ mem'[<<"L1A", b>>] = IF b = L1Buf(ALoaded) THEN ALoaded ELSE mem[<<"L1A", b>>]
      /\ ALoaded' = ALoaded + 1 /\ Released' = Released
  BY CountTypes, LocationNames, BufNumIs, LoadAStores, LoadACounts
     DEF FlagInv, CreditInv, PlaceInv, LoadedInv, L1AData, Stored, Positive, BLoaded
<1>1. /\ b = L1Buf(ALoaded) /\ B[ALoaded] = b /\ b \in Buffers
  BY <1>0, TurnIs DEF L1Buf, Buffers
<1>2. Apart(Released, ALoaded + 1, B)
  BY <1>0, NextApart DEF FlagInv
<1>3. held = Empty \/ (held \in 0 .. ALoaded - 1 /\ B[held] = b)
  BY <1>0, <1>1 DEF Known, Cells
<1>4. SUFFICES ASSUME StillNeeded(<<"L1A", b>>) PROVE FALSE
  OBVIOUS
<1>5. held # Empty /\ Released <= held
  BY <1>0, <1>4, StillNeededIs
<1>. HIDE DEF B, m, held
<1>. QED  BY <1>0, <1>1, <1>2, <1>3, <1>5, NotHeldTwice

LEMMA KeepsScales ==
    ASSUME NEW kind \in {"SCALEA", "SCALEB"}, NEW n \in Nat, Released \in Nat, ScaleData(kind, n),
           Apart(Group(Released), Begun(n + 1), InTurn(2)), NEW b \in {0, 1},
           <<kind, b>> \in Locations, OpensGroup(n), b = ScaleBuf(n)
    PROVE  ~StillNeeded(<<kind, b>>)
<1>. DEFINE B == InTurn(2)
            m == Cells(kind, {0, 1})
            held == mem[<<kind, b>>]
            lo == Group(Released)
            hi == Begun(n)
<1>0. /\ Known(m, hi, B) /\ lo \in Nat /\ hi \in Nat /\ Begun(n + 1) = hi + 1 /\ hi = Group(n)
      /\ B[hi] = b
  BY GroupNext, BegunNext, ScaleTurn DEF ScaleData, Stored
<1>1. held = Empty \/ (held \in 0 .. hi - 1 /\ B[held] = b)
  BY <1>0 DEF Known, Cells
<1>2. SUFFICES ASSUME StillNeeded(<<kind, b>>) PROVE FALSE
  OBVIOUS
<1>3. held # Empty /\ lo <= held
  BY <1>2, StillNeededIs
<1>. HIDE DEF B, m, held, lo, hi
<1>4. Apart(lo, hi + 1, B)
  BY <1>0 DEF lo, hi, B
<1>. QED  BY <1>0, <1>1, <1>3, <1>4, NotHeldTwice

LEMMA KeepsWeights ==
    ASSUME FlagInv, FlagInv', LoadedInv, bufNum' = bufNum, NEW w \in SubBlocks, CopyOutWeight(w),
           NEW b \in 0 .. MaxBufNum - 1, NEW p \in AllParts,
           mem'[<<"L1B", b, p>>] # mem[<<"L1B", b, p>>]
    PROVE  ~StillNeeded(<<"L1B", b, p>>)
<1>. DEFINE i == Piece(w, "MTE3")
            u == Tile(w, i)
            cell == <<"L1B", b, p>>
            held == mem[cell]
<1>0. /\ PlaceInv /\ bufNum \in BufNums /\ Released \in Nat /\ cell \in Locations
      /\ UbData(w) /\ Window /\ WeightKnown
  BY CountTypes, L1BNames DEF FlagInv, CreditInv, PlaceInv, LoadedInv
<1>1. /\ u \in Nat /\ Released <= u /\ u < Released + bufNum /\ i \in Nat
  BY <1>0, FillsInWindow, CopyOutMoves
<1>2. /\ b = L1Buf(u) /\ p \in PartsOf(w, i) /\ mem'[cell] = <<u, Round(i)>>
  <2>1. mem'[cell] = IF b = L1Buf(u) /\ p \in PartsOf(w, i) THEN mem[<<"UBOUT", w, UbBuf(i)>>]
                     ELSE mem[cell]
    BY <1>0, CopyOutWeightStores
  <2>2. mem[<<"UBOUT", w, UbBuf(i)>>] = <<u, Round(i)>>
    BY <1>0, PieceTaken
  <2>3. mem'[cell] # mem[cell]
    OBVIOUS
  <2>. HIDE DEF i, u, cell, held
  <2>. QED  BY <2>1, <2>2, <2>3
<1>3. SUFFICES ASSUME StillNeeded(cell) PROVE FALSE
  OBVIOUS
<1>4. held # Empty /\ Released <= held[1]
  BY <1>0, <1>3, StillNeededIs
<1>. PICK v \in SubBlocks : \E j \in 0 .. Piece(v, "MTE3") - 1 : Left(held, b, p, v, j)
  BY <1>0, <1>4 DEF WeightKnown
<1>5. PICK j \in 0 .. Piece(v, "MTE3") - 1 : Left(held, b, p, v, j)
  OBVIOUS
<1>6. j \in Nat /\ Tile(v, j) \in Nat /\ Tile(v, j) < Released + bufNum
  BY <1>0, MovedPieces DEF Window
<1>7. /\ L1Buf(Tile(v, j)) = b /\ p \in PartsOf(v, j) /\ held = <<Tile(v, j), Round(j)>>
      /\ Released <= Tile(v, j)
  BY <1>4, <1>5 DEF Left
<1>8. Tile(v, j) = u
  BY <1>0, <1>1, <1>2, <1>6, <1>7, WindowApart
<1>9. Round(i) = Round(j)
  BY <1>0, <1>1, <1>2, <1>6, <1>7, PartsAre
<1>. HIDE DEF i, u, held, cell
<1>10. mem'[cell] = held
  BY <1>2, <1>7, <1>8, <1>9
<1>. QED  BY <1>10 DEF cell, held

LEMMA KeepsSteps ==
    ASSUME FlagInv, FlagInv', CopyToL0, bufNum' = bufNum, NEW b \in {0, 1},
           mem'[<<"L0", b>>] # mem[<<"L0", b>>]
    PROVE  ~StillNeeded(<<"L0", b>>)
<1>0. /\ PlaceInv /\ bufNum \in BufNums /\ Multiplied \in Nat /\ Copied \in Nat
      /\ <<"L0", b>> \in Locations
      /\ Copied' = Copied + 1 /\ Multiplied' = Multiplied
      /\ FullEvents(Events("MTE1_M", {0, 1}), Multiplied, Copied, L0Bufs)
  BY CountTypes, LocationNames, CopyToL0Counts
     DEF FlagInv, CreditInv, PlaceInv, CubeFlagInv, L0Flags
<1>1. b = L0Bufs[Copied]
  <2>. DEFINE t == AtTile("MTE1")
              i == AtStep("MTE1")
  <2>1. b = L0Buf(t, i)
    BY <1>0, CopyToL0Stores
  <2>2. Copied = Index(t, i) /\ t \in Nat /\ i \in 0 .. StepK(t) - 1
    BY <1>0, CopyToL0Step, CopyToL0Counts
  <2>. HIDE DEF t, i
  <2>. QED  BY <2>1, <2>2, L0BufAt
<1>2. Apart(Multiplied, Copied + 1, L0Bufs)
  BY <1>0, NextApart DEF FlagInv
<1>3. SUFFICES ASSUME flag[<<"MTE1_M", b>>] > 0 PROVE FALSE
  BY <1>0, StillNeededIs
<1>4. Held(Multiplied, Copied, L0Bufs, b)
  <2>. DEFINE f == Events("MTE1_M", {0, 1})
  <2>1. f[b] = flag[<<"MTE1_M", b>>] /\ b \in DOMAIN f
    BY DEF Events
  <2>. HIDE DEF f
  <2>2. f[b] = IF Held(Multiplied, Copied, L0Bufs, b) THEN 1 ELSE 0
    BY <1>0, <2>1 DEF FullEvents, f
  <2>. QED  BY <1>3, <2>1, <2>2
<1>. QED  BY <1>0, <1>1, <1>2, <1>4, NotHeldTwice DEF Held

LEMMA KeepsResults ==
    ASSUME FlagInv, FlagInv', Mmad, bufNum' = bufNum, NEW b \in {0, 1},
           mem'[<<"C", b>>] # mem[<<"C", b>>]
    PROVE  ~StillNeeded(<<"C", b>>)
<1>0. /\ PlaceInv /\ bufNum \in BufNums /\ Written \in Nat /\ Ended \in Nat
      /\ <<"C", b>> \in Locations /\ Written' = Written
      /\ flag[<<"M_FIX", 0>>] = Ended - Written
  BY CountTypes, LocationNames, MmadCounts
     DEF FlagInv, CreditInv, PlaceInv, CubeFlagInv, CFlags
<1>1. b = CHalf(Ended)
  BY <1>0, MmadStores DEF Ended
<1>2. Started' = Ended + 1
  BY <1>0, MmadCounts DEF Started, Ended
<1>3. Apart(Written, Ended + 1, InTurn(2))
  BY <1>0, <1>2, NextApart DEF FlagInv
<1>4. SUFFICES ASSUME CHalf(Written) = b, flag[<<"M_FIX", 0>>] > 0 PROVE FALSE
  BY <1>0, StillNeededIs
<1>5. Written < Ended
  BY <1>0, <1>4
<1>6. InTurn(2)[Written] = InTurn(2)[Ended]
  BY <1>0, <1>1, <1>4 DEF InTurn, CHalf
<1>. QED  BY <1>0, <1>3, <1>5, <1>6, NotHeldTwice

LEMMA NothingLostStep ==
    ASSUME FlagInv, FlagInv', LoadedInv, Next, NEW loc \in Locations, mem'[loc] # mem[loc]
    PROVE  ~StillNeeded(loc)
<1>0. bufNum' = bufNum /\ PlaceInv /\ bufNum \in BufNums /\ L1AData /\ ScalesData
      /\ Released \in Nat /\ ALoaded \in Nat /\ BLoaded \in Nat
  BY StepCases, CountTypes DEF FlagInv, CreditInv, PlaceInv, LoadedInv
<1>1. SUFFICES ASSUME StillNeeded(loc) PROVE FALSE
  OBVIOUS
<1>2. loc[1] \in {"L1A", "L1B", "SCALEA", "SCALEB", "L0", "C"}
  BY <1>1, StillNeededIs
<1>3. \/ \E b \in 0 .. MaxBufNum - 1 : loc = <<"L1A", b>>
      \/ \E b \in 0 .. MaxBufNum - 1, p \in AllParts : loc = <<"L1B", b, p>>
      \/ \E kind \in {"SCALEA", "SCALEB", "L0", "C"}, b \in {0, 1} : loc = <<kind, b>>
  BY <1>2 DEF Locations, AllParts
<1>4. CASE LoadA
  <2>1. loc[1] \in {"L1A", "SCALEA"}
    BY <1>0, <1>4, LoadAStores DEF StoresOnly
  <2>2. ASSUME NEW b \in 0 .. MaxBufNum - 1, loc = <<"L1A", b>>
        PROVE  FALSE
    BY <1>0, <1>1, <1>4, <2>2, KeepsTilesOfA
  <2>3. ASSUME NEW b \in {0, 1}, loc = <<"SCALEA", b>>
        PROVE  FALSE
    <3>1. /\ OpensGroup(ALoaded) /\ b = ScaleBuf(ALoaded)
          /\ ALoaded' = ALoaded + 1 /\ Released' = Released
      BY <1>0, <1>4, <2>3, LoadAStores, LoadACounts DEF BLoaded
    <3>2. Apart(Group(Released), Begun(ALoaded + 1), InTurn(2))
      BY <1>0, <3>1, NextApart DEF FlagInv
    <3>. QED  BY <1>0, <1>1, <2>3, <3>1, <3>2, KeepsScales DEF ScalesData
  <2>. QED  BY <1>3, <2>1, <2>2, <2>3
<1>5. CASE LoadScaleB
  <2>1. loc[1] = "SCALEB"
    BY <1>0, <1>5, LoadScaleBStores DEF StoresOnly
  <2>2. ASSUME NEW b \in {0, 1}, loc = <<"SCALEB", b>>
        PROVE  FALSE
    <3>1. /\ OpensGroup(BLoaded) /\ b = ScaleBuf(BLoaded)
          /\ BLoaded' = BLoaded + 1 /\ Released' = Released
      BY <1>0, <1>5, <2>2, LoadScaleBStores, LoadScaleBCounts DEF BLoaded
    <3>2. Apart(Group(Released), Begun(BLoaded + 1), InTurn(2))
      BY <1>0, <3>1, NextApart DEF FlagInv
    <3>. QED  BY <1>0, <1>1, <2>2, <3>1, <3>2, KeepsScales DEF ScalesData
  <2>. QED  BY <1>3, <2>1, <2>2
<1>6. CASE CopyToL0
  <2>1. loc[1] = "L0"
    BY <1>0, <1>6, CopyToL0Stores DEF StoresOnly
  <2>. QED  BY <1>0, <1>1, <1>3, <1>6, <2>1, KeepsSteps
<1>7. CASE Mmad
  <2>1. loc[1] = "C"
    BY <1>0, <1>7, MmadStores DEF StoresOnly
  <2>. QED  BY <1>0, <1>1, <1>3, <1>7, <2>1, KeepsResults
<1>8. ASSUME NEW w \in SubBlocks, VectorAct(w)
      PROVE  FALSE
  <2>1. CopyOutWeight(w) /\ loc[1] = "L1B"
    BY <1>0, <1>2, <1>8, VectorStores DEF StoresOnly, StoresOnlyOf
  <2>2. PICK b \in 0 .. MaxBufNum - 1, p \in AllParts : loc = <<"L1B", b, p>>
    BY <1>3, <2>1
  <2>. QED  BY <1>0, <1>1, <2>1, <2>2, KeepsWeights
<1>9. CASE mem' = mem
  BY <1>9
<1>. QED  BY <1>4, <1>5, <1>6, <1>7, <1>8, <1>9, StepCases, OthersStoreNothing DEF VectorAct
-----------------------------------------------------------------------------
(* The operands of a step, and what the result of a block is made of.      *)
Right(j) == Expected[bufNum][j \div BlockSteps][(j % BlockSteps) + 1]
RightProduct(t, i) ==
    [a |-> t, b |-> [p \in Parts |-> <<t, IF Quad THEN 0 ELSE p>>],
     scaleA |-> Group(t), scaleB |-> Group(t), step |-> i,
     bias |-> IF HasBias /\ KOf(t) = 0 /\ i = 0 THEN [p \in BiasParts |-> BlockOf(t)] ELSE <<>>]

LEMMA BlockInRange ==
    ASSUME NEW t \in 0 .. NumTiles - 1
    PROVE  t \in Nat /\ BlockOf(t) \in Blocks
<1>1. /\ t \in Nat /\ KTiles \in Positive /\ NumBlocks \in Positive /\ NumTiles = NumBlocks * KTiles
  BY Shapes DEF NumTiles, Positive
<1>2. BlockOf(t) \in Nat /\ KOf(t) \in 0 .. KTiles - 1 /\ t = KTiles * BlockOf(t) + KOf(t)
  BY <1>1, TileNext
<1>3. BlockOf(t) < NumBlocks
  <2>1. SUFFICES ASSUME NumBlocks <= BlockOf(t) PROVE FALSE
    BY <1>1, <1>2 DEF Positive
  <2>2. KTiles * NumBlocks <= KTiles * BlockOf(t)
    BY <1>1, <1>2, <2>1 DEF Positive
  <2>3. KTiles * NumBlocks = NumBlocks * KTiles /\ KTiles * BlockOf(t) \in Nat
        /\ NumBlocks * KTiles \in Nat
    BY <1>1, <1>2 DEF Positive
  <2>4. t \in 0 .. NumTiles - 1
    OBVIOUS
  <2>. QED  BY <1>1, <1>2, <2>2, <2>3, <2>4
<1>4. NumBlocks \in Nat /\ NumBlocks - 1 \in Int
  BY <1>1 DEF Positive
<1>5. BlockOf(t) \in 0 .. NumBlocks - 1
  BY <1>2, <1>3, <1>4
<1>. QED  BY <1>1, <1>5 DEF Blocks

LEMMA ExpectedIs ==
    ASSUME bufNum \in BufNums, NEW t \in 0 .. NumTiles - 1, NEW i \in 0 .. StepK(t) - 1
    PROVE  Right(Index(t, i)) = RightProduct(t, i)
<1>. DEFINE b == BlockOf(t)
            k == KOf(t) * StepsPerTile + i
<1>1. t \in Nat /\ b \in Blocks /\ b \in Nat
  BY BlockInRange DEF Blocks
<1>2. /\ KOf(t) \in Nat /\ StepsPerTile \in Positive /\ i \in 0 .. StepsPerTile - 1
      /\ BlockSteps \in Positive /\ i \in Nat
  <2>1. /\ StepsPerTile \in Positive /\ LastSteps \in 1 .. StepsPerTile /\ BlockSteps \in Positive
        /\ StepK(t) = LastSteps \/ StepK(t) = StepsPerTile
    BY <1>1, StepKIs
  <2>2. StepK(t) \in Nat /\ StepK(t) <= StepsPerTile
    BY <2>1 DEF Positive
  <2>3. i \in 0 .. StepK(t) - 1
    OBVIOUS
  <2>4. i \in 0 .. StepsPerTile - 1 /\ i \in Nat
    BY <2>1, <2>2, <2>3 DEF Positive
  <2>5. KOf(t) \in Nat
    BY <1>1, TileNext, Shapes DEF Positive
  <2>. QED  BY <2>1, <2>4, <2>5
<1>3. Index(t, i) \div BlockSteps = b /\ Index(t, i) % BlockSteps = k /\ k \in 0 .. BlockSteps - 1
  BY <1>1, IndexIs
<1>4. k \div StepsPerTile = KOf(t) /\ k % StepsPerTile = i
  <2>1. k = StepsPerTile * KOf(t) + i
    BY <1>2 DEF Positive
  <2>. HIDE DEF k
  <2>. QED  BY <1>2, <2>1, DivModUnique
<1>5. k = 0 <=> KOf(t) = 0 /\ i = 0
  <2>1. KOf(t) # 0 => KOf(t) * StepsPerTile \in Nat \ {0}
    BY <1>2 DEF Positive
  <2>2. KOf(t) = 0 => KOf(t) * StepsPerTile = 0
    BY <1>2 DEF Positive
  <2>. QED  BY <1>2, <2>1, <2>2
<1>6. b * KTiles + KOf(t) = t
  BY <1>1, TileNext, Shapes DEF Positive
<1>. HIDE DEF k, b
<1>7. Right(Index(t, i)) = Expected[bufNum][b][k + 1]
  BY <1>3 DEF Right
<1>8. StepsOf(b) = BlockSteps /\ k + 1 \in 1 .. StepsOf(b) /\ (k + 1) - 1 = k /\ (k + 1 = 1 <=> k = 0)
  BY <1>1, <1>2, <1>3, StepsOfIs DEF Positive
<1>9. Expected[bufNum][b][k + 1] =
        LET u == b * KTiles + k \div StepsPerTile IN
        [a |-> u, b |-> [p \in PartsFor(bufNum) |-> <<u, IF bufNum = 4 THEN 0 ELSE p>>],
         scaleA |-> Group(u), scaleB |-> Group(u), step |-> k % StepsPerTile,
         bias |-> IF HasBias /\ k = 0 THEN [p \in BiasPartsFor(bufNum) |-> b] ELSE <<>>]
  BY <1>1, <1>8 DEF Expected
<1>. QED  BY <1>4, <1>5, <1>6, <1>7, <1>9 DEF RightProduct, Parts, BiasParts, Quad, b

\* The vector cores a buffer is paired with have moved all pieces of the tile that is copied.
LEMMA PiecesThere ==
    ASSUME FlagInv, CopyToL0, bufNum' = bufNum, NEW v \in SubBlocks, v \in Partners(L1Buf(Released))
    PROVE  Served(v, Released) + 1 <= Piece(v, "MTE3") \div Rounds
<1>. DEFINE t == AtTile("MTE1")
            i == AtStep("MTE1")
            waits == {<<"M_MTE1", L0Buf(t, i)>>} \cup When(i = 0, TileReady(t))
            sets == {<<"MTE1_M", L0Buf(t, i)>>} \cup When(i = StepK(t) - 1, TileReleased(t))
<1>0. /\ PlaceInv /\ bufNum \in BufNums /\ Released \in Nat /\ flag \in [Flags -> Nat]
      /\ flag[VecReady(v)] = (Piece(v, "MTE3") \div Rounds) - Served(v, Taken)
      /\ Piece(v, "MTE3") \in Nat /\ Rounds \in Positive /\ VecReady(v) \in Flags
  BY CountTypes, PiecesMove, PieceCounts, CreditFlags
     DEF FlagInv, CreditInv, PlaceInv, ReadyFlags
<1>1. /\ Counts(waits, sets) /\ Released = t /\ (i = 0 <=> Taken = t)
      /\ Taken = Released + (IF i > 0 THEN 1 ELSE 0) /\ i \in Nat
  BY <1>0, CopyToL0Step, CopyToL0Counts, TileHasSteps DEF Taken, Released, Positive
<1>2. /\ Served(v, Released) \in Nat /\ Served(v, Released + 1) = Served(v, Released) + 1
      /\ Piece(v, "MTE3") \div Rounds \in Nat /\ flag[VecReady(v)] \in Nat
  BY <1>0, ServedNext, DivMod
<1>3. CASE i = 0
  <2>1. VecReady(v) \in waits
    BY <1>1, <1>3 DEF When, TileReady
  <2>. HIDE DEF waits, sets, i, t
  <2>2. flag[VecReady(v)] > 0 /\ Taken = Released
    BY <1>1, <1>3, <2>1 DEF Counts
  <2>. QED  BY <1>0, <1>2, <2>2
<1>4. CASE i # 0
  <2>1. Taken = Released + 1
    BY <1>1, <1>4
  <2>. QED  BY <1>0, <1>2, <2>1
<1>. QED  BY <1>3, <1>4

\* The piece of a round of a tile.
LEMMA PieceFor ==
    ASSUME bufNum \in BufNums, NEW v \in SubBlocks, NEW t \in Nat, v \in Partners(L1Buf(t)),
           NEW q \in 0 .. Rounds - 1, NEW moved \in Nat, Served(v, t) + 1 <= moved \div Rounds
    PROVE  LET j == Rounds * Served(v, t) + q IN
           j \in 0 .. moved - 1 /\ Tile(v, j) = t /\ Round(j) = q
<1>. DEFINE s == Served(v, t)
            j == Rounds * s + q
            n == moved \div Rounds
<1>0. Rounds \in Positive /\ s \in Nat /\ n \in Nat
  BY PieceCounts, ServedNext, DivMod
<1>1. j \div Rounds = s /\ j % Rounds = q
  BY <1>0, DivModUnique
<1>2. j \in 0 .. moved - 1
  <2>1. Rounds * n <= moved /\ Rounds * n \in Nat
    BY <1>0, DivMod DEF Positive
  <2>2. Rounds * (s + 1) <= Rounds * n
    <3>. HIDE DEF s, n
    <3>1. s + 1 <= n
      BY DEF s, n
    <3>. QED  BY <1>0, <3>1 DEF Positive
  <2>3. Rounds * (s + 1) = Rounds * s + Rounds /\ Rounds * s \in Nat
    BY <1>0 DEF Positive
  <2>. HIDE DEF s, n
  <2>. QED  BY <1>0, <2>1, <2>2, <2>3 DEF Positive
<1>3. Tile(v, j) = t
  <2>1. CASE bufNum = 4
    BY <1>1, <2>1 DEF Tile, Served, Quad
  <2>2. CASE bufNum = 2
    <3>1. s = (t + 1 - v) \div 2 /\ t % 2 = v /\ Tile(v, j) = 2 * s + v
      BY <1>1, <2>2 DEF Tile, Served, Quad, Partners, L1Buf
    <3>2. t = 2 * (t \div 2) + v /\ t \div 2 \in Nat
      <4>1. t = 2 * (t \div 2) + (t % 2) /\ t \div 2 \in Nat
        OBVIOUS
      <4>. QED  BY <3>1, <4>1
    <3>3. CASE v = 0
      <4>1. (t + 1) \div 2 = t \div 2
        BY <3>2, <3>3
      <4>. QED  BY <3>1, <3>2, <3>3, <4>1
    <3>4. CASE v = 1
      <4>1. t + 1 - v = t
        BY <3>4
      <4>. QED  BY <3>1, <3>2, <4>1
    <3>. QED  BY <3>3, <3>4 DEF SubBlocks
  <2>3. CASE bufNum = 1
    <3>1. v = 0
      BY <2>3 DEF Partners, Quad
    <3>. QED  BY <1>1, <2>3, <3>1 DEF Tile, Served, Quad
  <2>. QED  BY <2>1, <2>2, <2>3, BufNumIs
<1>. QED  BY <1>1, <1>2, <1>3 DEF Round

\* The part of the weight, and of the bias, a vector core leaves in L1 when all pieces are moved.
LEMMA PartLeft ==
    ASSUME FlagInv, LoadedInv, CopyToL0, bufNum' = bufNum, NEW v \in SubBlocks,
           v \in Partners(L1Buf(Released)), NEW q \in 0 .. Rounds - 1
    PROVE  \E j \in Nat : Tile(v, j) = Released /\ Round(j) = q /\ HoldsPiece(mem, v, j)
<1>. DEFINE j == Rounds * Served(v, Released) + q
<1>1. /\ PlaceInv /\ bufNum \in BufNums /\ Released \in Nat /\ Piece(v, "MTE3") \in Nat /\ WeightData
  BY CountTypes, PiecesMove DEF FlagInv, CreditInv, PlaceInv, LoadedInv
<1>2. j \in 0 .. Piece(v, "MTE3") - 1 /\ Tile(v, j) = Released /\ Round(j) = q
  BY <1>1, PiecesThere, PieceFor
<1>. HIDE DEF j
<1>3. HoldsPiece(mem, v, j) /\ j \in Nat
  BY <1>1, <1>2 DEF WeightData
<1>. QED  BY <1>2, <1>3

LEMMA WeightsThere ==
    ASSUME FlagInv, LoadedInv, CopyToL0, bufNum' = bufNum
    PROVE  \A p \in Parts : mem[<<"L1B", L1Buf(Released), p>>] = <<Released, IF Quad THEN 0 ELSE p>>
<1>. DEFINE t == Released
<1>0. bufNum \in BufNums /\ t \in Nat /\ bufNum \in Positive
  BY CountTypes, BufNumIs DEF FlagInv, CreditInv, PlaceInv, Positive
<1>. SUFFICES ASSUME NEW p \in Parts
              PROVE  mem[<<"L1B", L1Buf(t), p>>] = <<t, IF Quad THEN 0 ELSE p>>
  OBVIOUS
<1>. HIDE DEF t
<1>1. CASE Quad
  <2>1. p \in SubBlocks /\ p \in Partners(L1Buf(t)) /\ 0 \in 0 .. Rounds - 1
    BY <1>1 DEF Parts, PartsFor, Quad, Partners, Rounds
  <2>2. PICK j \in Nat : Tile(p, j) = t /\ Round(j) = 0 /\ HoldsPiece(mem, p, j)
    BY <2>1, PartLeft DEF t
  <2>3. p \in PartsOf(p, j)
    BY <1>1, <2>1 DEF PartsOf
  <2>. QED  BY <1>1, <2>2, <2>3 DEF HoldsPiece
<1>2. CASE ~Quad
  <2>1. PICK v \in SubBlocks : v \in Partners(L1Buf(t))
    <3>1. bufNum = 1 \/ bufNum = 2
      BY <1>0, <1>2, BufNumIs DEF Quad
    <3>2. L1Buf(t) \in 0 .. bufNum - 1
      BY <1>0, DivMod DEF L1Buf
    <3>. QED  BY <1>2, <3>1, <3>2 DEF Partners, SubBlocks
  <2>2. p \in 0 .. Rounds - 1
    BY <1>2 DEF Parts, PartsFor, Quad, Rounds
  <2>3. PICK j \in Nat : Tile(v, j) = t /\ Round(j) = p /\ HoldsPiece(mem, v, j)
    BY <2>1, <2>2, PartLeft DEF t
  <2>4. p \in PartsOf(v, j)
    BY <1>2, <2>3 DEF PartsOf
  <2>. QED  BY <1>2, <2>3, <2>4 DEF HoldsPiece
<1>. QED  BY <1>1, <1>2

LEMMA BiasThere ==
    ASSUME FlagInv, LoadedInv, CopyToL0, bufNum' = bufNum, HasBias, KOf(Released) = 0
    PROVE  \A p \in BiasParts : mem[<<"BIAS", L1Buf(Released), p>>] = BlockOf(Released)
<1>. DEFINE t == Released
<1>0. bufNum \in BufNums /\ t \in Nat /\ bufNum \in Positive /\ Rounds \in Positive
  <2>1. bufNum \in BufNums /\ t \in Nat /\ bufNum \in Positive
    BY CountTypes, BufNumIs DEF FlagInv, CreditInv, PlaceInv, Positive
  <2>2. 0 \in SubBlocks
    BY DEF SubBlocks
  <2>. QED  BY <2>1, <2>2, PieceCounts
<1>. SUFFICES ASSUME NEW p \in BiasParts
              PROVE  mem[<<"BIAS", L1Buf(t), p>>] = BlockOf(t)
  OBVIOUS
<1>. HIDE DEF t
<1>1. 0 \in 0 .. Rounds - 1
  BY <1>0 DEF Positive
<1>2. CASE Quad
  <2>1. p \in BiasAivs /\ p \in SubBlocks /\ p \in Partners(L1Buf(t))
    BY <1>2, ShapeAssumption DEF BiasParts, BiasPartsFor, Quad, Partners, SubBlocks
  <2>2. PICK j \in Nat : Tile(p, j) = t /\ Round(j) = 0 /\ HoldsPiece(mem, p, j)
    BY <1>1, <2>1, PartLeft DEF t
  <2>3. p \in BiasPartsOf(p, j)
    BY <1>2, <2>1, <2>2 DEF BiasPartsOf, t
  <2>. QED  BY <2>2, <2>3 DEF HoldsPiece
<1>3. CASE ~Quad
  <2>1. PICK v \in SubBlocks : v \in Partners(L1Buf(t))
    <3>1. bufNum = 1 \/ bufNum = 2
      BY <1>0, <1>3, BufNumIs DEF Quad
    <3>2. L1Buf(t) \in 0 .. bufNum - 1
      BY <1>0, DivMod DEF L1Buf
    <3>. QED  BY <1>3, <3>1, <3>2 DEF Partners, SubBlocks
  <2>2. p = 0
    BY <1>3 DEF BiasParts, BiasPartsFor, Quad
  <2>3. PICK j \in Nat : Tile(v, j) = t /\ Round(j) = 0 /\ HoldsPiece(mem, v, j)
    BY <1>1, <2>1, PartLeft DEF t
  <2>4. p \in BiasPartsOf(v, j)
    BY <1>3, <2>2, <2>3 DEF BiasPartsOf, t
  <2>. QED  BY <2>3, <2>4 DEF HoldsPiece
<1>. QED  BY <1>2, <1>3

LEMMA ScaleThere ==
    ASSUME NEW kind, NEW n \in Nat, Released \in Nat, Released < n, ScaleData(kind, n)
    PROVE  mem[<<kind, ScaleBuf(Released)>>] = Group(Released)
<1>. DEFINE g == Group(Released)
            m == Cells(kind, {0, 1})
<1>1. Holds(m, g, Begun(n), InTurn(2), Same) /\ g \in Nat /\ g < Begun(n) /\ Begun(n) \in Nat
  BY GroupNext, GroupBegun, BegunNext DEF ScaleData, Stored
<1>2. InTurn(2)[g] = ScaleBuf(Released) /\ ScaleBuf(Released) \in {0, 1} /\ Same[g] = g
  BY <1>1, ScaleTurn DEF Same
<1>. HIDE DEF g, m
<1>3. m[ScaleBuf(Released)] = g
  BY <1>1, <1>2 DEF Holds
<1>. QED  BY <1>2, <1>3 DEF m, Cells, g

LEMMA TileOfAThere ==
    ASSUME bufNum \in BufNums, Released \in Nat, ALoaded \in Nat, Released < ALoaded, L1AData
    PROVE  mem[<<"L1A", L1Buf(Released)>>] = Released
<1>. DEFINE m == Cells("L1A", Buffers)
            B == InTurn(bufNum)
<1>1. Holds(m, Released, ALoaded, B, Same)
  BY DEF L1AData, Stored
<1>2. B[Released] = L1Buf(Released) /\ L1Buf(Released) \in Buffers /\ Same[Released] = Released
  <2>1. bufNum \in Positive
    BY BufNumIs DEF Positive
  <2>. QED  BY <2>1, TurnIs DEF Buffers, L1Buf, Same
<1>. HIDE DEF B, m
<1>3. m[L1Buf(Released)] = Released
  BY <1>1, <1>2 DEF Holds
<1>. QED  BY <1>2, <1>3 DEF m, Cells

\* What MTE1 finds in L1 is what the step is to be made of.
LEMMA CopiesRight ==
    ASSUME FlagInv, LoadedInv, CopyToL0, bufNum' = bufNum
    PROVE  LET t == AtTile("MTE1")
               i == AtStep("MTE1") IN
           Product(t, i, Operands(t, i)) = RightProduct(t, i)
<1>. DEFINE t == AtTile("MTE1")
            i == AtStep("MTE1")
<1>0. /\ PlaceInv /\ bufNum \in BufNums /\ Released \in Nat /\ ALoaded \in Nat /\ BLoaded \in Nat
      /\ L1AData /\ ScaleData("SCALEA", ALoaded) /\ ScaleData("SCALEB", BLoaded)
      /\ BLoaded <= ALoaded /\ t = Released /\ i \in Nat
  BY CountTypes, CopyToL0Step, TileHasSteps
     DEF FlagInv, CreditInv, PlaceInv, LoadedInv, ScalesData, Released, Positive
<1>1. Released < BLoaded
  BY <1>0, TileIsThere DEF FlagInv, CubeFlagInv
<1>2. mem[<<"L1A", L1Buf(t)>>] = t
  BY <1>0, <1>1, TileOfAThere
<1>3. mem[<<"SCALEA", ScaleBuf(t)>>] = Group(t) /\ mem[<<"SCALEB", ScaleBuf(t)>>] = Group(t)
  BY <1>0, <1>1, ScaleThere
<1>4. \A p \in Parts : mem[<<"L1B", L1Buf(t), p>>] = <<t, IF Quad THEN 0 ELSE p>>
  BY <1>0, WeightsThere
<1>5. KFractal(t, i) = 0 <=> KOf(t) = 0 /\ i = 0
  BY <1>0, FirstProduct
<1>6. HasBias /\ KOf(t) = 0 => \A p \in BiasParts : mem[<<"BIAS", L1Buf(t), p>>] = BlockOf(t)
  BY <1>0, BiasThere
<1>. HIDE DEF t, i
<1>7. Operands(t, i) =
        [a |-> t, b |-> [p \in Parts |-> <<t, IF Quad THEN 0 ELSE p>>],
         scaleA |-> Group(t), scaleB |-> Group(t), step |-> i,
         bias |-> IF HasBias THEN [p \in BiasParts |-> mem[<<"BIAS", L1Buf(t), p>>]] ELSE <<>>]
  <2>1. [p \in Parts |-> mem[<<"L1B", L1Buf(t), p>>]] = [p \in Parts |-> <<t, IF Quad THEN 0 ELSE p>>]
    BY <1>4
  <2>. QED  BY <1>2, <1>3, <2>1 DEF Operands
<1>8. CASE KFractal(t, i) = 0
  <2>1. HasBias => [p \in BiasParts |-> mem[<<"BIAS", L1Buf(t), p>>]] = [p \in BiasParts |-> BlockOf(t)]
    BY <1>5, <1>6, <1>8
  <2>. QED  BY <1>5, <1>7, <1>8, <2>1 DEF Product, RightProduct, t, i
<1>9. CASE KFractal(t, i) # 0
  BY <1>5, <1>7, <1>9 DEF Product, RightProduct, t, i
<1>. QED  BY <1>8, <1>9
-----------------------------------------------------------------------------
(* The steps in L0, the blocks in L0C, and the blocks written out.         *)
Made(j) == Product(TileAt(j), StepAt(j), mem[<<"L0", L0Bufs[j]>>])
NextMade(j) == Product(TileAt(j), StepAt(j), mem'[<<"L0", L0Bufs[j]>>])
L0Data == \A j \in Multiplied .. Copied - 1 : Made(j) = Right(j)

\* The right result of a block as far as its first n products.
Begin(f, n) == [i \in 1 .. n |-> f[i]]
RightPart(b, n) == Begin(Expected[bufNum][b], n)
DoneOf(b) == IF b < Ended THEN BlockSteps ELSE Multiplied % BlockSteps
CData == \A b \in Written .. Started - 1 : mem[<<"C", CHalf(b)>>] = RightPart(b, DoneOf(b))
OutData ==
    /\ DOMAIN out = Blocks
    /\ \A c \in Blocks : out[c] = IF c < Written THEN Expected[bufNum][c] ELSE <<>>
ResultInv == L0Data /\ CData /\ OutData

LEMMA ExpectedNext == ASSUME bufNum' = bufNum PROVE Expected' = Expected /\ \A j : Right(j)' = Right(j)
<1>1. Expected' = Expected
  BY DEF Expected, Blocks, StepsOf, StepsPerTile, KTiles, CeilDiv, StepK, KL1Len, KOf, Group,
         BlockOf, PartsFor, SubBlocks, BiasPartsFor
<1>2. BlockSteps' = BlockSteps
  BY DEF BlockSteps, StepsPerTile, LastSteps, KTiles, CeilDiv
<1>. QED  BY <1>1, <1>2 DEF Right

LEMMA ResultDataNext ==
    ASSUME bufNum' = bufNum
    PROVE  /\ L0Data' <=> \A j \in Multiplied' .. Copied' - 1 : NextMade(j) = Right(j)
           /\ CData' <=> \A b \in Written' .. Started' - 1 :
                           mem'[<<"C", CHalf(b)>>] =
                             RightPart(b, IF b < Ended' THEN BlockSteps ELSE Multiplied' % BlockSteps)
           /\ OutData' <=> /\ DOMAIN out' = Blocks
                           /\ \A c \in Blocks :
                                out'[c] = IF c < Written' THEN Expected[bufNum][c] ELSE <<>>
<1>1. ASSUME NEW j PROVE Made(j)' = NextMade(j)
  BY DEF Made, NextMade, Product, KFractal, KOf, KTiles, CeilDiv, TileAt, StepAt, BlockSteps,
         StepsPerTile, LastSteps, L0Bufs, L0Buf
<1>2. L0Data' <=> \A j \in Multiplied' .. Copied' - 1 : NextMade(j) = Right(j)
  BY <1>1, ExpectedNext DEF L0Data
<1>3. BlockSteps' = BlockSteps /\ Blocks' = Blocks
  BY DEF BlockSteps, StepsPerTile, LastSteps, KTiles, CeilDiv, Blocks
<1>4. ASSUME NEW b
      PROVE  /\ DoneOf(b)' = IF b < Ended' THEN BlockSteps ELSE Multiplied' % BlockSteps
             /\ CHalf(b)' = CHalf(b)
             /\ \A n : RightPart(b, n)' = RightPart(b, n)
  BY <1>3, ExpectedNext DEF DoneOf, CHalf, RightPart, Begin
<1>5. CData' <=> \A b \in Written' .. Started' - 1 :
                   mem'[<<"C", CHalf(b)>>] =
                     RightPart(b, IF b < Ended' THEN BlockSteps ELSE Multiplied' % BlockSteps)
  BY <1>3, <1>4, ExpectedNext DEF CData, RightPart, DoneOf, CHalf, Begin
<1>6. OutData' <=> /\ DOMAIN out' = Blocks
                   /\ \A c \in Blocks :
                        out'[c] = IF c < Written' THEN Expected[bufNum][c] ELSE <<>>
  BY <1>3, ExpectedNext DEF OutData
<1>. QED  BY <1>2, <1>5, <1>6
-----------------------------------------------------------------------------
(* Appending what is right keeps a beginning right.                        *)
LEMMA BeginIs ==
    ASSUME NEW f, NEW n \in Nat, NEW S, \A i \in 1 .. n : f[i] \in S
    PROVE  /\ Begin(f, n) \in Seq(S) /\ Len(Begin(f, n)) = n
           /\ \A i \in 1 .. n : Begin(f, n)[i] = f[i]
<1>1. Begin(f, n) \in [1 .. n -> S] /\ \A i \in 1 .. n : Begin(f, n)[i] = f[i]
  BY DEF Begin
<1>2. Begin(f, n) \in Seq(S)
  BY <1>1, SeqDef
<1>3. DOMAIN Begin(f, n) = 1 .. n /\ DOMAIN Begin(f, n) = 1 .. Len(Begin(f, n))
      /\ Len(Begin(f, n)) \in Nat
  BY <1>1, <1>2, LenProperties
<1>. QED  BY <1>1, <1>2, <1>3

LEMMA BeginNext ==
    ASSUME NEW f, NEW n \in Nat
    PROVE  Begin(f, n + 1) = Append(Begin(f, n), f[n + 1])
<1>. DEFINE S == {f[i] : i \in 1 .. n + 1}
            s == Begin(f, n)
            t == Begin(f, n + 1)
            e == f[n + 1]
<1>1. /\ \A i \in 1 .. n + 1 : f[i] \in S
      /\ n + 1 \in Nat /\ e \in S
  OBVIOUS
<1>. HIDE DEF S
<1>2. s \in Seq(S) /\ Len(s) = n /\ \A i \in 1 .. n : s[i] = f[i]
  BY <1>1, BeginIs
<1>3. t \in Seq(S) /\ Len(t) = n + 1 /\ \A i \in 1 .. n + 1 : t[i] = f[i]
  BY <1>1, BeginIs
<1>. HIDE DEF s, t, e
<1>4. /\ Append(s, e) \in Seq(S) /\ Len(Append(s, e)) = n + 1
      /\ \A i \in 1 .. n : Append(s, e)[i] = s[i]
      /\ Append(s, e)[n + 1] = e
  BY <1>1, <1>2, AppendProperties
<1>5. \A i \in 1 .. n + 1 : Append(s, e)[i] = t[i]
  BY <1>2, <1>3, <1>4 DEF e
<1>6. Append(s, e) = t
  BY <1>3, <1>4, <1>5, SeqEqual
<1>. QED  BY <1>6 DEF s, t, e

LEMMA BeginFirst == ASSUME NEW f PROVE Begin(f, 1) = <<f[1]>>
BY DEF Begin

LEMMA WholeBlock ==
    ASSUME bufNum \in BufNums, NEW b \in Blocks
    PROVE  /\ RightPart(b, BlockSteps) = Expected[bufNum][b]
           /\ Expected[bufNum][b] # <<>>
<1>1. b \in Nat /\ StepsOf(b) = BlockSteps /\ BlockSteps \in Positive
  <2>1. b \in Nat
    BY DEF Blocks
  <2>. QED  BY <2>1, StepsOfIs, StepKIs
<1>. DEFINE f == Expected[bufNum][b]
<1>2. f = [i \in 1 .. StepsOf(b) |-> f[i]] /\ DOMAIN f = 1 .. StepsOf(b)
  BY DEF Expected
<1>. HIDE DEF f
<1>3. f = Begin(f, BlockSteps)
  BY <1>1, <1>2 DEF Begin
<1>4. f # <<>>
  <2>1. 1 \in DOMAIN f
    BY <1>1, <1>2 DEF Positive
  <2>. QED  BY <2>1
<1>. QED  BY <1>3, <1>4 DEF RightPart, f

-----------------------------------------------------------------------------
(* Which products of a block are done.                                     *)
LEMMA LastIndex ==
    ASSUME NEW t \in Nat, NEW i \in 0 .. StepK(t) - 1
    PROVE  KOf(t) * StepsPerTile + i = BlockSteps - 1 <=> KOf(t) = KTiles - 1 /\ i = StepK(t) - 1
<1>. DEFINE k == KOf(t)
            S == StepsPerTile
<1>1. /\ k \in 0 .. KTiles - 1 /\ S \in Positive /\ LastSteps \in 1 .. S
      /\ KTiles \in Positive
      /\ StepK(t) = IF k = KTiles - 1 THEN LastSteps ELSE S
      /\ BlockSteps = (KTiles - 1) * S + LastSteps /\ (KTiles - 1) * S \in Nat
  BY TileNext, StepKIs, Shapes DEF BlockSteps
<1>. HIDE DEF k, S
<1>2. CASE k = KTiles - 1
  <2>1. k * S = (KTiles - 1) * S
    BY <1>2
  <2>. QED  BY <1>1, <1>2, <2>1 DEF k, S
<1>3. CASE k # KTiles - 1
  <2>1. (k + 1) * S = k * S + S /\ k * S \in Nat
    BY <1>1 DEF Positive
  <2>2. k + 1 <= KTiles - 1
    BY <1>1, <1>3 DEF Positive
  <2>3. (k + 1) * S <= (KTiles - 1) * S
    BY <1>1, <2>2 DEF Positive
  <2>4. i <= S - 1 /\ i \in Nat
    BY <1>1, <1>3 DEF Positive
  <2>5. k * S + i < BlockSteps - 1
    BY <1>1, <2>1, <2>3, <2>4 DEF Positive
  <2>. QED  BY <1>3, <2>1, <2>4, <2>5 DEF k, S
<1>. QED  BY <1>2, <1>3

\* Mmad's place in its block, now and in the next state.
LEMMA MmadPlace ==
    ASSUME PlaceInv, Mmad, bufNum' = bufNum
    PROVE  LET t == AtTile("M")
               i == AtStep("M")
               r == KOf(t) * StepsPerTile + i IN
           /\ t \in Nat /\ i \in 0 .. StepK(t) - 1 /\ t \in 0 .. NumTiles - 1
           /\ r \in 0 .. BlockSteps - 1 /\ Multiplied % BlockSteps = r
           /\ r = 0 <=> KOf(t) = 0 /\ i = 0
           /\ IF Ended' = Ended THEN Multiplied' % BlockSteps = r + 1 ELSE r + 1 = BlockSteps
<1>. DEFINE t == AtTile("M")
            i == AtStep("M")
            r == KOf(t) * StepsPerTile + i
            last == KOf(t) = KTiles - 1 /\ i = StepK(t) - 1
<1>1. /\ t \in Nat /\ i \in 0 .. StepK(t) - 1 /\ t \in 0 .. NumTiles - 1
      /\ Multiplied' = Multiplied + 1 /\ Ended' = Ended + (IF last THEN 1 ELSE 0)
      /\ Multiplied = Index(t, i) /\ Ended \in Nat
  BY CountTypes, MmadStep, MmadCounts
<1>2. /\ r \in 0 .. BlockSteps - 1 /\ Multiplied % BlockSteps = r /\ Multiplied \in Nat
      /\ r = BlockSteps - 1 <=> last
  BY <1>1, IndexIs, LastIndex
<1>3. r = 0 <=> KOf(t) = 0 /\ i = 0
  <2>1. KOf(t) \in Nat /\ StepsPerTile \in Positive /\ i \in Nat
    BY <1>1, TileNext, StepKIs, TileHasSteps, Shapes DEF Positive
  <2>2. KOf(t) # 0 => KOf(t) * StepsPerTile \in Nat \ {0}
    BY <2>1 DEF Positive
  <2>3. KOf(t) = 0 => KOf(t) * StepsPerTile = 0
    BY <2>1 DEF Positive
  <2>. QED  BY <2>1, <2>2, <2>3
<1>4. BlockSteps \in Positive
  BY <1>1, StepKIs
<1>. HIDE DEF t, i, r, last
<1>5. (Multiplied + 1) % BlockSteps = IF r = BlockSteps - 1 THEN 0 ELSE r + 1
  BY <1>2, <1>4, NextMod
<1>6. IF Ended' = Ended THEN Multiplied' % BlockSteps = r + 1 ELSE r + 1 = BlockSteps
  BY <1>1, <1>2, <1>4, <1>5 DEF Positive
<1>. QED  BY <1>1, <1>2, <1>3, <1>6 DEF t, i, r
-----------------------------------------------------------------------------
(* The results stay right.                                                 *)
LEMMA RingOfL0 == ASSUME NEW j \in Nat PROVE L0Bufs[j] \in {0, 1}
<1>1. TileAt(j) \in Nat /\ StepAt(j) \in Nat
  <2>1. BlockSteps \in Positive /\ StepsPerTile \in Positive /\ KTiles \in Positive
    BY StepKIs, Shapes
  <2>2. j \div BlockSteps \in Nat /\ j % BlockSteps \in Nat
    BY <2>1, DivMod DEF Positive
  <2>3. (j % BlockSteps) \div StepsPerTile \in Nat /\ (j % BlockSteps) % StepsPerTile \in Nat
    BY <2>1, <2>2, DivMod DEF Positive
  <2>4. (j \div BlockSteps) * KTiles \in Nat
    BY <2>1, <2>2 DEF Positive
  <2>. QED  BY <2>3, <2>4 DEF TileAt, StepAt
<1>. QED  BY <1>1, L0BufIs DEF L0Bufs

\* A step of anybody but CopyToL0, Mmad and GetTensorC leaves L0, L0C and the results alone.
LEMMA ResultsUntouched ==
    ASSUME PlaceInv, Next, ~CopyToL0, ~Mmad, ~GetTensorC
    PROVE  /\ UNCHANGED <<Copied, Multiplied, Started, Ended, Written, out>>
           /\ \A kind \in {"L0", "C"}, b \in {0, 1} : mem'[<<kind, b>>] = mem[<<kind, b>>]
<1>0. bufNum' = bufNum /\ \A kind \in {"L0", "C"}, b \in {0, 1} : <<kind, b>> \in Locations
  BY StepCases, LocationNames DEF PlaceInv
<1>1. CASE LoadA
  BY <1>0, <1>1, LoadACounts, LoadAStores DEF StoresOnly, LoadA
<1>2. CASE LoadScaleB
  BY <1>0, <1>2, LoadScaleBCounts, LoadScaleBStores DEF StoresOnly, LoadScaleB
<1>3. ASSUME NEW p \in {"MTE2", "MTE1", "M"}, CubeDrains(p)
      PROVE  /\ UNCHANGED <<Copied, Multiplied, Started, Ended, Written, out>>
             /\ mem' = mem
  BY <1>0, <1>3, CubeDrainCounts, OthersStoreNothing DEF CubeDrains, Drain
<1>4. ASSUME NEW v \in SubBlocks, VectorAct(v)
      PROVE  /\ UNCHANGED <<Copied, Multiplied, Started, Ended, Written, out>>
             /\ \A kind \in {"L0", "C"}, b \in {0, 1} : mem'[<<kind, b>>] = mem[<<kind, b>>]
  <2>1. UNCHANGED <<Copied, Multiplied, Started, Ended, Written>>
    BY <1>0, <1>4, CubeUntouched
  <2>2. out' = out
    BY <1>4 DEF VectorAct, CopyInWeight, AntiQuantCompute, CopyOutWeight, VectorDrains, Drain,
                DrainCredits
  <2>3. \A kind \in {"L0", "C"}, b \in {0, 1} : mem'[<<kind, b>>] = mem[<<kind, b>>]
    BY <1>0, <1>4, VectorStores DEF StoresOnly, StoresOnlyOf
  <2>. QED  BY <2>1, <2>2, <2>3
<1>. QED  BY <1>1, <1>2, <1>3, <1>4, StepCases DEF VectorAct

LEMMA L0DataStep ==
    ASSUME FlagInv, FlagInv', LoadedInv, Next, L0Data
    PROVE  L0Data'
<1>0. /\ bufNum' = bufNum /\ PlaceInv /\ bufNum \in BufNums /\ Multiplied \in Nat /\ Copied \in Nat
      /\ \A b \in {0, 1} : <<"L0", b>> \in Locations
  BY StepCases, CountTypes, LocationNames DEF FlagInv, CreditInv, PlaceInv
<1>01. SUFFICES \A j \in Multiplied' .. Copied' - 1 : NextMade(j) = Right(j)
  BY <1>0, ResultDataNext
<1>02. ASSUME NEW j \in Multiplied .. Copied - 1,
              mem'[<<"L0", L0Bufs[j]>>] = mem[<<"L0", L0Bufs[j]>>]
       PROVE  NextMade(j) = Right(j)
  BY <1>02 DEF L0Data, Made, NextMade
<1>1. CASE CopyToL0
  <2>. DEFINE t == AtTile("MTE1")
              i == AtStep("MTE1")
  <2>1. /\ Copied' = Copied + 1 /\ Multiplied' = Multiplied /\ Copied = Index(t, i)
        /\ t \in 0 .. NumTiles - 1 /\ i \in 0 .. StepK(t) - 1
    BY <1>0, <1>1, CopyToL0Step, CopyToL0Counts
  <2>2. t \in Nat
    BY <2>1, BlockInRange
  <2>3. Product(t, i, Operands(t, i)) = RightProduct(t, i)
    BY <1>0, <1>1, CopiesRight
  <2>4. \A b \in {0, 1} : mem'[<<"L0", b>>] = IF b = L0Buf(t, i) THEN Operands(t, i)
                                              ELSE mem[<<"L0", b>>]
    BY <1>0, <1>1, CopyToL0Stores
  <2>. HIDE DEF t, i
  <2>5. L0Bufs[Copied] = L0Buf(t, i) /\ L0Buf(t, i) \in {0, 1}
        /\ TileAt(Copied) = t /\ StepAt(Copied) = i
    BY <2>1, <2>2, L0BufAt, IndexIs
  <2>6. Right(Copied) = RightProduct(t, i)
    BY <1>0, <2>1, ExpectedIs
  <2>7. NextMade(Copied) = Right(Copied)
    <3>1. mem'[<<"L0", L0Bufs[Copied]>>] = Operands(t, i)
      BY <2>4, <2>5
    <3>. QED  BY <2>3, <2>5, <2>6, <3>1 DEF NextMade
  <2>8. Apart(Multiplied, Copied + 1, L0Bufs)
    BY <1>0, <2>1, NextApart DEF FlagInv
  <2>9. ASSUME NEW j \in Multiplied .. Copied - 1
        PROVE  NextMade(j) = Right(j)
    <3>1. L0Bufs[j] # L0Bufs[Copied] /\ L0Bufs[j] \in {0, 1}
      BY <1>0, <2>8, NotHeldTwice, RingOfL0
    <3>. QED  BY <1>02, <2>4, <2>5, <3>1
  <2>. QED  BY <1>0, <2>1, <2>7, <2>9
<1>2. CASE Mmad
  <2>1. /\ Multiplied' = Multiplied + 1 /\ Copied' = Copied
        /\ \A b \in {0, 1} : mem'[<<"L0", b>>] = mem[<<"L0", b>>]
    BY <1>0, <1>2, MmadCounts, MmadStores DEF StoresOnly
  <2>2. ASSUME NEW j \in Multiplied .. Copied - 1
        PROVE  NextMade(j) = Right(j)
    BY <1>0, <1>02, <2>1, RingOfL0
  <2>. QED  BY <1>0, <2>1, <2>2
<1>3. CASE ~CopyToL0 /\ ~Mmad
  <2>1. /\ Multiplied' = Multiplied /\ Copied' = Copied
        /\ \A b \in {0, 1} : mem'[<<"L0", b>>] = mem[<<"L0", b>>]
    <3>1. CASE GetTensorC
      BY <1>0, <3>1, GetTensorCCounts, OthersStoreNothing
    <3>2. CASE ~GetTensorC
      BY <1>0, <1>3, <3>2, ResultsUntouched
    <3>. QED  BY <3>1, <3>2
  <2>2. ASSUME NEW j \in Multiplied .. Copied - 1
        PROVE  NextMade(j) = Right(j)
    BY <1>0, <1>02, <2>1, RingOfL0
  <2>. QED  BY <1>0, <2>1, <2>2
<1>. QED  BY <1>1, <1>2, <1>3

\* Mmad brings the block it works on one product further.
LEMMA Accumulates ==
    ASSUME FlagInv, FlagInv', Mmad, bufNum' = bufNum, L0Data, CData
    PROVE  LET t == AtTile("M")
               i == AtStep("M")
               c == CHalf(BlockOf(t)) IN
           Accumulate(t, i, mem[<<"L0", L0Buf(t, i)>>], mem[<<"C", c>>])
             = RightPart(Ended, KOf(t) * StepsPerTile + i + 1)
<1>. DEFINE t == AtTile("M")
            i == AtStep("M")
            r == KOf(t) * StepsPerTile + i
            x == mem[<<"L0", L0Buf(t, i)>>]
            acc == mem[<<"C", CHalf(BlockOf(t))>>]
            f == Expected[bufNum][Ended]
<1>0. /\ PlaceInv /\ bufNum \in BufNums /\ Multiplied \in Nat /\ Copied \in Nat
      /\ Written \in Nat /\ Started \in Nat /\ Ended \in Nat
      /\ Ended = BlockOf(t) /\ Multiplied = Index(t, i)
      /\ Multiplied' = Multiplied + 1 /\ Copied' = Copied
      /\ t \in Nat /\ i \in 0 .. StepK(t) - 1
      /\ r \in 0 .. BlockSteps - 1 /\ Multiplied % BlockSteps = r
      /\ (r = 0 <=> KOf(t) = 0 /\ i = 0)
  BY CountTypes, MmadCounts, MmadPlace DEF FlagInv, CreditInv, PlaceInv
<1>1. Product(t, i, x) = f[r + 1]
  <2>1. Apart(Multiplied + 1, Copied, L0Bufs)
    BY <1>0, NextApart DEF FlagInv
  <2>2. Multiplied \in Multiplied .. Copied - 1
    BY <1>0, <2>1 DEF Apart
  <2>3. L0Bufs[Multiplied] = L0Buf(t, i) /\ TileAt(Multiplied) = t /\ StepAt(Multiplied) = i
        /\ Multiplied \div BlockSteps = Ended
    BY <1>0, L0BufAt, IndexIs
  <2>4. Made(Multiplied) = Right(Multiplied)
    BY <2>2 DEF L0Data
  <2>5. Made(Multiplied) = Product(t, i, x)
    BY <2>3 DEF Made
  <2>6. Right(Multiplied) = f[r + 1]
    BY <1>0, <2>3 DEF Right
  <2>. QED  BY <2>4, <2>5, <2>6
<1>2. CASE KOf(t) = 0 /\ i = 0
  <2>1. r = 0
    BY <1>0, <1>2
  <2>2. Accumulate(t, i, x, acc) = <<f[r + 1]>>
    BY <1>1, <1>2 DEF Accumulate
  <2>. HIDE DEF t, i, r, f
  <2>3. RightPart(Ended, 1) = <<f[1]>>
    BY BeginFirst DEF RightPart, f
  <2>4. r + 1 = 1
    BY <2>1
  <2>5. Accumulate(t, i, x, acc) = RightPart(Ended, r + 1)
    BY <2>2, <2>3, <2>4
  <2>. QED  BY <2>5 DEF t, i, r
<1>3. CASE ~(KOf(t) = 0 /\ i = 0)
  <2>1. Started = Ended + 1
    BY <1>0, <1>3 DEF Started
  <2>2. Written <= Ended
    <3>1. flag[<<"M_FIX", 0>>] = Ended - Written /\ flag[<<"M_FIX", 0>>] \in Nat
      BY FlagNames, <1>0 DEF FlagInv, CubeFlagInv, CFlags, PlaceInv
    <3>. QED  BY <1>0, <3>1
  <2>3. Ended \in Written .. Started - 1
    BY <1>0, <2>1, <2>2
  <2>4. DoneOf(Ended) = r
    BY <1>0 DEF DoneOf
  <2>5. acc = RightPart(Ended, r)
    BY <1>0, <2>3, <2>4 DEF CData
  <2>6. Accumulate(t, i, x, acc) = Append(acc, f[r + 1])
    BY <1>1, <1>3 DEF Accumulate
  <2>7. r \in Nat
    BY <1>0
  <2>. HIDE DEF t, i, r, f, acc, x
  <2>8. RightPart(Ended, r + 1) = Append(RightPart(Ended, r), f[r + 1])
    BY <2>7, BeginNext DEF RightPart, f
  <2>9. Accumulate(t, i, x, acc) = RightPart(Ended, r + 1)
    BY <2>5, <2>6, <2>8
  <2>. QED  BY <2>9 DEF t, i, r, acc, x
<1>. QED  BY <1>2, <1>3
LEMMA ResultsInOrder ==
    ASSUME FlagInv
    PROVE  Written \in Nat /\ Ended \in Nat /\ Started \in Nat /\ Written <= Ended /\ Ended <= Started
<1>1. PlaceInv /\ flag \in [Flags -> Nat]
  BY DEF FlagInv, CreditInv, PlaceInv
<1>2. Written \in Nat /\ Ended \in Nat /\ Started \in Nat /\ Ended <= Started
  BY <1>1, CountTypes
<1>3. flag[<<"M_FIX", 0>>] = Ended - Written /\ flag[<<"M_FIX", 0>>] \in Nat
  BY <1>1, FlagNames DEF FlagInv, CubeFlagInv, CFlags, PlaceInv
<1>. QED  BY <1>2, <1>3

\* What a block's half of L0C holds when FIX writes it out.
LEMMA BlockIsWhole ==
    ASSUME FlagInv, GetTensorC, CData
    PROVE  /\ Written \in Blocks
           /\ mem[<<"C", CHalf(Written)>>] = Expected[bufNum][Written]
<1>1. /\ flag[<<"M_FIX", 0>>] > 0 /\ flag[<<"M_FIX", 0>>] = Ended - Written
      /\ Written < NumBlocks /\ bufNum \in BufNums
  BY DEF GetTensorC, Sync, Written, FlagInv, CubeFlagInv, CFlags, CreditInv, PlaceInv
<1>2. Written \in Nat /\ Ended \in Nat /\ Started \in Nat /\ Ended <= Started
  BY ResultsInOrder
<1>3. Written < Ended /\ Written \in Written .. Started - 1
  BY <1>1, <1>2
<1>4. Written \in Blocks
  BY <1>1, <1>2, Shapes DEF Blocks, Positive
<1>5. DoneOf(Written) = BlockSteps
  BY <1>3 DEF DoneOf
<1>. QED  BY <1>1, <1>3, <1>4, <1>5, WholeBlock DEF CData

LEMMA CDataStep ==
    ASSUME FlagInv, FlagInv', Next, L0Data, CData
    PROVE  CData'
<1>. DEFINE next(b) == IF b < Ended' THEN BlockSteps ELSE Multiplied' % BlockSteps
<1>0. /\ bufNum' = bufNum /\ PlaceInv /\ bufNum \in BufNums
      /\ Written \in Nat /\ Ended \in Nat /\ Started \in Nat /\ Written <= Ended /\ Ended <= Started
  BY StepCases, ResultsInOrder DEF FlagInv, CreditInv, PlaceInv
<1>00. \A b \in Nat : CHalf(b) \in {0, 1} /\ InTurn(2)[b] = CHalf(b)
  BY DEF CHalf, InTurn
<1>01. SUFFICES \A b \in Written' .. Started' - 1 : mem'[<<"C", CHalf(b)>>] = RightPart(b, next(b))
  BY <1>0, ResultDataNext
<1>1. CASE Mmad
  <2>. DEFINE t == AtTile("M")
              i == AtStep("M")
              r == KOf(t) * StepsPerTile + i
              c == CHalf(BlockOf(t))
              acc == Accumulate(t, i, mem[<<"L0", L0Buf(t, i)>>], mem[<<"C", c>>])
  <2>1. /\ Ended = BlockOf(t) /\ (KOf(t) = 0 /\ i = 0 => Started = Ended)
        /\ Started' = Started + (IF KOf(t) = 0 /\ i = 0 THEN 1 ELSE 0)
        /\ Ended' = Ended + (IF KOf(t) = KTiles - 1 /\ i = StepK(t) - 1 THEN 1 ELSE 0)
        /\ Written' = Written
    BY <1>0, <1>1, MmadCounts
  <2>2. ~(KOf(t) = 0 /\ i = 0) => Started = Ended + 1
    BY <1>0 DEF Started, Ended
  <2>3. acc = RightPart(Ended, r + 1)
    BY <1>0, <1>1, Accumulates
  <2>4. \A b \in {0, 1} : mem'[<<"C", b>>] = IF b = c THEN acc ELSE mem[<<"C", b>>]
    BY <1>0, <1>1, MmadStores
  <2>5. IF Ended' = Ended THEN Multiplied' % BlockSteps = r + 1 ELSE r + 1 = BlockSteps
    BY <1>0, <1>1, MmadPlace
  <2>6. c = CHalf(Ended)
    BY <2>1
  <2>7. Started' = Ended + 1 /\ (Ended' = Ended \/ Ended' = Ended + 1)
    BY <1>0, <2>1, <2>2
  <2>. HIDE DEF acc, r, c, t, i
  <2>8. Apart(Written, Ended + 1, InTurn(2))
    BY <1>0, <2>1, <2>7, NextApart DEF FlagInv
  <2>9. next(Ended) = r + 1
    BY <1>0, <2>5, <2>7
  <2>10. mem'[<<"C", CHalf(Ended)>>] = RightPart(Ended, next(Ended))
    BY <1>0, <1>00, <2>3, <2>4, <2>6, <2>9
  <2>11. ASSUME NEW b \in Written .. Ended - 1
         PROVE  mem'[<<"C", CHalf(b)>>] = RightPart(b, next(b))
    <3>1. b \in Nat /\ b < Ended /\ b < Ended' /\ b \in Written .. Started - 1
      BY <1>0, <2>7
    <3>2. CHalf(b) # c /\ CHalf(b) \in {0, 1}
      BY <1>0, <1>00, <2>6, <2>8, <3>1, NotHeldTwice
    <3>3. mem[<<"C", CHalf(b)>>] = RightPart(b, DoneOf(b)) /\ DoneOf(b) = BlockSteps
      BY <3>1 DEF CData, DoneOf
    <3>. QED  BY <2>4, <3>1, <3>2, <3>3
  <2>. HIDE DEF next
  <2>. QED  BY <1>0, <2>1, <2>7, <2>10, <2>11
<1>2. ASSUME UNCHANGED <<Started, Ended, Multiplied>>, Written' \in Nat, Written <= Written',
             \A b \in {0, 1} : mem'[<<"C", b>>] = mem[<<"C", b>>]
      PROVE  \A b \in Written' .. Started' - 1 : mem'[<<"C", CHalf(b)>>] = RightPart(b, next(b))
  <2>. SUFFICES ASSUME NEW b \in Written' .. Started' - 1
                PROVE  mem'[<<"C", CHalf(b)>>] = RightPart(b, next(b))
    OBVIOUS
  <2>1. b \in Nat /\ b \in Written .. Started - 1
    BY <1>0, <1>2
  <2>2. mem[<<"C", CHalf(b)>>] = RightPart(b, DoneOf(b)) /\ DoneOf(b) = next(b)
    BY <1>2, <2>1 DEF CData, DoneOf
  <2>. QED  BY <1>00, <1>2, <2>1, <2>2
<1>3. CASE GetTensorC
  <2>1. Written' = Written + 1 /\ UNCHANGED <<Started, Ended, Multiplied>> /\ mem' = mem
    BY <1>0, <1>3, GetTensorCCounts, OthersStoreNothing
  <2>. HIDE DEF next
  <2>. QED  BY <1>0, <1>2, <2>1
<1>4. CASE CopyToL0
  <2>1. /\ UNCHANGED <<Started, Ended, Multiplied, Written>>
        /\ \A b \in {0, 1} : mem'[<<"C", b>>] = mem[<<"C", b>>]
    BY <1>0, <1>4, CopyToL0Counts, CopyToL0Stores, LocationNames DEF StoresOnly
  <2>. HIDE DEF next
  <2>. QED  BY <1>0, <1>2, <2>1
<1>5. CASE ~Mmad /\ ~GetTensorC /\ ~CopyToL0
  <2>1. /\ UNCHANGED <<Started, Ended, Multiplied, Written>>
        /\ \A b \in {0, 1} : mem'[<<"C", b>>] = mem[<<"C", b>>]
    BY <1>0, <1>5, ResultsUntouched
  <2>. HIDE DEF next
  <2>. QED  BY <1>0, <1>2, <2>1
<1>. QED  BY <1>1, <1>3, <1>4, <1>5

LEMMA OutDataStep ==
    ASSUME FlagInv, Next, CData, OutData
    PROVE  OutData'
<1>0. bufNum' = bufNum /\ PlaceInv /\ Written \in Nat
  BY StepCases, ResultsInOrder DEF FlagInv, CreditInv
<1>1. CASE GetTensorC
  <2>1. Written' = Written + 1 /\ out' = [out EXCEPT ![Written] = mem[<<"C", CHalf(Written)>>]]
    BY <1>0, <1>1, GetTensorCCounts DEF GetTensorC, Written
  <2>2. Written \in Blocks /\ mem[<<"C", CHalf(Written)>>] = Expected[bufNum][Written]
    BY <1>1, BlockIsWhole
  <2>3. out' = [out EXCEPT ![Written] = Expected[bufNum][Written]]
    BY <2>1, <2>2
  <2>4. \A c \in Blocks : c \in Int
    BY DEF Blocks
  <2>5. DOMAIN out' = Blocks
    BY <2>3 DEF OutData
  <2>6. ASSUME NEW c \in Blocks
        PROVE  out'[c] = IF c < Written' THEN Expected[bufNum][c] ELSE <<>>
    BY <1>0, <2>1, <2>3, <2>4 DEF OutData
  <2>. QED  BY <1>0, <2>5, <2>6, ResultDataNext
<1>2. CASE ~GetTensorC
  <2>1. Written' = Written /\ out' = out
    <3>1. CASE CopyToL0
      BY <1>0, <3>1, CopyToL0Counts DEF CopyToL0
    <3>2. CASE Mmad
      BY <1>0, <3>2, MmadCounts DEF Mmad
    <3>3. CASE ~CopyToL0 /\ ~Mmad
      BY <1>0, <1>2, <3>3, ResultsUntouched
    <3>. QED  BY <3>1, <3>2, <3>3
  <2>. QED  BY <1>0, <2>1, ResultDataNext DEF OutData
<1>. QED  BY <1>1, <1>2
-----------------------------------------------------------------------------
(* The invariant of the memories, and what follows from it.                *)
KernelInv == FlagInv /\ LoadedInv /\ ResultInv

LEMMA DataAtTheStart ==
    ASSUME Init
    PROVE  LoadedInv /\ ResultInv
<1>0. /\ FlagInv /\ PlaceInv /\ bufNum \in BufNums
      /\ ALoaded = 0 /\ BLoaded = 0 /\ Released = 0 /\ Copied = 0
      /\ Multiplied = 0 /\ Started = 0 /\ Ended = 0 /\ Written = 0
      /\ Group(0) = 0 /\ Begun(0) = 0
      /\ \A v \in SubBlocks : Piece(v, "MTE2") = 0 /\ Piece(v, "V") = 0 /\ Piece(v, "MTE3") = 0
  BY AtTheStart, FlagsAtTheStart DEF FlagInv, CreditInv, PlaceInv, VectorPipes
<1>1. \A loc \in Locations : loc[1] # "C" => mem[loc] = Empty
  BY DEF Init
<1>2. \A m, B : (\A b \in DOMAIN m : m[b] = Empty) => Stored(m, 0, 0, B)
  BY DEF Stored, Holds, Known
<1>3. L1AData
  <2>1. \A b \in Buffers : <<"L1A", b>> \in Locations
    BY <1>0, LocationNames
  <2>2. \A b \in DOMAIN Cells("L1A", Buffers) : Cells("L1A", Buffers)[b] = Empty
    BY <1>1, <2>1 DEF Cells
  <2>. QED  BY <1>0, <1>2, <2>2 DEF L1AData
<1>4. ScalesData
  <2>1. \A kind \in {"SCALEA", "SCALEB"}, b \in {0, 1} : <<kind, b>> \in Locations
    BY <1>0, LocationNames
  <2>2. \A kind \in {"SCALEA", "SCALEB"} :
          \A b \in DOMAIN Cells(kind, {0, 1}) : Cells(kind, {0, 1})[b] = Empty
    BY <1>1, <2>1 DEF Cells
  <2>. QED  BY <1>0, <1>2, <2>2 DEF ScalesData, ScaleData
<1>5. \A v \in SubBlocks : UbData(v)
  BY <1>0 DEF UbData, Holds
<1>6. Window /\ WeightData
  BY <1>0 DEF Window, WeightData
<1>7. WeightKnown
  BY <1>0, <1>1, L1BNames DEF WeightKnown
<1>8. L0Data /\ CData
  BY <1>0 DEF L0Data, CData
<1>9. OutData
  BY <1>0 DEF OutData, Init, Blocks
<1>. QED  BY <1>3, <1>4, <1>5, <1>6, <1>7, <1>8, <1>9 DEF LoadedInv, ResultInv

LEMMA DataUnchanged ==
    ASSUME FlagInv, LoadedInv, ResultInv, UNCHANGED vars
    PROVE  LoadedInv' /\ ResultInv'
<1>0. /\ bufNum' = bufNum /\ mem' = mem /\ out' = out
      /\ UNCHANGED <<ALoaded, BLoaded, Released, Copied, Multiplied, Started, Ended, Written>>
      /\ \A v, p : Piece(v, p)' = Piece(v, p)
  BY CountsKept DEF vars, Piece
<1>1. L1AData' /\ ScalesData'
  BY <1>0, TileDataNext DEF LoadedInv, L1AData, ScalesData, ScaleData, NextScaleData, Cells, NextCells
<1>2. ASSUME NEW v \in SubBlocks
      PROVE  UbData(v)'
  BY <1>0, UbDataNext DEF LoadedInv, UbData, CellsOf, NextCellsOf
<1>3. Window' /\ WeightData' /\ WeightKnown'
  BY <1>0, WeightDataNext DEF LoadedInv, Window, WeightData, WeightKnown
<1>4. LoadedInv'
  <2>1. (\A v \in SubBlocks : UbData(v))'
    BY <1>2 DEF SubBlocks
  <2>. QED  BY <1>1, <1>3, <2>1 DEF LoadedInv
<1>5. \A j : NextMade(j) = Made(j)
  BY <1>0 DEF NextMade, Made
<1>6. L0Data' /\ CData' /\ OutData'
  BY <1>0, <1>5, ResultDataNext DEF ResultInv, L0Data, CData, OutData, DoneOf
<1>. QED  BY <1>4, <1>6 DEF ResultInv

LEMMA KernelInvariant == Spec => []KernelInv
<1>1. Init => KernelInv
  BY FlagsAtTheStart, DataAtTheStart DEF KernelInv
<1>2. KernelInv /\ [Next]_vars => KernelInv'
  <2>. SUFFICES ASSUME KernelInv, [Next]_vars
                PROVE  KernelInv'
    OBVIOUS
  <2>1. FlagInv /\ FlagInv' /\ LoadedInv /\ ResultInv
    BY FlagsKept DEF KernelInv
  <2>2. CASE Next
    <3>1. LoadedInv'
      BY <2>1, <2>2, LoadedStep
    <3>2. L0Data' /\ CData' /\ OutData'
      BY <2>1, <2>2, L0DataStep, CDataStep, OutDataStep DEF ResultInv
    <3>. QED  BY <2>1, <3>1, <3>2 DEF KernelInv, ResultInv
  <2>3. CASE UNCHANGED vars
    BY <2>1, <2>3, DataUnchanged DEF KernelInv
  <2>. QED  BY <2>2, <2>3
<1>. QED  BY <1>1, <1>2, PTL DEF Spec

\* No transfer overwrites an L1 tile, its scales, an L0 step or a finished accumulator that its
\* reader still needs: the ring of every memory, with the events and cross-core flags of its
\* two ends, is as deep as the code takes it to be, for every shape.
THEOREM KernelLosesNothing == Spec => NothingLost
<1>1. KernelInv /\ KernelInv' /\ [Next]_vars
        => [\A loc \in Locations : mem'[loc] # mem[loc] => ~StillNeeded(loc)]_vars
  BY NothingLostStep DEF KernelInv
<1>. QED  BY <1>1, KernelInvariant, PTL DEF Spec, NothingLost

LEMMA WritesRightBlock ==
    ASSUME KernelInv, GetTensorC, bufNum' = bufNum
    PROVE  Blocked!BlockedNext
<1>. DEFINE b == Written
<1>0. /\ FlagInv /\ CData /\ OutData /\ bufNum \in BufNums /\ b \in Nat
  BY ResultsInOrder DEF KernelInv, ResultInv, FlagInv, CreditInv, PlaceInv
<1>1. b \in Blocks /\ mem[<<"C", CHalf(b)>>] = Expected[bufNum][b]
  BY <1>0, BlockIsWhole
<1>2. out' = [out EXCEPT ![b] = Expected[bufNum][b]]
  <2>1. out' = [out EXCEPT ![b] = mem[<<"C", CHalf(b)>>]]
    BY DEF GetTensorC, Written
  <2>. QED  BY <1>1, <2>1
<1>3. ASSUME NEW c \in Blocks
      PROVE  out[c] = <<>> <=> b <= c
  <2>1. c \in Int /\ out[c] = IF c < b THEN Expected[bufNum][c] ELSE <<>>
    BY <1>0 DEF Blocks, OutData
  <2>2. Expected[bufNum][c] # <<>>
    BY <1>0, WholeBlock
  <2>. QED  BY <1>0, <2>1, <2>2
<1>. HIDE DEF b
<1>4. Blocked!WriteBlock(b)
  BY <1>2, <1>3 DEF Blocked!WriteBlock, Blocked!NotWritten
<1>. QED  BY <1>1, <1>4 DEF Blocked!BlockedNext

\* Each block is written to global memory once, in block order, as the sum of the products of its
\* own tiles of A, weights, scales and bias, in order: the kernel implements BlockedMatmul for
\* every shape, with 1, 2 and 4 buffers (Iterate and GetTensorC of block_mmad_b_prologue_mx.h).
THEOREM KernelComputesBlocksInOrder == Spec => ComputesBlocksInOrder
<1>1. Init => Blocked!BlockedInit
  BY DEF Init, Blocked!BlockedInit, Blocked!NotWritten
<1>2. KernelInv /\ [Next]_vars => [Blocked!BlockedNext]_<<bufNum, out>>
  <2>. SUFFICES ASSUME KernelInv, [Next]_vars, ~UNCHANGED <<bufNum, out>>
                PROVE  Blocked!BlockedNext
    OBVIOUS
  <2>1. Next
    BY DEF vars
  <2>2. PlaceInv /\ bufNum' = bufNum
    BY <2>1, StepCases DEF KernelInv, FlagInv, CreditInv
  <2>3. GetTensorC
    BY <2>1, <2>2, ResultsUntouched DEF CopyToL0, Mmad
  <2>. QED  BY <2>2, <2>3, WritesRightBlock
<1>. QED  BY <1>1, <1>2, KernelInvariant, PTL DEF Spec, ComputesBlocksInOrder, Blocked!BlockedSpec
=============================================================================
