------------------------ MODULE WeightPrologueMatmul ------------------------
(***************************************************************************)
(* The mixed matmul kernel with a weight prologue: two vector cores (AIV)  *)
(* unpack 4-bit weights into the L1 buffers of one cube core (AIC), which  *)
(* multiplies them.  Every core is a set of in-order pipes; the code       *)
(* orders their work with hardware events (SetFlag/WaitFlag) and, between  *)
(* cores, with CrossCoreSetFlag/CrossCoreWaitFlag.                         *)
(*                                                                         *)
(* A pipe executes its instructions one at a time, in program order.  An   *)
(* action is one data transfer with the waits in front of it and the sets  *)
(* behind it.  A flag counts the sets not yet waited for.  A memory holds  *)
(* the identity of the data last written to it, so a transfer that runs    *)
(* too early or too late carries the wrong identity on to the result.      *)
(***************************************************************************)
EXTENDS Integers, Sequences, FiniteSets

CONSTANTS
    NumBlocks,    \* output blocks this core group computes
    KSize,        \* length of the K axis
    KL1Size,      \* length of one L1 tile on the K axis
    KL0Size,      \* length of one L0 step on the K axis
    ScaleFactor,  \* L1 tiles that share one load of the scales
    BufNums,      \* the numbers of L1 buffers to examine
    UbRounds,     \* UB rounds per tile when one AIV unpacks a whole tile
    WholeTiles,   \* K indices of the tiles that fit one AIV's UB: both AIVs unpack all of it
    HasBias,      \* hasBias_
    BiasAivs,     \* with four buffers, the AIVs whose part of the bias is not empty
    Empty         \* what a buffer holds before anything is written to it

ASSUME ShapeAssumption ==
    /\ {NumBlocks, KSize, KL1Size, KL0Size, ScaleFactor, UbRounds} \subseteq Nat \ {0}
    /\ KL0Size <= KL1Size
    /\ BufNums \subseteq {1, 2, 4} /\ BufNums # {}
    /\ HasBias \in BOOLEAN
    /\ BiasAivs \in {{0}, {0, 1}}

VARIABLES bufNum,  \* L1 buffers of this kernel: l1BufNum_
          aic,     \* next tile and step of each pipe of the cube core
          aiv,     \* pieces of weight each pipe of each vector core has dealt with
          drained, \* pipes that are through the destructors
          flag,    \* sets not yet waited for, of every event and cross-core flag
          mem,     \* what each on-chip buffer holds
          out      \* the result of each block in global memory
vars == <<bufNum, aic, aiv, drained, flag, mem, out>>

-----------------------------------------------------------------------------
(* Shapes and indices.                                                     *)
CeilDiv(a, b) == (a + b - 1) \div b

Quad     == bufNum = 4
KTiles   == CeilDiv(KSize, KL1Size)
NumTiles == NumBlocks * KTiles
Blocks   == 0 .. NumBlocks - 1
SubBlocks == {0, 1}

BlockOf(t) == t \div KTiles
KOf(t)     == t % KTiles
L1Buf(t)   == t % bufNum                     \* l1BufIdx_ is never reset between blocks
KL1Len(t)  == IF KSize - KOf(t) * KL1Size < KL1Size THEN KSize - KOf(t) * KL1Size ELSE KL1Size
StepK(t)   == CeilDiv(KL1Len(t), KL0Size)

\* The loop adds kL0Idx to kFractalIdx instead of setting it: 0, 1, 3, 6, ...
KFractal(t, i) == (KOf(t) * KL1Size) \div KL0Size + (i * (i + 1)) \div 2
L0Buf(t, i)    == KFractal(t, i) % 2
CHalf(b)       == b % 2                      \* madLoopIdx_ & 1

OpensGroup_OncePerBlock(t) == KOf(t) = 0
OpensGroup(t)  == KOf(t) % ScaleFactor = 0
ClosesGroup(t) == (KOf(t) + 1) % ScaleFactor = 0 \/ KOf(t) = KTiles - 1
Group(t)       == BlockOf(t) * CeilDiv(KTiles, ScaleFactor) + KOf(t) \div ScaleFactor
ScaleBuf(t)    == Group(t) % 2

\* The pieces of weight of AIV v: the tiles it takes and the UB rounds of each.
Serves(v, t) ==
    CASE Quad       -> TRUE
      [] bufNum = 2 -> L1Buf(t) = v
      [] bufNum = 1 -> v = 0
Rounds       == IF Quad THEN 1 ELSE UbRounds
Tile(v, j)   == IF bufNum = 2 THEN 2 * (j \div Rounds) + v ELSE j \div Rounds
Round(j)     == j % Rounds
NumPieces    == [v \in SubBlocks |-> Rounds * Cardinality({t \in 0 .. NumTiles - 1 : Serves(v, t)})]
UbBuf(j)     == j % bufNum

PartsFor(n) == IF n = 4 THEN SubBlocks ELSE 0 .. UbRounds - 1
Parts == PartsFor(bufNum)
PartsOf(v, j) ==
    CASE ~Quad                             -> {Round(j)}
      [] Quad /\ KOf(Tile(v, j)) \in WholeTiles    -> SubBlocks
      [] Quad /\ KOf(Tile(v, j)) \notin WholeTiles -> {v}
BiasPartsFor(n) == IF n = 4 THEN BiasAivs ELSE {0}
BiasParts == BiasPartsFor(bufNum)
\* calcBias_: the bias goes with the first piece of the block's first tile.
BiasPartsOf(v, j) ==
    IF HasBias /\ KOf(Tile(v, j)) = 0 /\ Round(j) = 0
    THEN IF Quad THEN BiasAivs \cap {v} ELSE {0}
    ELSE {}

\* The AIVs the cube core pairs a buffer with.
Partners_AlwaysBoth(buf) == SubBlocks
Partners(buf) ==
    CASE Quad       -> SubBlocks
      [] bufNum = 2 -> {buf}
      [] bufNum = 1 -> {0}

-----------------------------------------------------------------------------
(* Flags and memories.                                                     *)
MaxBufNum == CHOOSE n \in BufNums : \A k \in BufNums : k <= n
AicFlags ==
    ({"MTE1_MTE2"} \X (0 .. MaxBufNum - 1)) \cup ({"MTE2_MTE1", "M_FIX"} \X {0})
    \cup ({"SCALEA_FREE", "SCALEB_FREE", "M_MTE1", "MTE1_M", "FIX_M"} \X {0, 1})
AivFlags ==
    ({"MTE2_V", "V_MTE2", "V_MTE3", "MTE3_V"} \X SubBlocks \X (0 .. MaxBufNum - 1))
CrossFlags == {"CUBE_FREE", "VEC_READY"} \X SubBlocks
Flags == AicFlags \cup AivFlags \cup CrossFlags

CubeFree(v) == <<"CUBE_FREE", v>>      \* flag SYNC_AIV_AIC_FLAG, set by the AIC
VecReady(v) == <<"VEC_READY", v>>      \* flag 1, set by the AIVs

Sync(waits, sets) ==
    /\ \A f \in waits : flag[f] > 0
    /\ flag' = [f \in Flags |-> flag[f] - (IF f \in waits THEN 1 ELSE 0)
                                        + (IF f \in sets THEN 1 ELSE 0)]

Locations ==
    ({"L1A"} \X (0 .. MaxBufNum - 1))
    \cup ({"L1B"} \X (0 .. MaxBufNum - 1) \X (SubBlocks \cup 0 .. UbRounds - 1))
    \cup ({"BIAS"} \X (0 .. MaxBufNum - 1) \X {0, 1})
    \cup ({"SCALEA", "SCALEB", "L0", "C"} \X {0, 1})
    \cup ({"UBIN", "UBOUT"} \X SubBlocks \X (0 .. MaxBufNum - 1))

Put(where, what) == mem' = [loc \in Locations |-> IF loc \in where THEN what ELSE mem[loc]]
When(condition, set) == IF condition THEN set ELSE {}

AtTile(pipe)  == aic[pipe].tile
AtStep(pipe)  == aic[pipe].step
Running(pipe) == aic[pipe].tile < NumTiles
Advance(pipe, steps) ==
    LET at == aic[pipe] IN
    aic' = [aic EXCEPT ![pipe] = IF at.step + 1 < steps THEN [at EXCEPT !.step = @ + 1]
                                 ELSE [tile |-> at.tile + 1, step |-> 0]]

Credits_OneEach == [v \in SubBlocks |-> 1]
Credits == [v \in SubBlocks |-> Cardinality({b \in 0 .. bufNum - 1 : v \in Partners(b)})]

Init ==
    /\ bufNum \in BufNums
    /\ aic = [p \in {"MTE2", "MTE1", "M", "FIX"} |-> [tile |-> 0, step |-> 0]]
    /\ aiv = [v \in SubBlocks |-> [p \in {"MTE2", "V", "MTE3"} |-> 0]]
    /\ drained = {}
    /\ flag = [f \in Flags |->
                 IF \/ f[1] \in {"SCALEA_FREE", "SCALEB_FREE", "M_MTE1", "FIX_M"}
                    \/ f[1] = "MTE1_MTE2" /\ f[2] < bufNum
                 THEN 1
                 ELSE IF f[1] = "CUBE_FREE" THEN Credits[f[2]] ELSE 0]
    /\ mem = [loc \in Locations |-> IF loc[1] = "C" THEN <<>> ELSE Empty]
    /\ out = [b \in Blocks |-> <<>>]

-----------------------------------------------------------------------------
(* The cube core.  A flag has one waiting pipe, so the waits in front of a *)
(* transfer can be taken together.                                         *)

\* MTE2: operator() and GetAL1, the scale of A with the first tile of a group, then A.
LoadA ==
    LET t == AtTile("MTE2") IN
    /\ Running("MTE2") /\ AtStep("MTE2") = 0
    /\ Sync({<<"MTE1_MTE2", L1Buf(t)>>}
              \cup When(OpensGroup(t), {<<"SCALEA_FREE", ScaleBuf(t)>>}), {})
    /\ mem' = [mem EXCEPT ![<<"L1A", L1Buf(t)>>] = t,
                          ![<<"SCALEA", ScaleBuf(t)>>] = IF OpensGroup(t) THEN Group(t) ELSE @]
    /\ Advance("MTE2", 2)
    /\ UNCHANGED <<aiv, drained, out>>

\* MTE2: GetBL1, the scale of B, and the event that hands the tile to MTE1.
LoadScaleB ==
    LET t == AtTile("MTE2") IN
    /\ Running("MTE2") /\ AtStep("MTE2") = 1
    /\ Sync(When(OpensGroup(t), {<<"SCALEB_FREE", ScaleBuf(t)>>}), {<<"MTE2_MTE1", 0>>})
    /\ Put(When(OpensGroup(t), {<<"SCALEB", ScaleBuf(t)>>}), Group(t))
    /\ Advance("MTE2", 2)
    /\ UNCHANGED <<aiv, drained, out>>

\* What WaitForVector and WaitFlag<MTE2_MTE1> wait for before the first copy of a tile.
TileReady(t) == {VecReady(v) : v \in Partners(L1Buf(t))} \cup {<<"MTE2_MTE1", 0>>}

\* What NotifyVector and PostProcess set behind the last copy of a tile.
TileReleased_NotifyingOneAiv(t) ==
    {CubeFree(L1Buf(t) % 2)} \cup {<<"MTE1_MTE2", L1Buf(t)>>}
    \cup When(ClosesGroup(t), {<<"SCALEA_FREE", ScaleBuf(t)>>, <<"SCALEB_FREE", ScaleBuf(t)>>})
TileReleased(t) ==
    {CubeFree(v) : v \in Partners(L1Buf(t))} \cup {<<"MTE1_MTE2", L1Buf(t)>>}
    \cup When(ClosesGroup(t), {<<"SCALEA_FREE", ScaleBuf(t)>>, <<"SCALEB_FREE", ScaleBuf(t)>>})

\* What MTE1 finds in L1 when it copies a step of tile t to L0 and the bias table.
Operands(t, i) ==
    [a      |-> mem[<<"L1A", L1Buf(t)>>],
     b      |-> [p \in Parts |-> mem[<<"L1B", L1Buf(t), p>>]],
     scaleA |-> mem[<<"SCALEA", ScaleBuf(t)>>],
     scaleB |-> mem[<<"SCALEB", ScaleBuf(t)>>],
     step   |-> i,
     bias   |-> IF HasBias THEN [p \in BiasParts |-> mem[<<"BIAS", L1Buf(t), p>>]] ELSE <<>>]

CopyToL0_NotWaitingForMmad ==
    LET t == AtTile("MTE1")
        i == AtStep("MTE1")
        p == L0Buf(t, i) IN
    /\ Running("MTE1")
    /\ Sync(When(i = 0, TileReady(t)),
            {<<"MTE1_M", p>>} \cup When(i = StepK(t) - 1, TileReleased(t)))
    /\ Put({<<"L0", p>>}, Operands(t, i))
    /\ Advance("MTE1", StepK(t))
    /\ UNCHANGED <<aiv, drained, out>>

\* MTE1: one round of the loop of Iterate, CopyAMatrixL1ToL0A, CopyBMatrixL1ToL0B and
\* CopyBiasL1ToBT, with PostProcess after the last.
CopyToL0 ==
    LET t == AtTile("MTE1")
        i == AtStep("MTE1")
        p == L0Buf(t, i) IN
    /\ Running("MTE1")
    /\ Sync({<<"M_MTE1", p>>} \cup When(i = 0, TileReady(t)),
            {<<"MTE1_M", p>>} \cup When(i = StepK(t) - 1, TileReleased(t)))
    /\ Put({<<"L0", p>>}, Operands(t, i))
    /\ Advance("MTE1", StepK(t))
    /\ UNCHANGED <<aiv, drained, out>>

\* Only the block's first product takes the bias; it also clears the accumulator.
Product(t, i, operands) ==
    IF KFractal(t, i) = 0 THEN operands ELSE [operands EXCEPT !.bias = <<>>]
Accumulate(t, i, operands, acc) ==
    IF KOf(t) = 0 /\ i = 0 THEN <<Product(t, i, operands)>>
                           ELSE Append(acc, Product(t, i, operands))

Mmad_NotWaitingForFixpipe ==
    LET t == AtTile("M")
        i == AtStep("M")
        p == L0Buf(t, i)
        c == CHalf(BlockOf(t)) IN
    /\ Running("M")
    /\ Sync({<<"MTE1_M", p>>},
            {<<"M_MTE1", p>>}
              \cup When(KOf(t) = KTiles - 1 /\ i = StepK(t) - 1, {<<"M_FIX", 0>>}))
    /\ Put({<<"C", c>>}, Accumulate(t, i, mem[<<"L0", p>>], mem[<<"C", c>>]))
    /\ Advance("M", StepK(t))
    /\ UNCHANGED <<aiv, drained, out>>

\* M: Mmad; the first of a block waits for its half of L0C, the last hands it to FIX.
Mmad ==
    LET t == AtTile("M")
        i == AtStep("M")
        p == L0Buf(t, i)
        c == CHalf(BlockOf(t)) IN
    /\ Running("M")
    /\ Sync({<<"MTE1_M", p>>} \cup When(KFractal(t, i) = 0, {<<"FIX_M", c>>}),
            {<<"M_MTE1", p>>}
              \cup When(KOf(t) = KTiles - 1 /\ i = StepK(t) - 1, {<<"M_FIX", 0>>}))
    /\ Put({<<"C", c>>}, Accumulate(t, i, mem[<<"L0", p>>], mem[<<"C", c>>]))
    /\ Advance("M", StepK(t))
    /\ UNCHANGED <<aiv, drained, out>>

\* FIX: GetTensorC, counted in blocks.
GetTensorC ==
    LET b == AtTile("FIX") IN
    /\ b < NumBlocks
    /\ Sync({<<"M_FIX", 0>>}, {<<"FIX_M", CHalf(b)>>})
    /\ out' = [out EXCEPT ![b] = mem[<<"C", CHalf(b)>>]]
    /\ Advance("FIX", 1)
    /\ UNCHANGED <<aiv, drained, mem>>

-----------------------------------------------------------------------------
(* The vector cores.  ProcessL1, one action per pipe; idx_ counts pieces.  *)
Piece(v, pipe) == aiv[v][pipe]
HasPiece(v, pipe) == Piece(v, pipe) < NumPieces[v]
NextPiece(v, pipe) == aiv' = [aiv EXCEPT ![v][pipe] = @ + 1]

CopyInWeight(v) ==
    LET j == Piece(v, "MTE2")
        u == UbBuf(j) IN
    /\ HasPiece(v, "MTE2")
    /\ Sync(When(j >= bufNum, {<<"V_MTE2", v, u>>}), {<<"MTE2_V", v, u>>})
    /\ Put({<<"UBIN", v, u>>}, <<Tile(v, j), Round(j)>>)
    /\ NextPiece(v, "MTE2")
    /\ UNCHANGED <<aic, drained, out>>

AntiQuantCompute(v) ==
    LET j == Piece(v, "V")
        u == UbBuf(j) IN
    /\ HasPiece(v, "V")
    /\ Sync({<<"MTE2_V", v, u>>} \cup When(j >= bufNum, {<<"MTE3_V", v, u>>}),
            {<<"V_MTE3", v, u>>, <<"V_MTE2", v, u>>})
    /\ Put({<<"UBOUT", v, u>>}, mem[<<"UBIN", v, u>>])
    /\ NextPiece(v, "V")
    /\ UNCHANGED <<aic, drained, out>>

\* What piece j of AIV v leaves in L1: its weights, and the bias of its block.
CopyVecOut2L1(v, j) ==
    LET buf   == L1Buf(Tile(v, j))
        piece == mem[<<"UBOUT", v, UbBuf(j)>>] IN
    mem' = [loc \in Locations |->
              IF loc \in {<<"L1B", buf, p>> : p \in PartsOf(v, j)} THEN piece
              ELSE IF loc \in {<<"BIAS", buf, p>> : p \in BiasPartsOf(v, j)}
                     THEN BlockOf(piece[1])
              ELSE mem[loc]]

\* MTE3: WaitForCube before a tile's first piece, NotifyCube after its last.
CopyOutWeight(v) ==
    LET j == Piece(v, "MTE3")
        u == UbBuf(j) IN
    /\ HasPiece(v, "MTE3")
    /\ Sync({<<"V_MTE3", v, u>>} \cup When(Round(j) = 0, {CubeFree(v)}),
            {<<"MTE3_V", v, u>>} \cup When(Round(j) = Rounds - 1, {VecReady(v)}))
    /\ CopyVecOut2L1(v, j)
    /\ NextPiece(v, "MTE3")
    /\ UNCHANGED <<aic, drained, out>>

-----------------------------------------------------------------------------
(* The destructors: each pipe waits for what was left set.                 *)
Drain(pipe, ready, waits) ==
    /\ pipe \notin drained /\ ready
    /\ Sync(waits, {})
    /\ drained' = drained \cup {pipe}
    /\ UNCHANGED <<aic, aiv, mem, out>>

DrainCube ==
    \/ Drain(<<"AIC", "MTE2">>, ~Running("MTE2"),
             ({"MTE1_MTE2"} \X (0 .. bufNum - 1)) \cup ({"SCALEA_FREE", "SCALEB_FREE"} \X {0, 1}))
    \/ Drain(<<"AIC", "MTE1">>, ~Running("MTE1"), {"M_MTE1"} \X {0, 1})
    \/ Drain(<<"AIC", "M">>, ~Running("M"), {"FIX_M"} \X {0, 1})

\* The UB buffers ~BlockPrologue thinks an AIV has used; idx_ is the last piece's number.
UsedUb(v) ==
    LET lastPiece == NumPieces[v] - 1 IN
    CASE Quad  -> {u \in 0 .. bufNum - 1 : u <= lastPiece}
      [] ~Quad -> {u \in 0 .. bufNum - 1 : lastPiece > 0 \/ (lastPiece = 0 /\ u = 0)}

DrainVector(v) ==
    \/ Drain(<<"MTE2", v>>, ~HasPiece(v, "MTE2"), {<<"V_MTE2", v, u>> : u \in UsedUb(v)})
    \/ Drain(<<"V", v>>, ~HasPiece(v, "V"), {<<"MTE3_V", v, u>> : u \in UsedUb(v)})

\* WaitForCube of ~BlockPrologue: four times with four buffers, else once, by AIV 0.
FinalWaits_NoneByAiv0(v) == IF Quad THEN 4 ELSE 0
FinalWaits(v) == IF Quad THEN 4 ELSE IF v = 0 THEN 1 ELSE 0
DrainCredits(v) ==
    /\ <<"MTE3", v>> \notin drained /\ ~HasPiece(v, "MTE3")
    /\ flag[CubeFree(v)] >= FinalWaits(v)
    /\ flag' = [flag EXCEPT ![CubeFree(v)] = @ - FinalWaits(v)]
    /\ drained' = drained \cup {<<"MTE3", v>>}
    /\ UNCHANGED <<aic, aiv, mem, out>>

-----------------------------------------------------------------------------
Finished == AtTile("FIX") = NumBlocks /\ Cardinality(drained) = 9

CubeNext == LoadA \/ LoadScaleB \/ CopyToL0 \/ Mmad \/ GetTensorC \/ DrainCube
VectorNext(v) ==
    CopyInWeight(v) \/ AntiQuantCompute(v) \/ CopyOutWeight(v) \/ DrainVector(v) \/ DrainCredits(v)
Next == (CubeNext \/ (\E v \in SubBlocks : VectorNext(v))) /\ UNCHANGED bufNum

Spec == Init /\ [][Next]_vars
\* Some pipe that can execute does: the weakest fairness hardware gives, and enough because
\* every step brings the kernel nearer to its end.
FairSpec == Spec /\ WF_vars(Next)

-----------------------------------------------------------------------------
(* Properties.                                                             *)

\* Types, and the positions stay within the kernel's work.
TypeOK ==
    /\ \A p \in DOMAIN aic : aic[p].tile \in 0 .. NumTiles /\ aic[p].step \in Nat
    /\ \A v \in SubBlocks : \A p \in DOMAIN aiv[v] : aiv[v][p] \in 0 .. NumPieces[v]
    /\ flag \in [Flags -> Nat]
    /\ DOMAIN mem = Locations

\* Every L1 buffer paired with an AIV is in exactly one place: free for it, being filled,
\* ready for the cube core, being read, or taken back by the destructor (flags 1 and 2 of
\* WaitForCube/NotifyCube and WaitForVector/NotifyVector).
Filling(v) == IF Round(Piece(v, "MTE3")) # 0 THEN 1 ELSE 0
Reading(v) ==
    IF Running("MTE1") /\ AtStep("MTE1") > 0 /\ v \in Partners(L1Buf(AtTile("MTE1"))) THEN 1 ELSE 0
TakenBack(v) == IF <<"MTE3", v>> \in drained THEN FinalWaits(v) ELSE 0
CreditsConserved ==
    \A v \in SubBlocks :
        flag[CubeFree(v)] + flag[VecReady(v)] + Filling(v) + Reading(v) + TakenBack(v) = Credits[v]

\* No buffer is overwritten while its reader still needs what it holds: an L1 tile until MTE1
\* has copied its last step, the scales until the group's last tile, an L0 step until Mmad
\* has read it, an accumulator until FIX has written it out.
StillNeeded(loc) ==
    LET held == mem[loc] IN
    CASE held = Empty -> FALSE
      [] held # Empty /\ loc[1] = "L1A" -> AtTile("MTE1") <= held
      [] held # Empty /\ loc[1] = "L1B" -> AtTile("MTE1") <= held[1]
      [] held # Empty /\ loc[1] \in {"SCALEA", "SCALEB"} ->
           Running("MTE1") /\ Group(AtTile("MTE1")) <= held
      [] held # Empty /\ loc[1] = "L0" -> flag[<<"MTE1_M", loc[2]>>] > 0
      [] held # Empty /\ loc[1] = "C" -> CHalf(AtTile("FIX")) = loc[2] /\ flag[<<"M_FIX", 0>>] > 0
      [] OTHER -> FALSE
NothingLost == [][\A loc \in Locations : mem'[loc] # mem[loc] => ~StillNeeded(loc)]_vars

\* The destructors leave no event and no cross-core flag set for the next kernel on the core,
\* except that with two buffers AIV 1 never takes back the credit the constructor gave it.
Residue(f) == IF bufNum = 2 /\ f = CubeFree(1) THEN 1 ELSE 0
FlagsConsumed == Finished => \A f \in Flags : flag[f] = Residue(f)

\* The kernel ends: no pipe waits for ever for a flag nobody sets.
Completes == <>Finished

-----------------------------------------------------------------------------
(* What a block's result must be, and the abstract specification.          *)
StepsPerTile == CeilDiv(KL1Size, KL0Size)
StepsOf(b) == (KTiles - 1) * StepsPerTile + StepK(b * KTiles + KTiles - 1)
Expected ==
    [n \in BufNums |-> [b \in Blocks |-> [i \in 1 .. StepsOf(b) |->
       LET t == b * KTiles + (i - 1) \div StepsPerTile IN
       [a |-> t, b |-> [p \in PartsFor(n) |-> <<t, IF n = 4 THEN 0 ELSE p>>],
        scaleA |-> Group(t), scaleB |-> Group(t), step |-> (i - 1) % StepsPerTile,
        bias |-> IF HasBias /\ i = 1 THEN [p \in BiasPartsFor(n) |-> b] ELSE <<>>]]]]

\* The kernel writes each block once, in order, each from all its K tiles with their own
\* weights, scales and bias, multiplied in order: it implements BlockedMatmul.
Blocked == INSTANCE BlockedMatmul WITH kernel <- bufNum
ComputesBlocksInOrder == Blocked!BlockedSpec
=============================================================================
