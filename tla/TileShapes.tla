----------------------------- MODULE TileShapes ------------------------------
(***************************************************************************)
(* Which tiles a matmul may be launched with.  The host checks them twice  *)
(* (DoCheckArgs, then CanImplement of the builder) and chooses the number  *)
(* of cores (DoGetBlockNum); the kernel asserts when it is instantiated    *)
(* that they suit it (static_assert of each BlockMmad).  The three look at *)
(* different things: type of the result or of its accumulator, K of A or K *)
(* of B.  A tile of L1 is <<M, N, K>> or <<M, N, Ka, Kb>>.                 *)
(***************************************************************************)
EXTENDS Integers, Sequences

CONSTANTS Plans,  \* problem, tiles, types and kind of a matmul, and the number of cores
          L1_SIZE, L0A_SIZE, L0B_SIZE, L0C_SIZE,
          MATMUL_MNK_ALIGN, MaxM, MaxN   \* granularity of tiles, limits of M and N

\* The host's limits of M and N keep an accumulator of 4 bytes in L0C; a device has a core.
ASSUME PlansAssumption ==
    /\ {L1_SIZE, L0A_SIZE, L0B_SIZE, L0C_SIZE, MaxM, MaxN} \subseteq Nat /\ MATMUL_MNK_ALIGN \in Nat \ {0}
    /\ 4 * MaxM * MaxN <= L0C_SIZE
    /\ \A p \in Plans :
         /\ p.l1 \in Seq(Nat) /\ Len(p.l1) \in {3, 4} /\ p.l0 \in Seq(Nat) /\ Len(p.l0) = 3
         /\ p.m \in Nat /\ p.n \in Nat /\ p.batch \in Nat /\ p.cores \in Nat \ {0}

VARIABLES plan,    \* the matmul examined, or Unplanned
          stage,   \* how far it has got
          blocks   \* the number of cores it is launched on
planVars == <<plan, stage, blocks>>

Unplanned == [kind |-> "none"]
DOUBLE_BUFFER_COUNT == 2
M(tile) == tile[1]
N(tile) == tile[2]
K(tile) == tile[3]
GetL1Kb(l1) == IF Len(l1) > 3 THEN l1[4] ELSE K(l1)

SizeOf(type) == IF type \in {"float", "int32"} THEN 4 ELSE IF type \in {"half", "bf16"} THEN 2 ELSE 1
\* GetMmDstType: what the cube unit accumulates in.
Accumulator(type) == IF type = "int8" THEN "int32" ELSE "float"

-----------------------------------------------------------------------------
(* The host.                                                               *)
DoCheckArgs_LargeM(p) ==
    IF M(p.l1) > 2 * MaxM \/ M(p.l0) > 2 * MaxM \/ N(p.l1) > MaxN \/ N(p.l0) > MaxN THEN "l1L0ErrorExceedsLimit"
    ELSE IF \E i \in 1 .. 3 : p.l1[i] % MATMUL_MNK_ALIGN # 0 \/ p.l0[i] % MATMUL_MNK_ALIGN # 0
    THEN "l1L0ErrorNotAlign"
    ELSE IF M(p.l1) # M(p.l0) \/ N(p.l1) # N(p.l0) THEN "l1MnL0MnErrorNotSame"
    ELSE IF K(p.l1) < K(p.l0) THEN "l1kErrorSmallerL0k"
    ELSE IF K(p.l1) % K(p.l0) # 0 THEN "l1kErrorL0kNotAlign" ELSE "success"
DoCheckArgs(p) ==
    IF M(p.l1) > MaxM \/ M(p.l0) > MaxM \/ N(p.l1) > MaxN \/ N(p.l0) > MaxN THEN "l1L0ErrorExceedsLimit"
    ELSE IF \E i \in 1 .. 3 : p.l1[i] % MATMUL_MNK_ALIGN # 0 \/ p.l0[i] % MATMUL_MNK_ALIGN # 0
    THEN "l1L0ErrorNotAlign"
    ELSE IF M(p.l1) # M(p.l0) \/ N(p.l1) # N(p.l0) THEN "l1MnL0MnErrorNotSame"
    ELSE IF K(p.l1) < K(p.l0) THEN "l1kErrorSmallerL0k"
    ELSE IF K(p.l1) % K(p.l0) # 0 THEN "l1kErrorL0kNotAlign" ELSE "success"

\* The last check divides by K of L0, which may be 0.
DividesByZero(p) == K(p.l0) = 0 /\ DoCheckArgs([p EXCEPT !.l0[3] = MATMUL_MNK_ALIGN]) \in
                                     {"success", "l1kErrorSmallerL0k", "l1kErrorL0kNotAlign"}

\* The three builders' checks; only BlockMmadBuilder knows of a bias.
TilesExceedMemory(p) ==
    \/ M(p.l0) * K(p.l0) * SizeOf(p.a) * DOUBLE_BUFFER_COUNT > L0A_SIZE
    \/ N(p.l0) * K(p.l0) * SizeOf(p.b) * DOUBLE_BUFFER_COUNT > L0B_SIZE
    \/ M(p.l0) * N(p.l0) * SizeOf(p.c) > L0C_SIZE
    \/ (M(p.l1) * K(p.l1) * SizeOf(p.a) + K(p.l1) * N(p.l1) * SizeOf(p.b)) * DOUBLE_BUFFER_COUNT > L1_SIZE
CanImplement(p) ==
    IF p.kind = "multiBlock" /\ p.a = "bf16" /\ p.hasBias THEN "bf16BiasErrorInvalidDataType"
    ELSE IF TilesExceedMemory(p) THEN "tileShapeErrorExceedsLimit" ELSE "success"
QuantCanImplement(p) == IF TilesExceedMemory(p) THEN "tileShapeErrorExceedsLimit" ELSE "success"
MxCanImplement(p)    == IF TilesExceedMemory(p) THEN "tileShapeErrorExceedsLimit" ELSE "success"
BuilderAccepts(p) ==
    "success" = IF p.kind = "multiBlock" THEN CanImplement(p)
                ELSE IF p.kind = "quant" THEN QuantCanImplement(p) ELSE MxCanImplement(p)

CeilDivOrAll(a, b) == IF b = 0 THEN a ELSE (a + b - 1) \div b
TilesOf(p) == CeilDivOrAll(p.m, M(p.l1)) * CeilDivOrAll(p.n, N(p.l1)) * (IF p.batch = 0 THEN 1 ELSE p.batch)
DoGetBlockNum(p) ==
    IF TilesOf(p) < p.cores THEN TilesOf(p)
    ELSE CeilDivOrAll(TilesOf(p), CeilDivOrAll(TilesOf(p), p.cores))
GetPerBlockNum(cores, mTileNum, nTileNum, batch) == CeilDivOrAll(mTileNum * nTileNum * batch, cores)

(* Tiles at the end of a dimension.                                        *)
GetTailNum(total, normal) ==
    IF normal = 0 THEN 0 ELSE IF total % normal = 0 THEN normal ELSE total % normal
IsMTail(mTileIdx, mTileNum) == (mTileIdx - (mTileNum - 1)) % mTileNum = 0
IsNTail(nTileIdx, nTileNum) == nTileIdx = nTileNum - 1
IsKTail(kTileIdx, kTileNum) == kTileIdx = kTileNum - 1
MMLcm(m, n) ==
    IF m = 0 \/ n = 0 THEN 0
    ELSE LET gcd[p \in (0 .. m + n) \X (0 .. m + n)] ==
                 IF p[2] = 0 THEN p[1] ELSE gcd[<<p[2], p[1] % p[2]>>]
         IN  (m * n) \div gcd[<<m, n>>]

-----------------------------------------------------------------------------
(* The kernel's assertions.                                                *)
IsSame(p, a, b, c)   == p.a = a /\ p.b = b /\ p.c = c
IsF16F16F16(p)       == IsSame(p, "half", "half", "half")
IsF16F16F32(p)       == IsSame(p, "half", "half", "float")
IsBf16Bf16Bf16(p)    == IsSame(p, "bf16", "bf16", "bf16")
IsBf16Bf16F32(p)     == IsSame(p, "bf16", "bf16", "float")
IsF32F32F32(p)       == IsSame(p, "float", "float", "float")
IsI8I8I32(p)         == IsSame(p, "int8", "int8", "int32")
IsF4(type)           == type \in {"fp4x2_e2m1", "fp4x2_e1m2"}
IsF8(type)           == type \in {"fp8_e5m2", "fp8_e4m3fn"}
IsFp4Fp4F32(p)       == IsF4(p.a) /\ IsF4(p.b) /\ p.c = "float"
IsFp8Fp8F32(p)       == IsF8(p.a) /\ IsF8(p.b) /\ p.c = "float"
IsHIF8HIF8F32(p)     == IsSame(p, "hifloat8", "hifloat8", "float")

IsTileShapeValid(p) ==
    LET ks == {K(p.l1), GetL1Kb(p.l1)} IN
    /\ \A x \in {M(p.l1), N(p.l1), M(p.l0), N(p.l0), K(p.l0)} \cup ks : x % MATMUL_MNK_ALIGN = 0
    /\ M(p.l1) = M(p.l0) /\ N(p.l1) = N(p.l0)
    /\ \A k \in ks : k >= K(p.l0) /\ (K(p.l0) = 0 \/ k % K(p.l0) = 0)
IsL1BufferValid(p) ==
    (M(p.l1) * K(p.l1) * SizeOf(p.a) + N(p.l1) * GetL1Kb(p.l1) * SizeOf(p.b)) * DOUBLE_BUFFER_COUNT <= L1_SIZE
IsL0BufferValid(p) ==
    /\ M(p.l0) * K(p.l0) * SizeOf(p.a) <= L0A_SIZE
    /\ N(p.l0) * K(p.l0) * SizeOf(p.b) <= L0B_SIZE
    /\ M(p.l0) * N(p.l0) * SizeOf(Accumulator(p.a)) <= L0C_SIZE

MultiBlockTypes(p) ==
    IsF16F16F16(p) \/ IsF16F16F32(p) \/ IsBf16Bf16Bf16(p) \/ IsBf16Bf16F32(p) \/ IsI8I8I32(p)
      \/ IsF32F32F32(p) \/ IsHIF8HIF8F32(p)
QuantTypes(p)    == IsFp8Fp8F32(p)
WithTileTypes(p) == IsFp8Fp8F32(p) \/ IsFp4Fp4F32(p)
TypesSupported(p) ==
    IF p.kind = "multiBlock" THEN MultiBlockTypes(p)
    ELSE IF p.kind = "quant" THEN QuantTypes(p) ELSE WithTileTypes(p)
TilesSupported(p) == IsTileShapeValid(p) /\ IsL1BufferValid(p) /\ IsL0BufferValid(p)

-----------------------------------------------------------------------------
PlanInit == plan = Unplanned /\ stage = "start" /\ blocks = 0

Plan ==
    /\ plan = Unplanned
    /\ plan' \in Plans
    /\ stage' = "planned"
    /\ UNCHANGED blocks

Advance(from, to) == stage = from /\ stage' = to /\ UNCHANGED plan
CheckArgs ==
    /\ stage = "planned" /\ ~DividesByZero(plan)
    /\ Advance("planned", IF DoCheckArgs(plan) = "success" THEN "checked" ELSE "refused")
    /\ UNCHANGED blocks
CheckArgsTraps ==
    /\ stage = "planned" /\ DividesByZero(plan)
    /\ Advance("planned", "trapped")
    /\ UNCHANGED blocks
CheckBuilder ==
    /\ stage = "checked"
    /\ Advance("checked", IF BuilderAccepts(plan) THEN "accepted" ELSE "refused")
    /\ UNCHANGED blocks
\* A kernel whose assertions fail does not exist.
LaunchPlan ==
    /\ stage = "accepted" /\ TypesSupported(plan) /\ TilesSupported(plan)
    /\ Advance("accepted", "launched")
    /\ blocks' = DoGetBlockNum(plan)

PlanNext == Plan \/ CheckArgs \/ CheckArgsTraps \/ CheckBuilder \/ LaunchPlan
PlanSpec == PlanInit /\ [][PlanNext]_planVars

-----------------------------------------------------------------------------
\* Two buffers of A and of B in L1 and in L0, and one of the accumulator.
BuffersFit(p) ==
    /\ 2 * (M(p.l1) * K(p.l1) * SizeOf(p.a) + N(p.l1) * GetL1Kb(p.l1) * SizeOf(p.b)) <= L1_SIZE
    /\ 2 * M(p.l0) * K(p.l0) * SizeOf(p.a) <= L0A_SIZE
    /\ 2 * N(p.l0) * K(p.l0) * SizeOf(p.b) <= L0B_SIZE
    /\ 4 * M(p.l0) * N(p.l0) <= L0C_SIZE

\* No core without work, and no more rounds than if all the cores were used.
GridIsTight(p) ==
    LET total == TilesOf(p)
        rounds == GetPerBlockNum(blocks, total, 1, 1)
    IN  /\ blocks <= p.cores
        /\ blocks > 0 => (blocks - 1) * rounds < total /\ total <= blocks * rounds
        /\ rounds = GetPerBlockNum(p.cores, total, 1, 1)

\* The tiles of a dimension, the one at its end with what is left, are the whole dimension; the
\* pattern of tiles over both repeats after MMLcm of them.
TilesMakeUp(size, tile) ==
    LET n == CeilDivOrAll(size, tile)
        sum[i \in 0 .. n] ==
            IF i = 0 THEN 0
            ELSE sum[i - 1] + (IF IsMTail(i - 1, n) /\ IsNTail(i - 1, n) /\ IsKTail(i - 1, n)
                               THEN GetTailNum(size, tile) ELSE tile)
    IN  n > 0 /\ tile > 0 => sum[n] = size
IsLeastCommonMultiple(l, m, n) ==
    m > 0 /\ n > 0 => {x \in 1 .. l : x % m = 0 /\ x % n = 0} = {l}

\* What the host accepts, the kernel's assertions accept too (with one K for A and B), although
\* the host looks at the type of the result and the kernel at its accumulator; what is launched
\* fits the device with every buffer doubled, and its cores share the tiles evenly and entirely.
AcceptedFits ==
    /\ stage \in {"accepted", "launched"} /\ Len(plan.l1) = 3 => TilesSupported(plan)
    /\ stage = "launched" =>
         /\ BuffersFit(plan)
         /\ GridIsTight(plan)
         /\ TilesMakeUp(plan.m, M(plan.l1)) /\ TilesMakeUp(plan.n, N(plan.l1))
         /\ LET m == CeilDivOrAll(plan.m, M(plan.l1)) n == CeilDivOrAll(plan.n, N(plan.l1))
            IN  IsLeastCommonMultiple(MMLcm(m, n), m, n)
=============================================================================
