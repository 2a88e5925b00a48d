---------------------------- MODULE TileCopyOut ----------------------------
(***************************************************************************)
(* The specialisations of Copy that take a result tile out of L0C: to      *)
(* global memory or to the UB of the vector cores, row by row (ND,         *)
(* ND_ALIGN) or in column blocks (NZ), for two devices.  Each operator is  *)
(* one specialisation: from the job (the whole result and its tiling) and  *)
(* the tile it yields the moves of the Fixpipe it issues, and CopyOut      *)
(* chooses the specialisation as the templates do.  The conversion of the  *)
(* element type (quantPre, the scales, the unit flag) moves no data and is *)
(* left out, but for the question which specialisation converts.           *)
(***************************************************************************)
EXTENDS TileLayouts

\* The tile's place in the job, in elements.
RowOf(j, t) == t.row * j.baseM
ColOf(j, t) == t.col * j.baseN

\* orgKc, when given, replaces orgN.
DimN(j) == IF j.kc # 0 THEN j.kc ELSE j.n
Aligned(j, x) == IF j.format = "ND_ALIGN" THEN CeilAlign(x, C0(j.size)) ELSE x

-----------------------------------------------------------------------------
(* CopyWithParams: the caller passes the tile's numbers and sizes.         *)
RowMajorOut(j, t, nSize) ==
    FixpipeRowMajor(RowOf(j, t) * Aligned(j, DimN(j)) + ColOf(j, t), nSize, t.height,
                    CeilAlign(t.height, Cube), Aligned(j, DimN(j)))

\* The stride of a column block, in rows of a fractal: above the tile, and the tile itself.
NzStride(j, t) ==
    ((j.m - t.height) * Cube * j.size) \div Block
    + (((t.height * Cube * 4) \div Block) * j.size) \div 4
NzOut(j, t) ==
    FixpipeNz(ColOf(j, t) * j.m + RowOf(j, t) * Cube, CeilDiv(t.width, Cube) * Cube, t.height,
              CeilAlign(t.height, Cube), NzStride(j, t) * C0(j.size))

ParamsND_910B(j, t)         == RowMajorOut(j, t, t.width)
ParamsNZ_910B(j, t)         == NzOut(j, t)
ParamsQuantND_910B(j, t)    == RowMajorOut(j, t, t.width)
ParamsQuantNZ_910B(j, t)    == NzOut(j, t)
\* On the 910_95 an aligned row is written out with its padding.
ParamsND_910_95(j, t)       == RowMajorOut(j, t, Aligned(j, t.width))
ParamsNZ_910_95(j, t)       == NzOut(j, t)
ParamsNDToUB(j, t)          == RowMajorOut(j, t, Aligned(j, t.width))
ParamsNZToUB(j, t)          == NzOut(j, t)
ParamsQuantND_910_95(j, t)  == RowMajorOut(j, t, t.width)
ParamsQuantNZ_910_95(j, t)  == NzOut(j, t)
ParamsQuantNDToUB(j, t)     == RowMajorOut(j, t, t.width)
ParamsQuantNZToUB(j, t)     == NzOut(j, t)

-----------------------------------------------------------------------------
(* CopyWithLayout and CopyEnUnitFlagWithLayout: the tensors carry their    *)
(* layouts, the caller passes the tile's coordinate, and the source is a   *)
(* full tile of which the part inside the result is copied.                *)
FullHeight(j) == CeilAlign(j.baseM, Cube)
FullWidth(j)  == CeilAlign(j.baseN, Cube)
OutOffset(j, t) == LayoutAt(j.format, j.size, j.m, j.n, RowOf(j, t), ColOf(j, t))

LayoutRowMajor(j, t, nSize, dstStride) ==
    FixpipeRowMajor(OutOffset(j, t), nSize, Least(FullHeight(j), j.m - RowOf(j, t)),
                    FullHeight(j), dstStride)
InsideRow(j, t) == Least(FullWidth(j), j.n - ColOf(j, t))

\* NZ clips at the aligned sizes: Get<i, 0>(shape) * Get<i, 1>(shape).
LayoutNz(j, t, dstStride) ==
    FixpipeNz(OutOffset(j, t),
              Least(FullWidth(j), CeilAlign(j.n, C0(j.size)) - ColOf(j, t)),
              Least(FullHeight(j), CeilAlign(j.m, Cube) - RowOf(j, t)),
              FullHeight(j), dstStride)
\* Get<1, 1>(dstStride), the elements from one column block to the next.
BlockStride(j) == CeilAlign(j.m, Cube) * C0(j.size)

LayoutND_910B(j, t)    == LayoutRowMajor(j, t, InsideRow(j, t), j.n)
LayoutNZ_910B(j, t)    == LayoutNz(j, t, ((BlockStride(j) * j.size) \div Block) * C0(j.size))
LayoutND_910_95_Unclipped(j, t) ==
    LayoutRowMajor(j, t, Aligned(j, FullWidth(j)), Aligned(j, j.n))
LayoutND_910_95(j, t)  == LayoutRowMajor(j, t, Aligned(j, InsideRow(j, t)), Aligned(j, j.n))
LayoutNZ_910_95(j, t)  == LayoutNz(j, t, (BlockStride(j) * Cube) \div C0(j.size))
LayoutNDToUB(j, t)     == LayoutRowMajor(j, t, InsideRow(j, t), j.n)
LayoutNZToUB(j, t)     == LayoutNz(j, t, (BlockStride(j) * Cube) \div C0(j.size))

UnitFlagND_910B(j, t)   == LayoutRowMajor(j, t, InsideRow(j, t), j.n)
UnitFlagNZ_910B(j, t)   == LayoutNz(j, t, ((BlockStride(j) * j.size) \div Block) * C0(j.size))
UnitFlagND_910_95(j, t) == LayoutRowMajor(j, t, InsideRow(j, t), j.n)

-----------------------------------------------------------------------------
(* CopyOutSplitMWithParams and CopyOutSplitNWithParams: the two halves of  *)
(* the tile go to the UBs of the two vector cores, at the same offset.     *)
\* Fixpipe with DUAL_DST_SPLIT_M or _N: Fixpipe of both halves, the second starting inside L0C.
Second(moves, skip) == {<<<<1, mv[1]>>, mv[2] + skip>> : mv \in moves}
First(moves)        == {<<<<0, mv[1]>>, mv[2]>> : mv \in moves}

SplitMRowMajor(dst, n, m, stride) ==
    LET half == FixpipeRowMajor(dst, n, m \div 2, CeilAlign(m, Cube), stride)
    IN  First(half) \cup Second(half, (m \div 2) * Cube)
SplitMNz(dst, n, m, stride) ==
    LET half == FixpipeNz(dst, n, m \div 2, CeilAlign(m, Cube), stride)
    IN  First(half) \cup Second(half, (m \div 2) * Cube)
SplitNRowMajor(dst, n, m, stride) ==
    LET half == FixpipeRowMajor(dst, n \div 2, m, CeilAlign(m, Cube), stride)
    IN  First(half) \cup Second(half, NzAt(CeilAlign(m, Cube), Cube, 0, n \div 2))
SplitNNz(dst, n, m, stride) ==
    LET half == FixpipeNz(dst, n \div 2, m, CeilAlign(m, Cube), stride)
    IN  First(half) \cup Second(half, NzAt(CeilAlign(m, Cube), Cube, 0, n \div 2))

SplitM_ND(j, t) ==
    SplitMRowMajor((RowOf(j, t) * Aligned(j, DimN(j))) \div 2 + ColOf(j, t),
                   Aligned(j, t.width), CeilAlign(t.height, 2), Aligned(j, DimN(j)))
SplitM_NZ(j, t) ==
    SplitMNz((ColOf(j, t) * j.m + RowOf(j, t) * Cube) \div 2,
             CeilDiv(t.width, Cube) * Cube, t.height, j.m * Cube)
SplitM_QuantND(j, t) ==
    SplitMRowMajor(0, Aligned(j, t.width), CeilAlign(t.height, 2), Aligned(j, t.width))
SplitN_ND(j, t) ==
    SplitNRowMajor((RowOf(j, t) * Aligned(j, DimN(j)) + ColOf(j, t) * t.height) \div 2,
                   Aligned(j, t.width), t.height, Aligned(j, Aligned(j, DimN(j)) \div 2))
SplitN_NZ(j, t) ==
    SplitNNz((ColOf(j, t) * j.m + RowOf(j, t) * Cube) \div 2,
             CeilDiv(t.width, Cube) * Cube, t.height, j.m * Cube)

-----------------------------------------------------------------------------
(* Which specialisation takes a job.                                       *)
\* GetMmDstType: the type in which the cube core accumulates.
L0cT(a) == IF a = "int8" THEN "int32" ELSE "float"

\* Act::Gemm::IsQuantSenario<CType, AType>.
IsQuantSenario(device, c, a) ==
    LET eight == {"hif8", "fp8"} IN
    \/ /\ device = "910_95"
       /\ \/ a \in eight /\ c \in eight \cup {"half", "bf16", "float"}
          \/ L0cT(a) = "int32" /\ c = "bf16"
    \/ /\ ~(device = "910_95" /\ a \notin {"int8"} \cup eight /\ c \in {"half", "bf16"})
       /\ \/ L0cT(a) = "int32" /\ c \in {"half", "int8"}
          \/ L0cT(a) = "float" /\ c = "int8"

IsQuant(j) == IsQuantSenario(j.device, j.c, j.a)

\* The policies of TileCopy that fall back to another one's copy out of L0C.
OutPolicy(policy) ==
    CASE policy = "CopyInAndCopyOutSplitMWithParams" -> "CopyOutSplitMWithParams"
      [] policy = "CopyNoGmIn"                       -> "CopyWithParams"
      [] policy = "CopySparseWithLayout"             -> "CopyWithLayout"
      [] OTHER                                       -> policy
LayoutPolicies == {"CopyWithLayout", "CopyEnUnitFlagWithLayout"}
IsSplit(j) == OutPolicy(j.policy) \in {"CopyOutSplitMWithParams", "CopyOutSplitNWithParams"}

\* The specialisation of Copy that OutputType, InputType, the device and the policy select.
CopyOut(j, t) ==
    LET format == IF j.format = "NZ" THEN "NZ" ELSE "ND"
        kind   == IF OutPolicy(j.policy) \in LayoutPolicies THEN "any"
                  ELSE IF IsQuant(j) THEN "quant" ELSE "plain"
        with   == <<OutPolicy(j.policy), j.device, j.pos, format, kind>>
    IN
    CASE with = <<"CopyWithParams", "910B", "GM", "ND", "plain">>    -> ParamsND_910B(j, t)
      [] with = <<"CopyWithParams", "910B", "GM", "NZ", "plain">>    -> ParamsNZ_910B(j, t)
      [] with = <<"CopyWithParams", "910B", "GM", "ND", "quant">>    -> ParamsQuantND_910B(j, t)
      [] with = <<"CopyWithParams", "910B", "GM", "NZ", "quant">>    -> ParamsQuantNZ_910B(j, t)
      [] with = <<"CopyWithParams", "910_95", "GM", "ND", "plain">>  -> ParamsND_910_95(j, t)
      [] with = <<"CopyWithParams", "910_95", "GM", "NZ", "plain">>  -> ParamsNZ_910_95(j, t)
      [] with = <<"CopyWithParams", "910_95", "UB", "ND", "plain">>  -> ParamsNDToUB(j, t)
      [] with = <<"CopyWithParams", "910_95", "UB", "NZ", "plain">>  -> ParamsNZToUB(j, t)
      [] with = <<"CopyWithParams", "910_95", "GM", "ND", "quant">>  -> ParamsQuantND_910_95(j, t)
      [] with = <<"CopyWithParams", "910_95", "GM", "NZ", "quant">>  -> ParamsQuantNZ_910_95(j, t)
      [] with = <<"CopyWithParams", "910_95", "UB", "ND", "quant">>  -> ParamsQuantNDToUB(j, t)
      [] with = <<"CopyWithParams", "910_95", "UB", "NZ", "quant">>  -> ParamsQuantNZToUB(j, t)
      [] with = <<"CopyOutSplitMWithParams", "910_95", "UB", "ND", "plain">> -> SplitM_ND(j, t)
      [] with = <<"CopyOutSplitMWithParams", "910_95", "UB", "NZ", "plain">> -> SplitM_NZ(j, t)
      [] with = <<"CopyOutSplitMWithParams", "910_95", "UB", "ND", "quant">> -> SplitM_QuantND(j, t)
      [] with = <<"CopyOutSplitNWithParams", "910_95", "UB", "ND", "plain">> -> SplitN_ND(j, t)
      [] with = <<"CopyOutSplitNWithParams", "910_95", "UB", "NZ", "plain">> -> SplitN_NZ(j, t)
      \* With layouts the types play no part in the choice.
      [] with = <<"CopyWithLayout", "910B", "GM", "ND", "any">>   -> LayoutND_910B(j, t)
      [] with = <<"CopyWithLayout", "910B", "GM", "NZ", "any">>   -> LayoutNZ_910B(j, t)
      [] with = <<"CopyWithLayout", "910_95", "GM", "ND", "any">> -> LayoutND_910_95(j, t)
      [] with = <<"CopyWithLayout", "910_95", "GM", "NZ", "any">> -> LayoutNZ_910_95(j, t)
      [] with = <<"CopyWithLayout", "910_95", "UB", "ND", "any">> -> LayoutNDToUB(j, t)
      [] with = <<"CopyWithLayout", "910_95", "UB", "NZ", "any">> -> LayoutNZToUB(j, t)
      [] with = <<"CopyEnUnitFlagWithLayout", "910B", "GM", "ND", "any">>   -> UnitFlagND_910B(j, t)
      [] with = <<"CopyEnUnitFlagWithLayout", "910B", "GM", "NZ", "any">>   -> UnitFlagNZ_910B(j, t)
      [] with = <<"CopyEnUnitFlagWithLayout", "910_95", "GM", "ND", "any">> -> UnitFlagND_910_95(j, t)

-----------------------------------------------------------------------------
(* Where the cells of the result belong.                                   *)
HalfOf(x) == x \div 2
OutPlace(j, r, c) ==
    LET stride == IF OutPolicy(j.policy) = "CopyWithParams" THEN Aligned(j, DimN(j))
                                                            ELSE Aligned(j, j.n)
        height == IF OutPolicy(j.policy) = "CopyWithParams" THEN j.m ELSE CeilAlign(j.m, Cube)
        across == Aligned(j, j.n)
        down   == CeilAlign(j.m, 2)
    IN
    CASE OutPolicy(j.policy) = "CopyOutSplitMWithParams" ->
           <<r \div HalfOf(down),
             IF j.format = "NZ" THEN NzAt(j.m, Cube, r % HalfOf(down), c)
                                ELSE RowMajorAt(across, r % HalfOf(down), c)>>
      [] OutPolicy(j.policy) = "CopyOutSplitNWithParams" ->
           <<c \div HalfOf(across),
             IF j.format = "NZ" THEN NzAt(j.m, Cube, r, c % HalfOf(across))
                                ELSE RowMajorAt(Aligned(j, HalfOf(across)), r, c % HalfOf(across))>>
      [] ~IsSplit(j) /\ j.format = "NZ" -> <<0, NzAt(height, Cube, r, c)>>
      [] ~IsSplit(j) /\ j.format # "NZ" -> <<0, RowMajorAt(stride, r, c)>>
=============================================================================
