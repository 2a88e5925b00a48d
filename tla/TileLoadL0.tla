----------------------------- MODULE TileLoadL0 -----------------------------
(***************************************************************************)
(* The specialisations of Copy that load a part of an operand from L1 (NZ) *)
(* into L0A or L0B, kept or transposed, for two devices.  A job's matrix   *)
(* is the operand as L1 stores it: (k, m) or (n, k) when transposed.  The  *)
(* 910B wants row blocks of fractals (ZZ) in L0A, the 910_95 column        *)
(* blocks; L0B holds the columns of B in both.                             *)
(***************************************************************************)
EXTENDS TileLayouts

LoadC0(j)     == C0(j.size)
LoadRow(j, t) == t.row * j.baseM
LoadCol(j, t) == t.col * j.baseN

\* The shapes of the tensor in L1 and of the tile in L0, in whole fractals.
SrcRows(j) == CeilAlign(j.m, Cube)
DstRows(j, t) == CeilAlign(t.height, Cube)
DstCols(j, t) == CeilAlign(t.width, LoadC0(j))

\* LoadDataWithTranspose: squares of c0 x c0 elements, each transposed into fractals.
LoadTransposed(dst, src, repeat, srcStride, dstGap, fracGap, c0) ==
    {<<dst + (b * (1 + dstGap) + (k \div Cube) * (1 + fracGap)) * Cube * c0 + (k % Cube) * c0 + i,
       src + b * srcStride * c0 * c0 + i * c0 + k>> :
        b \in 0 .. repeat - 1, i \in 0 .. c0 - 1, k \in 0 .. c0 - 1}

\* LoadDataWithSparse: Load2D, decoded with the indices from idx on, one for four elements.
LoadSparse(dst, src, idx, repeat, srcStride, dstGap, fractal) ==
    {<<mv[1], IF 4 * idx = src THEN mv[2] ELSE -1>> :
        mv \in Load2D(dst, src, repeat, srcStride, dstGap, fractal)}

-----------------------------------------------------------------------------
(* L0A of the 910B.                                                        *)
TransposeLoadA2Int8(j, t) ==
    LET c0     == LoadC0(j)
        repeat == CeilDiv(DstRows(j, t), c0)
        src    == LoadCol(j, t) * SrcRows(j) + LoadRow(j, t) * c0
    IN  UNION {LoadTransposed(i * repeat * c0 * c0, src + i * SrcRows(j) * c0, repeat, 1, 0,
                              repeat - 1, c0) : i \in 0 .. DstCols(j, t) \div c0 - 1}
TransposeLoadA2_910B(j, t) ==
    Load3D("A2", LoadRow(j, t), LoadCol(j, t), DstRows(j, t), DstCols(j, t), SrcRows(j), TRUE,
           LoadC0(j))
NoneTransposeLoadA2_910B(j, t) ==
    Load3D("A2", LoadRow(j, t), LoadCol(j, t), DstRows(j, t), DstCols(j, t), SrcRows(j), FALSE,
           LoadC0(j))

-----------------------------------------------------------------------------
(* L0B of the 910B.  A transposed B needs no transposition: whole, by      *)
(* column blocks of K, or by rows of N, whichever takes fewer loads.       *)
LoadsOfB(j, t) ==
    LET c0    == LoadC0(j)
        frac  == Fractal(j.size)
        kC0   == DstCols(j, t) \div c0
        nFra  == DstRows(j, t) \div Cube
        start == LoadRow(j, t) * c0 + LoadCol(j, t) * SrcRows(j)
    IN
    CASE DstRows(j, t) = SrcRows(j) ->
           {[dst |-> 0, src |-> start, repeat |-> kC0 * nFra, stride |-> 1, gap |-> 0]}
      [] DstRows(j, t) # SrcRows(j) /\ nFra >= kC0 ->
           {[dst |-> i * nFra * frac, src |-> start + i * SrcRows(j) * c0,
             repeat |-> nFra, stride |-> 1, gap |-> 0] : i \in 0 .. kC0 - 1}
      \* The stride counts rows where the instruction counts fractals.
      [] DstRows(j, t) # SrcRows(j) /\ nFra < kC0 ->
           {[dst |-> i * frac, src |-> start + i * frac,
             repeat |-> kC0, stride |-> SrcRows(j), gap |-> nFra - 1] : i \in 0 .. nFra - 1}

TransposeLoadB2_910B(j, t) ==
    UNION {Load2D(l.dst, l.src, l.repeat, l.stride, l.gap, Fractal(j.size)) : l \in LoadsOfB(j, t)}
TransposeLoadB2Sparse(j, t) ==
    UNION {LoadSparse(l.dst, l.src, l.src \div 4, l.repeat, l.stride, l.gap, Fractal(j.size))
             : l \in LoadsOfB(j, t)}
NoneTransposeLoadB2_910B(j, t) ==
    Load3D("B2", LoadRow(j, t), LoadCol(j, t), DstRows(j, t), DstCols(j, t), SrcRows(j), FALSE,
           LoadC0(j))

-----------------------------------------------------------------------------
(* The 910_95: one instruction; a transposed float takes two fractals.     *)
KStep(j, width) ==
    LET steps == CeilDiv(width, LoadC0(j)) IN IF j.size = 4 THEN CeilAlign(steps, 2) ELSE steps

TransposeLoad_910_95(j, t) ==
    Load2DV2(CeilDiv(LoadRow(j, t), Cube), CeilDiv(LoadCol(j, t), LoadC0(j)),
             CeilDiv(DstRows(j, t), Cube), KStep(j, DstCols(j, t)), CeilDiv(SrcRows(j), Cube),
             CeilDiv(DstCols(j, t), Cube), TRUE, LoadC0(j))
NoneTransposeLoad_910_95(j, t) ==
    Load2DV2(CeilDiv(LoadRow(j, t), Cube), CeilDiv(LoadCol(j, t), LoadC0(j)),
             CeilDiv(DstRows(j, t), Cube), CeilDiv(DstCols(j, t), LoadC0(j)),
             CeilDiv(SrcRows(j), Cube), CeilDiv(DstRows(j, t), Cube), FALSE, LoadC0(j))

TransposeLoadA2_910_95(j, t)     == TransposeLoad_910_95(j, t)
NoneTransposeLoadA2_910_95(j, t) == NoneTransposeLoad_910_95(j, t)
TransposeLoadB2_910_95(j, t)     == NoneTransposeLoad_910_95(j, t)
NoneTransposeLoadB2_910_95(j, t) == TransposeLoad_910_95(j, t)

\* The specialisation that the device, the operand and its orientation select.
Load(j, t) ==
    LET with == <<j.device, j.operand, j.trans>> IN
    CASE with = <<"910B", "A", TRUE>> /\ j.size = 1 -> TransposeLoadA2Int8(j, t)
      [] with = <<"910B", "A", TRUE>> /\ j.size # 1 -> TransposeLoadA2_910B(j, t)
      [] with = <<"910B", "A", FALSE>>              -> NoneTransposeLoadA2_910B(j, t)
      [] with = <<"910B", "B", TRUE>> /\ j.sparse   -> TransposeLoadB2Sparse(j, t)
      [] with = <<"910B", "B", TRUE>> /\ ~j.sparse  -> TransposeLoadB2_910B(j, t)
      [] with = <<"910B", "B", FALSE>>              -> NoneTransposeLoadB2_910B(j, t)
      [] with = <<"910_95", "A", TRUE>>             -> TransposeLoadA2_910_95(j, t)
      [] with = <<"910_95", "A", FALSE>>            -> NoneTransposeLoadA2_910_95(j, t)
      [] with = <<"910_95", "B", TRUE>>             -> TransposeLoadB2_910_95(j, t)
      [] with = <<"910_95", "B", FALSE>>            -> NoneTransposeLoadB2_910_95(j, t)

-----------------------------------------------------------------------------
(* Where cell (r, c) of the part, as L1 stores it, belongs in L0.          *)
LoadPlace(j, t, r, c) ==
    LET rows == IF j.trans = (j.operand = "A") THEN DstCols(j, t) ELSE DstRows(j, t)  \* m, or n
        cols == IF j.trans = (j.operand = "A") THEN DstRows(j, t) ELSE DstCols(j, t)  \* k
        x    == IF j.trans = (j.operand = "A") THEN c ELSE r
        k    == IF j.trans = (j.operand = "A") THEN r ELSE c
    IN  IF j.device = "910B" /\ j.operand = "A"
        THEN ZzAt(CeilAlign(cols, LoadC0(j)), LoadC0(j), x, k)
        ELSE IF j.device = "910B" THEN ZnAt(rows, LoadC0(j), k, x)
        ELSE NzAt(CeilAlign(rows, Cube), LoadC0(j), x, k)
LoadRoom(j, t) ==
    LET edge == IF Cube < LoadC0(j) THEN LoadC0(j) ELSE Cube
    IN  CeilAlign(DstRows(j, t), edge) * CeilAlign(DstCols(j, t), edge)
=============================================================================
