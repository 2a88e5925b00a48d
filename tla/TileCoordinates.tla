-------------------------- MODULE TileCoordinates --------------------------
(***************************************************************************)
(* Where a kernel finds its tile of each operand, act/utils/coord_utils.h: *)
(* offsets in global memory from the tile's indices, for matrices that may *)
(* be transposed, batched or in NZ, for the scales of every way to         *)
(* quantise, and for tiles of two sizes (load balance).                    *)
(*                                                                         *)
(* A job is one operand of one function.  A piece is a part of one         *)
(* dimension: the index of its tile, where in the tile it begins (split:   *)
(* two vector cores share a tile), and its first element and length.       *)
(***************************************************************************)
EXTENDS TileLayouts

CONSTANTS PerBlock,      \* PER_BLOCK_SIZE, the edge of a block with one scale: 128
          MxfpDivisor,   \* MXFP_DIVISOR_SIZE, the elements with MxfpMulti scales: 64
          MxfpMulti      \* MXFP_MULTI_BASE_SIZE

ASSUME ScaleAssumption ==
    {PerBlock, MxfpDivisor, MxfpMulti} \subseteq Nat \ {0} /\ MxfpDivisor % MxfpMulti = 0

ByBlocks(q) == q.mode \in {"PERGROUP", "PERBLOCK"}

\* The scales of a row of n elements in the MX format.
MxScales(n) == CeilDiv(n, MxfpDivisor) * MxfpMulti

-----------------------------------------------------------------------------
(* Functions of the position of a block, in elements.                      *)
GetOffset(q, m, n, k) ==
    [A |-> (IF q.transA THEN LayoutAt("ND", 1, q.K, q.M, k, m) ELSE LayoutAt("ND", 1, q.M, q.K, m, k))
             + q.batch * q.M * q.K,
     B |-> (IF q.transB THEN LayoutAt("ND", 1, q.N, q.K, n, k) ELSE LayoutAt("ND", 1, q.K, q.N, k, n))
             + q.batch * q.N * q.K,
     C |-> LayoutAt("ND", 1, q.M, q.N, m, n) + q.batch * q.M * q.N]

GetOffsetWithoutLayout(q, m, n) ==
    [A |-> q.batch * q.M * q.K + (IF q.transA THEN m ELSE m * q.K),
     B |-> q.batch * q.N * q.K + (IF q.transB THEN n * q.K ELSE n),
     C |-> q.batch * q.M * q.N + m * q.N + n,
     bias |-> q.batch * q.N + n]

GetOffsetIterBatch(q) ==
    [A |-> q.batch * q.M * q.K, B |-> q.batch * q.K * q.N, C |-> q.batch * q.M * q.N]

-----------------------------------------------------------------------------
(* Functions of the indices of a tile.                                     *)
GetOffsetStreamK(q, mTile, nTile, kPart) ==
    [A |-> q.batch * q.M * q.K
             + (IF q.transA THEN mTile * q.l1M + kPart * q.l1K * q.M ELSE mTile * q.l1M * q.K + kPart * q.l1K),
     B |-> q.batch * q.N * q.K
             + (IF q.transB THEN nTile * q.l1N * q.K + kPart * q.l1K ELSE nTile * q.l1N + kPart * q.l1K * q.N),
     C |-> q.batch * q.M * q.N + mTile * q.l1M * q.N + nTile * q.l1N,
     bias |-> q.batch * q.N + nTile * q.l1N]

GetAOffset(q, mTile, kTile, mSplit) ==
    IF q.transA THEN q.batch * q.M * q.K + kTile * q.l1K * q.M + (mTile * q.l1M + mSplit)
    ELSE q.batch * q.M * q.K + (mTile * q.l1M + mSplit) * q.K + kTile * q.l1K

\* B in NZ has a c0, the cells in a row of a fractal.
GetBOffset(q, nTile, kTile, nSplit) ==
    LET n == nTile * q.l1N + nSplit
        k == kTile * q.l1K
    IN  CASE q.nz /\ q.transB ->
               q.batch * CeilAlign(q.N, Cube) * CeilAlign(q.K, q.c0) + n * q.c0 + k * CeilAlign(q.N, Cube)
          [] q.nz /\ ~q.transB ->
               q.batch * CeilAlign(q.N, q.c0) * CeilAlign(q.K, Cube) + k * q.c0 + n * CeilAlign(q.K, Cube)
          [] ~q.nz /\ q.transB  -> q.batch * q.N * q.K + n * q.K + k
          [] ~q.nz /\ ~q.transB -> q.batch * q.N * q.K + k * q.N + n

GetCOffset(q, mTile, nTile, mSplit, nSplit) ==
    q.batch * q.N * q.M + (mTile * q.l1M + mSplit) * q.N + (nTile * q.l1N + nSplit)

GetBiasOffset(q, nTile, nSplit) == nTile * q.l1N + nSplit

\* Beyond the first normal tiles, tiles are smaller: what all of them lack.
Missing(tile, normal, l1, tail) == IF tile > normal THEN (tile - normal) * (l1 - tail) ELSE 0

CalOffsetOfAIV(q, m, n) ==
    LET row == IF q.mode = "PERBLOCK" THEN m \div PerBlock ELSE m IN
    [x1 |-> IF q.transA THEN row ELSE row * CeilDiv(q.K, PerBlock),
     x2 |-> IF q.transB THEN (n \div PerBlock) * CeilDiv(q.K, PerBlock) ELSE n \div PerBlock]

MxOffset(q, m, n) ==
    [x1 |-> IF q.transA THEN m * MxfpMulti ELSE m * MxScales(q.K),
     x2 |-> IF q.transB THEN n * MxScales(q.K) ELSE n * MxfpMulti]

GetQuantOffset(q, mTile, nTile, mSplit, nSplit) ==
    LET balance == q.balanced /\ ~(q.transA /\ ~q.transB)
        m == mTile * q.l1M + mSplit - (IF balance THEN Missing(mTile, q.normM, q.l1M, q.tailM) ELSE 0)
        n == nTile * q.l1N + nSplit - (IF balance THEN Missing(nTile, q.normN, q.l1N, q.tailN) ELSE 0)
        scales == CASE ByBlocks(q)      -> CalOffsetOfAIV(q, m, n)
                    [] q.mode = "MX"    -> MxOffset(q, m, n)
                    [] q.mode = "OTHER" -> [x1 |-> m, x2 |-> n]
    IN  [A |-> IF q.transA THEN m ELSE m * q.K, B |-> IF q.transB THEN n * q.K ELSE n,
         x1Scale |-> scales.x1, x2Scale |-> scales.x2, bias |-> n, C |-> m * q.N + n]

\* Of a result that is half as wide as B, as with swiglu.
GetQuantIOOffset(q, mTile, nTile, mSplit, nSplit) ==
    LET m == mTile * q.l1M + mSplit
        n == nTile * q.l1N + nSplit
        scales == CASE ByBlocks(q) ->
                         [x1 |-> IF q.transA THEN m ELSE m * CeilDiv(q.K, PerBlock),
                          x2 |-> CeilDiv(n, PerBlock) * (IF q.transB THEN CeilDiv(q.K, PerBlock) ELSE 1)]
                    [] q.mode = "MX"    -> MxOffset(q, m, n)
                    [] q.mode = "OTHER" -> [x1 |-> m, x2 |-> n]
    IN  [A |-> IF q.transA THEN m ELSE m * q.K, B |-> IF q.transB THEN n * q.K ELSE n,
         x1Scale |-> scales.x1, x2Scale |-> scales.x2, bias |-> n, C |-> (m * q.N) \div 2 + n,
         yScale |-> IF q.mode = "MX" THEN m * MxScales(q.N \div 2) + MxScales(n) ELSE 0]

-----------------------------------------------------------------------------
(* The tiles of an operand.  Its rows and columns are those of the matrices *)
(* as they are multiplied, transposed or not: M x K, K x N and M x N.       *)
Piece(tile, split, start, length) == [tile |-> tile, split |-> split, start |-> start, length |-> length]
Whole(size) == {Piece(0, 0, 0, size)}

Pieces(size, l1, normal, tail, shared) ==
    LET start(i)  == IF i <= normal THEN i * l1 ELSE normal * l1 + (i - normal) * tail
        length(i) == Least(IF i < normal THEN l1 ELSE tail, size - start(i))
        half(i)   == IF shared THEN CeilDiv(length(i), 2) ELSE length(i)
        tiles     == {i \in 0 .. size - 1 : start(i) < size}
    IN  {Piece(i, 0, start(i), half(i)) : i \in tiles}
          \cup {Piece(i, half(i), start(i) + half(i), length(i) - half(i)) :
                  i \in {h \in tiles : half(h) < length(h)}}

MPieces(j) == Pieces(j.M, j.l1M, j.normM, j.tailM, j.shared)
NPieces(j) == Pieces(IF j.fn = "QuantIO" THEN j.N \div 2 ELSE j.N, j.l1N, j.normN, j.tailN, j.shared)
KPieces(j) == IF j.fn \in {"Coordinate", "Layout", "StreamK"} THEN Pieces(j.K, j.l1K, j.K, j.l1K, FALSE) ELSE Whole(j.K)
ScalesOfK(j) == CASE ByBlocks(j)      -> CeilDiv(j.K, PerBlock)
                  [] j.mode = "MX"    -> MxScales(j.K)
                  [] j.mode = "OTHER" -> 1

PiecesDown(j) ==
    CASE j.operand \in {"A", "C", "x1Scale", "yScale"} -> MPieces(j)
      [] j.operand = "B"       -> KPieces(j)
      [] j.operand = "bias"    -> Whole(1)
      [] j.operand = "x2Scale" -> Whole(ScalesOfK(j))
PiecesAcross(j) ==
    CASE j.operand \in {"B", "C", "bias", "x2Scale", "yScale"} -> NPieces(j)
      [] j.operand = "A"       -> KPieces(j)
      [] j.operand = "x1Scale" -> Whole(ScalesOfK(j))

OperandTiles(j) ==
    {[row |-> r, col |-> c, height |-> r.length, width |-> c.length] : r \in PiecesDown(j), c \in PiecesAcross(j)}

\* What the kernel computes for a tile.
TileOffset(j, t) ==
    LET down(x) == IF j.operand \in x THEN t.row ELSE Piece(0, 0, 0, 0)
        m == down({"A", "C", "x1Scale", "yScale"})
        n == IF j.operand \in {"A", "x1Scale"} THEN Piece(0, 0, 0, 0) ELSE t.col
        k == IF j.operand = "A" THEN t.col ELSE down({"B"})
    IN  CASE j.fn = "Layout"        -> GetOffset(j, m.start, n.start, k.start)[j.operand]
          [] j.fn = "WithoutLayout" -> GetOffsetWithoutLayout(j, m.start, n.start)[j.operand]
          [] j.fn = "IterBatch"     -> GetOffsetIterBatch(j)[j.operand]
          [] j.fn = "StreamK"       -> GetOffsetStreamK(j, m.tile, n.tile, k.tile)[j.operand]
          [] j.fn = "Quant"         -> GetQuantOffset(j, m.tile, n.tile, m.split, n.split)[j.operand]
          [] j.fn = "QuantIO"       -> GetQuantIOOffset(j, m.tile, n.tile, m.split, n.split)[j.operand]
          [] j.fn = "Coordinate" ->
               CASE j.operand = "A"    -> GetAOffset(j, m.tile, k.tile, m.split)
                 [] j.operand = "B"    -> GetBOffset(j, n.tile, k.tile, n.split)
                 [] j.operand = "C"    -> GetCOffset(j, m.tile, n.tile, m.split, n.split)
                 [] j.operand = "bias" -> GetBiasOffset(j, n.tile, n.split)

-----------------------------------------------------------------------------
(* Where an operand's cells are.                                           *)
BatchSize(j) ==
    CASE j.operand = "A" -> j.M * j.K
      [] j.operand = "B" /\ ~j.nz -> j.K * j.N
      [] j.operand = "B" /\ j.nz  -> IF j.transB THEN CeilAlign(j.N, Cube) * CeilAlign(j.K, j.c0)
                                                 ELSE CeilAlign(j.K, Cube) * CeilAlign(j.N, j.c0)
      [] j.operand = "C"    -> j.M * j.N
      [] j.operand = "bias" -> IF j.fn = "Coordinate" THEN 0 ELSE j.N   \* one for all batches, or one each
      [] OTHER -> 0

\* The scale of the cells of row x at k index s, in a matrix of scales with x rows, kept or transposed.
ScaleAt(j, transposed, rows, x, s) ==
    CASE ByBlocks(j) -> IF transposed THEN RowMajorAt(rows, s, x) ELSE RowMajorAt(CeilDiv(j.K, PerBlock), x, s)
      [] j.mode = "MX" -> IF transposed THEN MxfpMulti * RowMajorAt(rows, s \div MxfpMulti, x) + (s % MxfpMulti)
                          ELSE RowMajorAt(MxScales(j.K), x, s)
      [] j.mode = "OTHER" -> x

CellAt(j, r, c) ==
    CASE j.operand = "A" -> IF j.transA THEN RowMajorAt(j.M, c, r) ELSE RowMajorAt(j.K, r, c)
      [] j.operand = "B" /\ ~j.nz -> IF j.transB THEN RowMajorAt(j.K, c, r) ELSE RowMajorAt(j.N, r, c)
      [] j.operand = "B" /\ j.nz  -> IF j.transB THEN NzAt(CeilAlign(j.N, Cube), j.c0, c, r)
                                                 ELSE NzAt(CeilAlign(j.K, Cube), j.c0, r, c)
      [] j.operand = "C"    -> RowMajorAt(IF j.fn = "QuantIO" THEN j.N \div 2 ELSE j.N, r, c)
      [] j.operand = "bias" -> c
      [] j.operand = "x1Scale" ->
           IF j.mode = "PERBLOCK" THEN ScaleAt(j, j.transA, CeilDiv(j.M, PerBlock), r \div PerBlock, c)
           ELSE ScaleAt(j, j.transA, j.M, r, c)
      [] j.operand = "x2Scale" ->
           IF ByBlocks(j) THEN ScaleAt(j, ~j.transB, CeilDiv(j.N, PerBlock), c \div PerBlock, r)
           ELSE ScaleAt(j, ~j.transB, j.N, c, r)
      [] j.operand = "yScale" -> RowMajorAt(MxScales(j.N \div 2), r, c \div (MxfpDivisor \div MxfpMulti))

CellAddress(j, t, r, c) == j.batch * BatchSize(j) + CellAt(j, t.row.start + r, t.col.start + c)

\* A kernel steps from the tile's offset to its other cells as the format says.
OperandMoves(j, t) ==
    {<<r, c, TileOffset(j, t) + CellAt(j, r, c)>> : r \in 0 .. t.height - 1, c \in 0 .. t.width - 1}
=============================================================================
