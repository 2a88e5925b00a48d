-------------------------- MODULE KernelIterators --------------------------
(***************************************************************************)
(* The copies of common/inc/kernel: a kernel passes one tile and the       *)
(* strides it has computed.  rows x cols is the tile, ceil the rows rounded *)
(* up, val the columns of the whole matrix.  The strides of the loads into *)
(* L0 count fractals, from one fractal to the next along each edge.        *)
(***************************************************************************)
EXTENDS TileLayouts

CONSTANT StrideLimitH   \* STRIDE_LIMIT_H: the strides from here on do not fit their field

ASSUME IteratorAssumption == StrideLimitH \in Nat \ {0}

IterC0(j) == C0(j.size)

-----------------------------------------------------------------------------
(* Global memory to L1, and back out of UB.                                *)
gm_to_l1_ND(j) == Bursts(0, 0, 1, CeilDiv(j.rows * j.cols, IterC0(j)), 0, 0, IterC0(j))

gm_to_l1_NZ(j) ==
    LET gap    == j.ceil - j.rows
        blocks == j.cols \div IterC0(j)
    IN  IF gap < StrideLimitH THEN Bursts(0, 0, blocks, j.rows, gap, 0, IterC0(j))
        ELSE UNION {Bursts(i * j.rows * IterC0(j), i * j.ceil * IterC0(j), 1, j.rows, 0, 0, IterC0(j))
                      : i \in 0 .. blocks - 1}

gm_to_l1_NDtoNZ(j) ==
    IF j.val < StrideLimitH THEN Nd2Nz(0, 0, j.rows, j.cols, j.val, j.ceil, 1, IterC0(j))
    ELSE UNION {Nd2Nz(i * IterC0(j), i * j.val, 1, j.cols, 0, j.ceil, 0, IterC0(j))
                  : i \in 0 .. j.rows - 1}

\* Past the limit the loop copies the first row onto itself, again and again.
gm_to_l1_NDtoZN(j) ==
    IF j.val < StrideLimitH THEN Nd2Nz(0, 0, j.rows, j.cols, j.val, j.ceil, 1, IterC0(j))
                            ELSE Nd2Nz(0, 0, 1, j.cols, 0, j.ceil, 0, IterC0(j))

ub_to_gm_NZ(j) ==
    LET gap    == j.ceil - j.rows
        blocks == j.cols \div IterC0(j)
    IN  IF gap < StrideLimitH THEN Bursts(0, 0, blocks, j.rows, 0, gap, IterC0(j))
        ELSE UNION {Bursts(i * j.ceil * IterC0(j), i * j.rows * IterC0(j), 1, j.rows, 0, 0, IterC0(j))
                      : i \in 0 .. blocks - 1}

-----------------------------------------------------------------------------
(* L1 to L0A and L0B.                                                      *)
\* Load2D that transposes every fractal.
Load2DTransposed(dst, src, repeat, srcStride, dstGap) ==
    {<<dst + b * (dstGap + 1) * Cube * Cube + c * Cube + r,
       src + b * srcStride * Cube * Cube + r * Cube + c>> :
        b \in 0 .. repeat - 1, r \in 0 .. Cube - 1, c \in 0 .. Cube - 1}

l1_to_l0_a_Vector(j) == Load2D(0, 0, j.cols, j.kSrc, j.kDst, Fractal(j.size))

l1_to_l0_a(j) ==
    UNION {Load2D(i * j.mDst * Fractal(j.size), i * j.mSrc * Fractal(j.size), j.cols \div IterC0(j),
                  j.kSrc, j.kDst - 1, Fractal(j.size)) : i \in 0 .. j.rows \div Cube - 1}

l1_to_l0_a_Transposed(j) ==
    UNION {Load2DTransposed(i * j.mDst * Fractal(j.size), i * j.mSrc * Fractal(j.size),
                            j.cols \div Cube, j.kSrc, j.kDst - 1)
             : i \in 0 .. j.rows \div IterC0(j) - 1}

l1_to_l0_a_NZ(j) ==
    UNION {Load2D(i * Cube * j.cols, i * Fractal(j.size), j.cols \div IterC0(j), j.rows \div Cube, 0,
                  Fractal(j.size)) : i \in 0 .. j.rows \div Cube - 1}

l1_to_l0_b(j) ==
    UNION {Load2DTransposed(i * j.mDst * Fractal(j.size), i * j.mSrc * Fractal(j.size),
                            j.cols \div IterC0(j), j.kSrc, j.kDst - 1)
             : i \in 0 .. j.rows \div Cube - 1}

\* Already in the order of L0B.
l1_to_l0_b_Transposed(j) == Load2D(0, 0, (j.rows * j.cols) \div Fractal(j.size), 1, 0, Fractal(j.size))

-----------------------------------------------------------------------------
(* Out of L0C.                                                             *)
l0c_to_gm_ND(j) == FixpipeRowMajor(0, j.cols, j.rows, j.ceil, j.val)
l0c_to_gm_NZ(j) == FixpipeNz(0, j.cols, j.rows, j.ceil, j.val * C0(2))

\* Bursts of whole column blocks; the lengths count 32 bytes of int32, the gap 32 bytes of half.
l0c_to_l1(j) ==
    LET blockLen == (j.rows * Cube * 4) \div Block
    IN  Bursts(0, 0, CeilDiv(j.cols, Cube), (blockLen * 2) \div 4, 0,
               j.ceil - (blockLen * 2) \div 4, Cube)

-----------------------------------------------------------------------------
Iterate(j) ==
    CASE j.op = "gm_to_l1_ND"           -> gm_to_l1_ND(j)
      [] j.op = "gm_to_l1_NZ"           -> gm_to_l1_NZ(j)
      [] j.op = "gm_to_l1_NDtoNZ"       -> gm_to_l1_NDtoNZ(j)
      [] j.op = "gm_to_l1_NDtoZN"       -> gm_to_l1_NDtoZN(j)
      [] j.op = "ub_to_gm_NZ"           -> ub_to_gm_NZ(j)
      [] j.op = "l1_to_l0_a_Vector"     -> l1_to_l0_a_Vector(j)
      [] j.op = "l1_to_l0_a"            -> l1_to_l0_a(j)
      [] j.op = "l1_to_l0_a_Transposed" -> l1_to_l0_a_Transposed(j)
      [] j.op = "l1_to_l0_a_NZ"         -> l1_to_l0_a_NZ(j)
      [] j.op = "l1_to_l0_b"            -> l1_to_l0_b(j)
      [] j.op = "l1_to_l0_b_Transposed" -> l1_to_l0_b_Transposed(j)
      [] j.op = "l0c_to_gm_ND"          -> l0c_to_gm_ND(j)
      [] j.op = "l0c_to_gm_NZ"          -> l0c_to_gm_NZ(j)
      [] j.op = "l0c_to_l1"             -> l0c_to_l1(j)

\* Cell (r, c) of a tile whose fractals, h x w, lie the given numbers of fractals apart.
StridedAt(j, h, w, mStride, kStride, r, c) ==
    ((r \div h) * mStride + (c \div w) * kStride) * Fractal(j.size) + (r % h) * w + (c % w)
\* The same where every fractal is stored transposed.
TransposedAt(j, h, w, mStride, kStride, r, c) ==
    ((r \div h) * mStride + (c \div w) * kStride) * Fractal(j.size) + (c % w) * h + (r % h)

\* Where the tile lies before, and where its cells belong after.
IterSource(j, r, c) ==
    CASE j.op = "gm_to_l1_ND"                              -> RowMajorAt(j.cols, r, c)
      [] j.op = "gm_to_l1_NZ"                              -> NzAt(j.ceil, IterC0(j), r, c)
      [] j.op \in {"gm_to_l1_NDtoNZ", "gm_to_l1_NDtoZN"}   -> RowMajorAt(j.val, r, c)
      [] j.op = "ub_to_gm_NZ"                              -> NzAt(j.rows, IterC0(j), r, c)
      [] j.op = "l1_to_l0_a_Vector"                        -> c * j.kSrc * Fractal(j.size) + r
      [] j.op = "l1_to_l0_a"            -> StridedAt(j, Cube, IterC0(j), j.mSrc, j.kSrc, r, c)
      [] j.op = "l1_to_l0_a_Transposed" -> TransposedAt(j, IterC0(j), Cube, j.mSrc, j.kSrc, r, c)
      [] j.op = "l1_to_l0_a_NZ"                            -> NzAt(j.rows, IterC0(j), r, c)
      [] j.op = "l1_to_l0_b"            -> StridedAt(j, Cube, IterC0(j), j.mSrc, j.kSrc, r, c)
      [] j.op = "l1_to_l0_b_Transposed"                    -> NzAt(j.cols, IterC0(j), c, r)
      [] j.op \in {"l0c_to_gm_ND", "l0c_to_gm_NZ"}         -> NzAt(j.ceil, Cube, r, c)
      [] j.op = "l0c_to_l1"                                -> NzAt(j.rows, Cube, r, c)
IterPlace(j, r, c) ==
    CASE j.op = "gm_to_l1_ND"                              -> RowMajorAt(j.cols, r, c)
      [] j.op = "gm_to_l1_NZ"                              -> NzAt(j.rows, IterC0(j), r, c)
      [] j.op \in {"gm_to_l1_NDtoNZ", "gm_to_l1_NDtoZN"}   -> NzAt(j.ceil, IterC0(j), r, c)
      [] j.op = "ub_to_gm_NZ"                              -> NzAt(j.ceil, IterC0(j), r, c)
      [] j.op = "l1_to_l0_a_Vector"                        -> c * (j.kDst + 1) * Fractal(j.size) + r
      [] j.op = "l1_to_l0_a"            -> StridedAt(j, Cube, IterC0(j), j.mDst, j.kDst, r, c)
      [] j.op = "l1_to_l0_a_Transposed" -> StridedAt(j, IterC0(j), Cube, j.mDst, j.kDst, r, c)
      [] j.op = "l1_to_l0_a_NZ"                            -> ZzAt(j.cols, IterC0(j), r, c)
      [] j.op = "l1_to_l0_b"            -> TransposedAt(j, Cube, IterC0(j), j.mDst, j.kDst, r, c)
      [] j.op = "l1_to_l0_b_Transposed"                    -> ZnAt(j.cols, IterC0(j), r, c)
      [] j.op = "l0c_to_gm_ND"                             -> RowMajorAt(j.val, r, c)
      [] j.op = "l0c_to_gm_NZ"          -> (c \div Cube) * j.val * C0(2) + r * Cube + (c % Cube)
      [] j.op = "l0c_to_l1"                                -> NzAt(j.ceil, Cube, r, c)

\* The places of the tile, and of the padding of its last column block.
IterRoom(j) ==
    LET edge == IF j.op = "l0c_to_gm_ND" THEN 1 ELSE IF j.op = "l0c_to_l1" THEN Cube ELSE IterC0(j)
    IN  IF j.op = "gm_to_l1_ND" THEN 0 .. CeilAlign(j.rows * j.cols, IterC0(j)) - 1
        ELSE {IterPlace(j, r, c) : r \in 0 .. j.rows - 1, c \in 0 .. CeilAlign(j.cols, edge) - 1}
=============================================================================
