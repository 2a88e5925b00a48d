---------------------------- MODULE TileLayouts ----------------------------
(***************************************************************************)
(* Where a matrix cell lies in a linear memory, and what the data-movement *)
(* instructions of the device do with addresses.  A transfer is a set of   *)
(* moves <<to, from>> of single elements.  The instructions are external;  *)
(* they are modelled from the parameters the copies of act/matmul/tile and *)
(* of common/inc/kernel fill in.                                           *)
(***************************************************************************)
EXTENDS Integers

CONSTANTS Cube,   \* BLOCK_CUBE, the edge of a fractal: 16 elements
          Block   \* ONE_BLK_SIZE, the bytes of one row of a fractal: 32

ASSUME FractalAssumption == Cube \in Nat \ {0} /\ Block = 2 * Cube

CeilDiv(a, b)   == (a + b - 1) \div b
CeilAlign(a, b) == CeilDiv(a, b) * b
Least(a, b)     == IF a < b THEN a ELSE b

\* Elements of an operand type of the given size in one row of a fractal.
C0(size)      == Block \div size
Fractal(size) == Cube * C0(size)

-----------------------------------------------------------------------------
(* Addresses of cell (r, c).                                               *)
RowMajorAt(stride, r, c) == r * stride + c

\* Column blocks of width c0, each of them all the rows.
NzAt(height, c0, r, c) == (c \div c0) * height * c0 + r * c0 + (c % c0)

\* Row blocks of height c0, each of them all the columns, a column at a time.
ZnAt(width, c0, r, c) == (r \div c0) * width * c0 + c * c0 + (r % c0)

\* Row blocks of a fractal's height, each of them fractals side by side.
ZzAt(width, c0, r, c) ==
    (r \div Cube) * Cube * width + (c \div c0) * Cube * c0 + (r % Cube) * c0 + (c % c0)

\* MakeLayoutByFormat(row, col), applied to a coordinate.  ND_ALIGN has the stride of ND.
LayoutAt(format, size, row, col, r, c) ==
    CASE format \in {"ND", "ND_ALIGN"} -> RowMajorAt(col, r, c)
      [] format = "NZ" -> NzAt(CeilAlign(row, Cube), C0(size), r, c)
      [] format = "ZN" -> ZnAt(CeilAlign(col, Cube), C0(size), r, c)
      [] format = "ZZ" -> ZzAt(CeilAlign(col, C0(size)), C0(size), r, c)

-----------------------------------------------------------------------------
(* Instructions.  Offsets and strides are in elements unless said.         *)

\* Fixpipe with CFG_ROW_MAJOR: n columns and m rows out of L0C, whose fractals are Cube x Cube.
FixpipeRowMajor(dst, n, m, srcStride, dstStride) ==
    {<<RowMajorAt(dstStride, i, j) + dst, NzAt(srcStride, Cube, i, j)>> :
        i \in 0 .. m - 1, j \in 0 .. n - 1}

\* Fixpipe with CFG_NZ: column blocks of Cube elements, dstStride apart.
FixpipeNz(dst, n, m, srcStride, dstStride) ==
    {<<dst + (j \div Cube) * dstStride + i * Cube + (j % Cube), NzAt(srcStride, Cube, i, j)>> :
        i \in 0 .. m - 1, j \in 0 .. n - 1}

\* DataCopy with Nd2NzParams: nValue rows of dValue elements into column blocks of c0.
Nd2Nz(dst, src, nValue, dValue, srcDValue, dstNzC0Stride, dstNzNStride, c0) ==
    {<<dst + (j \div c0) * dstNzC0Stride * c0 + i * dstNzNStride * c0 + (j % c0),
       src + i * srcDValue + j>> : i \in 0 .. nValue - 1, j \in 0 .. dValue - 1}

\* DataCopy with blockCount bursts of blockLen rows of a fractal; the gaps are between bursts.
Bursts(dst, src, blockCount, blockLen, srcGap, dstGap, c0) ==
    {<<dst + b * (blockLen + dstGap) * c0 + e, src + b * (blockLen + srcGap) * c0 + e>> :
        b \in 0 .. blockCount - 1, e \in 0 .. blockLen * c0 - 1}

\* LoadData with LoadData2dParams: repeat fractals, srcStride fractals apart, dstGap between.
Load2D(dst, src, repeat, srcStride, dstGap, fractal) ==
    {<<dst + b * (dstGap + 1) * fractal + e, src + b * srcStride * fractal + e>> :
        b \in 0 .. repeat - 1, e \in 0 .. fractal - 1}

\* LoadData with LoadData2DParamsV2: mStep x kStep fractals of an NZ matrix, kept or transposed
\* into NZ; the positions and strides count fractals.
Load2DV2(mStart, kStart, mStep, kStep, srcStride, dstStride, transpose, c0) ==
    {<<IF transpose THEN NzAt(dstStride * Cube, c0, j, i) ELSE NzAt(dstStride * Cube, c0, i, j),
       NzAt(srcStride * Cube, c0, mStart * Cube + i, kStart * c0 + j)>> :
        i \in 0 .. mStep * Cube - 1, j \in 0 .. kStep * c0 - 1}

\* LoadData with LoadData3DParamsV2Pro: mStep rows and kStep columns of an NZ matrix of wAlign
\* rows into the fractals of L0A (ZZ) or of L0B (ZN), kept or transposed.
Load3D(target, mPos, kPos, mStep, kStep, wAlign, transpose, c0) ==
    {<<CASE target = "A2" /\ ~transpose -> ZzAt(kStep, c0, i, j)
         [] target = "A2" /\ transpose  -> ZzAt(mStep, c0, j, i)
         [] target = "B2"               -> ZnAt(kStep, c0, i, j),
       NzAt(wAlign, c0, mPos + i, kPos + j)>> : i \in 0 .. mStep - 1, j \in 0 .. kStep - 1}
=============================================================================
