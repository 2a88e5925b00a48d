----------------------------- MODULE TileCopyIn -----------------------------
(***************************************************************************)
(* The specialisations of Copy that bring a tile of an input matrix from   *)
(* global memory into L1, where it lies in column blocks of c0 (NZ): from  *)
(* a row-major matrix, from column blocks, from a vector.  A strided copy  *)
(* whose stride does not fit its 16-bit field is issued piece by piece.    *)
(***************************************************************************)
EXTENDS TileLayouts

CONSTANT StrideLimit   \* UINT16_MAX, the largest stride an instruction can hold

ASSUME StrideAssumption == StrideLimit \in Nat \ {0}

\* What a 16-bit field keeps of a stride.
Field(x) == x % (StrideLimit + 1)

InRow(j, t) == t.row * j.baseM
InCol(j, t) == t.col * j.baseN
InC0(j)     == C0(j.size)

\* Rows of a column block in L1; operands of one byte along K are padded to whole squares.
KAligned(j) == j.size = 1 /\ j.kRow
L1Rows(j, height) == IF KAligned(j) THEN CeilAlign(height, InC0(j)) ELSE CeilAlign(height, Cube)

-----------------------------------------------------------------------------
(* CopyWithParams.                                                         *)
\* Never split.
CopyND2NZ_Whole(j, t) ==
    Nd2Nz(0, InRow(j, t) * j.n + InCol(j, t), t.height, t.width, Field(j.n),
          L1Rows(j, t.height), 1, InC0(j))

CopyND2NZ(j, t) ==
    LET src    == InRow(j, t) * j.n + InCol(j, t)
        whole  == Nd2Nz(0, src, t.height, t.width, Field(j.n), L1Rows(j, t.height), 1, InC0(j))
        byRows == UNION {Nd2Nz(i * InC0(j), src + j.n * i, 1, t.width, t.width,
                               L1Rows(j, t.height), 1, InC0(j)) : i \in 0 .. t.height - 1}
    IN  IF j.check /\ j.n >= StrideLimit THEN byRows ELSE whole

CopyNZ2NZ(j, t) ==
    LET gRow     == CeilAlign(j.m, Cube)
        rows     == CeilAlign(t.height, Cube)
        src      == InRow(j, t) * InC0(j) + InCol(j, t) * gRow
        srcGap   == gRow - rows
        dstGap   == L1Rows(j, t.height) - rows
        blocks   == CeilDiv(t.width, InC0(j))
        \* The blocks one by one; here the rows of the matrix are not rounded up.
        byBlocks == UNION {Bursts(i * rows * InC0(j), src + i * j.m * InC0(j), 1, rows, 0, 0, InC0(j))
                             : i \in 0 .. blocks - 1}
    IN  IF srcGap >= StrideLimit THEN byBlocks
                                 ELSE Bursts(0, src, blocks, rows, srcGap, dstGap, InC0(j))

CopyVector2A1(j, t) == Bursts(0, InCol(j, t), 1, CeilDiv(t.width, InC0(j)), 0, 0, InC0(j))

-----------------------------------------------------------------------------
(* CopyWithLayout: the tile is a full one, clipped at the matrix.          *)
L1Height(j) == CeilAlign(j.baseM, Cube)
L1Width(j)  == CeilAlign(j.baseN, InC0(j))
InOffset(j, t) == LayoutAt(j.format, j.size, j.m, j.n, InRow(j, t), InCol(j, t))

LayoutInND(j, t) ==
    Nd2Nz(0, InOffset(j, t), Least(L1Height(j), j.m - InRow(j, t)),
          Least(L1Width(j), j.n - InCol(j, t)), j.n, L1Height(j), 1, InC0(j))
LayoutInNZ(j, t) ==
    Bursts(0, InOffset(j, t), L1Width(j) \div InC0(j), L1Height(j),
           CeilAlign(j.m, Cube) - L1Height(j), 0, InC0(j))
LayoutInVector(j, t) == Bursts(0, InCol(j, t), 1, L1Width(j) \div InC0(j), 0, 0, InC0(j))

\* The specialisation that the policy and the format select, on either device.
CopyIn(j, t) ==
    CASE j.policy = "CopyWithParams" /\ j.format = "ND"     -> CopyND2NZ(j, t)
      [] j.policy = "CopyWithParams" /\ j.format = "NZ"     -> CopyNZ2NZ(j, t)
      [] j.policy = "CopyWithParams" /\ j.format = "VECTOR" -> CopyVector2A1(j, t)
      [] j.policy = "CopyWithLayout" /\ j.format \in {"ND", "ND_ALIGN"} -> LayoutInND(j, t)
      [] j.policy = "CopyWithLayout" /\ j.format = "NZ"     -> LayoutInNZ(j, t)
      [] j.policy = "CopyWithLayout" /\ j.format = "VECTOR" -> LayoutInVector(j, t)

-----------------------------------------------------------------------------
(* Where cell (r, c) of the tile belongs in L1, and the room of the tile.  *)
InRows(j, t) == IF j.policy = "CopyWithParams" THEN L1Rows(j, t.height) ELSE L1Height(j)
InPlace(j, t, r, c) ==
    IF j.format = "VECTOR" THEN c ELSE NzAt(InRows(j, t), InC0(j), r, c)
InRoom(j, t) ==
    LET width == IF j.policy = "CopyWithParams" THEN CeilAlign(t.width, InC0(j)) ELSE L1Width(j)
    IN  IF j.format = "VECTOR" THEN width ELSE InRows(j, t) * width
=============================================================================
