--------------------------- MODULE AttentionTiles ---------------------------
(***************************************************************************)
(* The side inputs of attention, common/inc/kernel/pse.h and dropmask.h:   *)
(* for a block of the scores of one head, a vector core copies the block's *)
(* part of the positional encoding, or of the dropout mask, to UB and      *)
(* applies it row by row.  What arrives at a score is found by composing   *)
(* the copy with the rows the vector instruction reads.                    *)
(*                                                                         *)
(* A block is a tile; its first row stands for the sum of s1oIdx, core and *)
(* loop offsets of the source, its first column for s2StartIdx plus the    *)
(* blocks before it.                                                       *)
(***************************************************************************)
EXTENDS TileLayouts

CONSTANTS ByteBits,        \* byteBitRatio: the mask bits of a byte, 8
          RepeatMaxTimes,  \* repeats of one vector instruction, 255
          UInt16Max        \* the largest number a field of DataCopyParams can hold

\* A mask of one block has no gap that does not fit.
ASSUME AttentionAssumption ==
    {ByteBits, RepeatMaxTimes} \subseteq Nat \ {0} /\ UInt16Max \in Nat /\ Block <= UInt16Max

FirstRow(j, t)    == t.row * j.baseM
FirstColumn(j, t) == j.start + t.col * j.baseN

\* s2AlignedSize, the row pitch of the block of scores.
Pitch(j, t) == CeilAlign(t.width, IF j.align8 THEN C0(j.size) ELSE Cube)

\* Batches of n2G heads, in groups of gSize.
HeadInBatch(j) == j.n2oIdx * j.gSize + j.goIdx

-----------------------------------------------------------------------------
(* Copies.  DataCopyPad copies bursts of single elements to UB rows that    *)
(* start at blocks; the padding belongs to its burst.                       *)
PadBursts(src, count, len, padding, srcGap, dstGap, c0) ==
    {<<b * (CeilDiv(len + padding, c0) + dstGap) * c0 + e, src + b * (len + srcGap) + e>> :
        b \in 0 .. count - 1, e \in 0 .. len - 1}

\* What is kept of a number in a field of DataCopyParams, which has 16 bits.
ParamField(number) == number % (UInt16Max + 1)

\* The gap between rows in the source: blocks where rows are whole ones, otherwise bytes.
RowsAreBlocks(j, actualS2Len) == (actualS2Len * j.size) % Block = 0
SourceGap(j, s2Size, actualS2Len) ==
    IF RowsAreBlocks(j, actualS2Len)
    THEN (actualS2Len * j.size - CeilDiv(s2Size * j.size, Block) * Block) \div Block
    ELSE (actualS2Len - s2Size) * j.size

DataCopyInCommon(j, offset, s1Size, s2Size, actualS2Len, alignedS2Size) ==
    LET blockLen  == CeilDiv(s2Size * j.size, Block)
        srcStride == ParamField(SourceGap(j, s2Size, actualS2Len))
    IN
    IF RowsAreBlocks(j, actualS2Len)
    THEN Bursts(0, offset, s1Size, blockLen, srcStride,
                ((alignedS2Size * j.size) \div Block) - blockLen, C0(j.size))
    ELSE PadBursts(offset, s1Size, s2Size, 0, srcStride \div j.size,
                   ((alignedS2Size - s2Size) * j.size) \div Block, C0(j.size))

DataCopyIn(j, offset, s1Size, s2Size, actualS2Len) ==
    DataCopyInCommon(j, offset, s1Size, s2Size, actualS2Len, CeilAlign(s2Size, Cube))
DataCopyInAlign8(j, offset, s1Size, s2Size, actualS2Len) ==
    DataCopyInCommon(j, offset, s1Size, s2Size, actualS2Len, CeilAlign(s2Size, C0(j.size)))
CopyRows(j, offset, s1Size, s2Size, actualS2Len) ==
    IF j.align8 THEN DataCopyInAlign8(j, offset, s1Size, s2Size, actualS2Len)
    ELSE DataCopyIn(j, offset, s1Size, s2Size, actualS2Len)

\* One byte a score, the only copy that asks whether the gap fits; a row of one block gets a second one when rows are aligned to two.
BoolCopyIn(j, offset, s1Size, s2Size, totalS2Size) ==
    LET narrow    == totalS2Size = Block /\ j.alignedSize = 2 * Block
        align     == IF narrow THEN Block ELSE j.alignedSize
        aligned   == CeilAlign(s2Size, align)
        padding   == Least(aligned - s2Size, Block)
        padded(gap) == PadBursts(offset, s1Size, s2Size, padding, totalS2Size - s2Size, gap, Block)
    IN
    IF totalS2Size - s2Size > UInt16Max THEN padded(0)
    ELSE IF totalS2Size % align # 0 THEN padded(IF narrow THEN 1 ELSE 0)
    ELSE Bursts(0, offset, s1Size, aligned \div Block, (totalS2Size - aligned) \div Block,
                IF narrow THEN 1 ELSE 0, Block)

\* One bit a score: bytes are copied.
BytesAreBlocks(s2Size, totalS2Size) == \A n \in {s2Size, totalS2Size} : (n \div ByteBits) % Block = 0
BitGap(s2Size, totalS2Size) ==
    IF BytesAreBlocks(s2Size, totalS2Size)
    THEN ((totalS2Size \div ByteBits) - CeilDiv(s2Size \div ByteBits, Block) * Block) \div Block
    ELSE (totalS2Size - s2Size) \div ByteBits

Bit2Int8CopyIn(j, offset, s1Size, s2Size, totalS2Size) ==
    LET from      == offset \div ByteBits
        srcStride == ParamField(BitGap(s2Size, totalS2Size))
    IN
    IF BytesAreBlocks(s2Size, totalS2Size)
    THEN Bursts(0, from, s1Size, CeilDiv(s2Size \div ByteBits, Block), srcStride, 0, Block)
    ELSE PadBursts(from, s1Size, CeilDiv(s2Size, ByteBits), 0, srcStride, 0, Block)

-----------------------------------------------------------------------------
(* Where a block's part begins.                                             *)

\* The encoding has a row for every row of scores, or one for all of them; a batch of one is
\* shared by all batches.
PseComputeOffset(j, t) ==
    LET n2G   == j.n2Size * j.gSize
        rows  == IF j.shape = "S1S2" THEN j.s1 ELSE 1
        bOff  == IF j.pseBSize = 1 THEN 0 ELSE j.boIdx * rows * j.s2 * n2G
        s1Off == IF j.shape = "S1S2" THEN FirstRow(j, t) * j.s2 ELSE 0
    IN  bOff + HeadInBatch(j) * rows * j.s2 + s1Off + FirstColumn(j, t)

ComputeDropOffset(j, t) ==
    (j.boIdx * j.n2Size * j.gSize + HeadInBatch(j)) * j.s1 * j.s2 + FirstRow(j, t) * j.s2 + FirstColumn(j, t)

\* An encoding that depends on the distance of row and column only is kept for its last pseS1 rows;
\* the block is read where the distances are its own.
AlibiCorner(j, t) ==
    LET row       == FirstRow(j, t)
        column    == FirstColumn(j, t)
        threshold == j.s1 - j.pseS1
        wrapped   == row % j.pseS1
        tnd       == row - column - (j.s2 - j.pseS1)
    IN
    IF j.layout = "TND"
    THEN IF tnd >= 0 \/ j.s2 < j.pseS1 THEN [m |-> tnd, k |-> 0] ELSE [m |-> 0, k |-> -tnd]
    ELSE IF row >= threshold THEN [m |-> row - threshold, k |-> column]
    ELSE [m |-> wrapped, k |-> j.s2 - (row - column) - (j.pseS1 - wrapped)]

PseAlibiComputeOffset(j, t) ==
    ((j.boIdx % j.pseBSize) * j.n2Size * j.gSize + HeadInBatch(j)) * j.s2 * j.pseS1
      + AlibiCorner(j, t).m * j.s2 + AlibiCorner(j, t).k

ReadS2Size(j, t)       == Least(Pitch(j, t), j.s2 - AlibiCorner(j, t).k)
PseS2ComputeSize(j, t) == CeilAlign(ReadS2Size(j, t), Cube)

\* A block all of whose columns lie behind its rows is left out.
NeedPseAlibiCompute(j, t) == FirstRow(j, t) + j.baseM > FirstColumn(j, t)

-----------------------------------------------------------------------------
(* The copies of a block and the scores they are applied to:                *)
(* <<place in UB, source>> and <<score, place in UB>>.                      *)
\* Of an encoding with one row for all, as many rows as blockCount are copied, and the first is used.
PseRows(j, t) ==
    IF j.shape = "1S2" THEN IF j.blockCount = 0 THEN 1 ELSE j.blockCount ELSE t.height
PseCopyIn(j, t) == CopyRows(j, PseComputeOffset(j, t), PseRows(j, t), t.width, j.s2)

PseAlibiCopyIn(j, t) ==
    IF NeedPseAlibiCompute(j, t)
    THEN CopyRows(j, PseAlibiComputeOffset(j, t), t.height, ReadS2Size(j, t), j.s2)
    ELSE {}

\* The matrix of distances PseInnerAlibiCreate makes, pseAlibiBaseS2 wide: the head of every block.
PseSlopeCopyIn(j, t) == DataCopyIn(j, 0, t.height, t.width, j.pseAlibiBaseS2)

CopyInDropMask(j, t) ==
    IF j.op = "dropBool" THEN BoolCopyIn(j, ComputeDropOffset(j, t), t.height, t.width, j.s2)
    ELSE Bit2Int8CopyIn(j, ComputeDropOffset(j, t), t.height, t.width, j.s2)

\* The gap that a block's copy puts in a field without asking whether it fits.
UntestedGap(j, t) ==
    CASE j.op = "pse"      -> SourceGap(j, t.width, j.s2)
      [] j.op = "alibi"    -> IF NeedPseAlibiCompute(j, t) THEN SourceGap(j, ReadS2Size(j, t), j.s2) ELSE 0
      [] j.op = "slope"    -> SourceGap(j, t.width, j.pseAlibiBaseS2)
      [] j.op = "dropBit"  -> BitGap(t.width, j.s2)
      [] j.op = "dropBool" -> 0

BlockCopyIn(j, t) ==
    CASE j.op = "pse"   -> PseCopyIn(j, t)
      [] j.op = "alibi" -> PseAlibiCopyIn(j, t)
      [] j.op = "slope" -> PseSlopeCopyIn(j, t)
      [] j.op \in {"dropBool", "dropBit"} -> CopyInDropMask(j, t)

Flat(n) == {<<e, e>> : e \in 0 .. n - 1}

\* One row added to repeatTimes rows of scores.
BroadcastAdd(offset, size, repeatTimes) ==
    {<<offset + rep * (size \div C0(4)) * C0(4) + e, e>> : rep \in 0 .. repeatTimes - 1, e \in 0 .. size - 1}

PseBroadcastAdd(rows, size) ==
    UNION {BroadcastAdd(i * RepeatMaxTimes * size, size, Least(RepeatMaxTimes, rows - i * RepeatMaxTimes)) :
             i \in 0 .. CeilDiv(rows, RepeatMaxTimes) - 1}

PseCompute(j, t) ==
    IF j.op = "pse" /\ j.shape = "1S2" THEN PseBroadcastAdd(t.height, Pitch(j, t))
    ELSE Flat(t.height * Pitch(j, t))

PseAlibiCompute(j, t) ==
    IF NeedPseAlibiCompute(j, t) THEN Flat(t.height * PseS2ComputeSize(j, t)) ELSE {}

\* DropOut (external) reads the mask's rows maskLastAxis bytes apart.
MaskLastAxis(j, t) ==
    IF j.op = "dropBool" THEN CeilAlign(CeilAlign(t.width, j.alignedSize), Block)
    ELSE CeilAlign(t.width \div ByteBits, Block)

ComputeDropMask(j, t) ==
    {<<r * Pitch(j, t) + c,
       r * MaskLastAxis(j, t) + (IF j.op = "dropBool" THEN c ELSE c \div ByteBits)>> :
        r \in 0 .. t.height - 1, c \in 0 .. t.width - 1}

Applied(j, t) ==
    CASE j.op \in {"pse", "slope"} -> PseCompute(j, t)
      [] j.op = "alibi" -> PseAlibiCompute(j, t)
      [] j.op \in {"dropBool", "dropBit"} -> ComputeDropMask(j, t)

-----------------------------------------------------------------------------
(* What is found at a source.                                               *)
Distance(a) == IF a < 0 THEN -a ELSE a

\* Row i of the matrix of distances counts up from -i.
PseInnerAlibiCreate(j, a) == (a % j.pseAlibiBaseS2) - (a \div j.pseAlibiBaseS2)

SlopeOf(j) == (IF j.shape = "SlopeBn" THEN j.boIdx * j.n2Size * j.gSize ELSE 0) + HeadInBatch(j)

\* The distance of a score's row and column, with the positions the sequences start at.
PseSlopeCast(j, t, a) ==
    LET posShift == FirstColumn(j, t) + j.kvStartIdx - FirstRow(j, t) - j.qStartIdx
    IN  <<SlopeOf(j), Distance(PseInnerAlibiCreate(j, a) + posShift)>>

\* What score s of the block gets when its byte or element is copied from a.
ValueAt(j, t, s, a) ==
    CASE j.op \in {"pse", "dropBool"} -> a
      [] j.op = "alibi"   -> <<a \div (j.pseS1 * j.s2), ((a % (j.pseS1 * j.s2)) \div j.s2) - (a % j.s2)>>
      [] j.op = "slope"   -> PseSlopeCast(j, t, a)
      [] j.op = "dropBit" -> a * ByteBits + ((s % Pitch(j, t)) % ByteBits)

AttentionMoves(j, t) ==
    {<<x[1][1], ValueAt(j, t, x[1][1], x[2][2])>> :
        x \in {y \in Applied(j, t) \X BlockCopyIn(j, t) : y[1][2] = y[2][1]}}

-----------------------------------------------------------------------------
(* What the score in row r and column c of the block should get.            *)
ScoreNeeded(j, t, r, c) == j.op = "alibi" => FirstColumn(j, t) + c <= FirstRow(j, t) + r

ScoreGets(j, t, r, c) ==
    LET row    == FirstRow(j, t) + r
        column == FirstColumn(j, t) + c
        head   == j.boIdx * j.n2Size * j.gSize + HeadInBatch(j)
        shared == IF j.pseBSize = 1 THEN HeadInBatch(j) ELSE head
    IN
    CASE j.op = "pse" /\ j.shape = "S1S2" -> (shared * j.s1 + row) * j.s2 + column
      [] j.op = "pse" /\ j.shape = "1S2"  -> shared * j.s2 + column
      [] j.op = "alibi" -> <<shared, row - column - (j.s2 - j.pseS1)>>
      [] j.op = "slope" -> <<IF j.shape = "SlopeBn" THEN head ELSE HeadInBatch(j),
                             Distance((column + j.kvStartIdx) - (row + j.qStartIdx))>>
      [] j.op \in {"dropBool", "dropBit"} -> (head * j.s1 + row) * j.s2 + column
=============================================================================
