-------------------- MODULE BlockPrologueFinalizeRouting --------------------
(* src/common/act/prologue/block_prologue_finalize_routing.h: before the     *)
(* matmul adds its rows to the output, the vector cores fill it: zeros before*)
(* and after the rows of the shared input, and the shared input times        *)
(* residualScale in between, each core a part of every region.  The operator *)
(* is built with auto_sync false: no events but the ones stated here.        *)
EXTENDS VectorPipes

CONSTANTS
  InitZeroLen,      \* UB_INIT_REZO_LEN: the zeros a copy can take
  DoubleBufferLen,  \* UB_DOUBLE_BUFFER_LEN: a chunk of the shared input
  CoreAlign,        \* ONE_CORE_ALIGN_LEN
  CoreAlignSmall,   \* ONE_CORE_ALIGN_LEN_SMALL
  UInt32Max         \* the largest uint32_t

Constructed == [initialized |-> FALSE, inId |-> 0, outId |-> 0]

InBuf(id) == IF id = 0 THEN "shareInput ping" ELSE "shareInput pong"
OutBuf(id) == IF id = 0 THEN "ubOut ping" ELSE "ubOut pong"

CopyInShareInput(waits, id, offset, size) ==
  CopyIn(waits, {<<"MTE2_V", id>>},
    [l \in {<<InBuf(id), k>> : k \in 0..(size - 1)} |-> << <<"residual", offset + l[2]>> >>])

CopyOutShareInput(waits, sets, buf, offset, size) ==
  CopyOut(waits, sets,
    [g \in {<<"y", offset + k>> : k \in 0..(size - 1)} |-> <<buf, g[2] - offset>>])

-----------------------------------------------------------------------------
\* A core's part of a region: from a multiple of its aligned share, to the end
\* of the region at most.
Part(c, total, share) ==
  [from |-> c * share,
   size |-> IF (c * share) + share > total THEN total - (c * share) ELSE share]

\* The pieces of at most `len` elements a part is copied in.
Chunks(size, len) ==
  [i \in 1..CeilDiv(size, len) |->
     [at |-> (i - 1) * len, size |-> Least(len, size - ((i - 1) * len))]]

VectorCoreNum == Cardinality(SubBlocks)

\* What a uint32_t keeps of a number.
UInt32(number) == number % (UInt32Max + 1)

ZeroShare(total) == UInt32(AlignUp(UInt32(CeilDiv(total, VectorCoreNum)), CoreAlign))

\* Whether a core has anything to do with a region of zeros.
WritesZeros(c, total) == total # 0 /\ c * ZeroShare(total) <= total

\* No event orders the copies after the instruction that writes the zeros.
InitOutputWithZeros(c, initialized, outOffset, total) ==
  LET part == Part(c, total, ZeroShare(total))
      chunks == Chunks(part.size, InitZeroLen)
      zero == Compute({}, {},
                [l \in {<<"initWithZero", k>> : k \in 0..(InitZeroLen - 1)} |-> << <<"zero", 0>> >>])
      copy(i) == CopyOutShareInput({}, {}, "initWithZero", outOffset + part.from + chunks[i].at, chunks[i].size)
  IN  IF ~WritesZeros(c, total) THEN <<>>
      ELSE (IF initialized THEN <<>> ELSE <<zero>>) \o [i \in 1..Len(chunks) |-> copy(i)]

\* The regions, in elements of the output; the first is multiplied in 32 bits.
FirstZeroSize == UInt32(job.n * job.sharedInputOffset)
Tail_ == job.sharedInputOffset + job.sharedInputLen
TotalOutput == job.n * job.sharedInputLen
LastZeroSize == job.n * (job.batch - Tail_)

ShareOf(total) ==
  AlignUp(CeilDiv(total, VectorCoreNum), IF total > CoreAlign THEN CoreAlign ELSE CoreAlignSmall)

ResidualShare == ShareOf(TotalOutput)

\* One round: in through one pair of buffers, out through the other.  The event
\* that ends a round holds back the next copy in, not the next computation: a
\* third round may write the output buffer the first is still copied from.
Round(o, from, chunk, i) ==
  LET in == (o.inId + i - 1) % 2
      out == (o.outId + i - 1) % 2
  IN  << CopyInShareInput({}, in, from + chunk.at, chunk.size),
         Compute({<<"MTE2_V", in>>}, {<<"V_MTE3", out>>, <<"V_MTE2", out>>},
           [l \in {<<OutBuf(out), k>> : k \in 0..(chunk.size - 1)} |->
              << <<InBuf(in), l[2]>>, <<"residualScale", 0>> >>]),
         CopyOutShareInput({<<"V_MTE3", out>>}, {}, OutBuf(out),
           FirstZeroSize + from + chunk.at, chunk.size),
         CopyIn({<<"V_MTE2", out>>}, {}, <<>>) >>

\* operator()
FillOutput(c) ==
  LET o == obj[c]
      first == WritesZeros(c, FirstZeroSize)
      last == WritesZeros(c, LastZeroSize)
      part == Part(c, TotalOutput, ResidualShare)
      chunks == IF part.from >= TotalOutput THEN <<>> ELSE Chunks(part.size, DoubleBufferLen)
  IN  Call(c, "FillOutput",
        [o EXCEPT !.initialized = @ \/ first \/ last,
                  !.inId = (@ + Len(chunks)) % 2,
                  !.outId = (@ + Len(chunks)) % 2],
        InitOutputWithZeros(c, o.initialized, 0, FirstZeroSize)
          \o InitOutputWithZeros(c, o.initialized \/ first, Tail_ * job.n, LastZeroSize)
          \o FlattenSeq([i \in 1..Len(chunks) |-> Round(o, part.from, chunks[i], i)]))

\* What the prologue is to leave in a place of the output.
FromShared(cell) == FirstZeroSize <= cell[2] /\ cell[2] < FirstZeroSize + TotalOutput

Filled(cell) ==
  IF FromShared(cell)
  THEN << <<"residual", cell[2] - FirstZeroSize>>, <<"residualScale", 0>> >>
  ELSE << <<"zero", 0>> >>
=============================================================================
