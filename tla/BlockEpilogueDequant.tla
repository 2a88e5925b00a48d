------------------------ MODULE BlockEpilogueDequant ------------------------
(* src/common/act/epilogue/block_epilogue_dequant.h: the int32 result of a   *)
(* matmul block, put into UB by the cube core, is multiplied with the scales *)
(* of the weights (x2, per channel or per tensor) and of the activations     *)
(* (x1, per token, per tensor or none), a bias is added, and the rows go to  *)
(* global memory through two output buffers.                                 *)
EXTENDS VectorPipes

CONSTANTS
  AlignIn,        \* UB_ALIGN_SIZE / sizeof(DataTypeIn)
  AlignOut        \* UB_ALIGN_SIZE / sizeof(DataTypeOut)

Unset == -1000    \* the base of a GlobalTensor no buffer was given to

\* A TQue (external): AllocTensor waits until the buffer was freed, DeQue until
\* it was enqueued.  A buffer is free at first.
Free(q, k) == <<"free", q, k>>
Ready(q, k) == <<"ready", q, k>>

Out(k) == IF k = 0 THEN "out ping" ELSE "out pong"

FreeEvents == {Free(q, 0) : q \in {"x2", "x1", "bias"}} \cup {Free("out", k) : k \in 0..1}

Constructed ==
  [groupIdx |-> 0, base |-> [y |-> 0, x2 |-> 0, x1 |-> 0, bias |-> 0],
   x2Global |-> Unset, x1Global |-> Unset, biasGlobal |-> Unset, yGlobal |-> Unset,
   x2Scalar |-> <<"unset", 0>>, x1Scalar |-> <<"unset", 0>>,
   isBias |-> FALSE, n |-> 0, outBuf |-> 0]

UpdateGlobalBuffer(o) ==
  [o EXCEPT
     !.x2Scalar = IF job.x2Mode = "PERTENSOR" THEN <<"x2", o.groupIdx>> ELSE @,
     !.x2Global = IF job.x2Mode = "PERTENSOR" THEN @ ELSE o.base.x2,
     !.x1Scalar = IF job.x1Mode = "PERTENSOR" THEN <<"x1", o.groupIdx>> ELSE @,
     !.x1Global = IF job.x1Mode = "PERTOKEN" THEN o.base.x1 ELSE @,
     !.biasGlobal = IF o.isBias THEN o.base.bias ELSE @,
     !.yGlobal = o.base.y]

\* The buffers are set before isBiasEpilogue_ is known: the bias stays unset
\* until UpdateGroupedParams.
InitEpilogue(c) ==
  Call(c, "Init",
       [UpdateGlobalBuffer(obj[c]) EXCEPT !.isBias = job.bias, !.n = job.n],
       <<>>)

UpdateGroupedParams(c) ==
  LET call == Head(calls[c])
  IN  Call(c, "UpdateGroupedParams",
           UpdateGlobalBuffer([obj[c] EXCEPT !.base = call.base, !.groupIdx = call.groupIdx]),
           <<>>)

\* The inputs a Run stages in UB, each through a queue of its own.
StagedQueues(o) ==
  {q \in {"x2", "x1", "bias"} :
     \/ q = "x2" /\ job.x2Mode = "PERCHANNEL"
     \/ q = "x1" /\ job.x1Mode = "PERTOKEN"
     \/ q = "bias" /\ o.isBias}

\* Where element k of a staged input comes from.
StagedFrom(c, o, call, q, k) ==
  CASE q = "x2" -> <<"x2", o.x2Global + call.coord.x2 + k>>
    [] q = "x1" -> <<"x1", o.x1Global + call.coord.x1 + (c * HalfSingleM(call.m)) + k>>
    [] q = "bias" -> <<"bias", o.biasGlobal + call.coord.bias + k>>

CopyDataFromGm2Ub(c, o, call) ==
  LET length(q) == IF q = "x1" THEN SingleMInVec(c, call.m) ELSE call.n
      copy(q) == CopyIn({Free(q, 0)}, {Ready(q, 0)},
                   [l \in {<<q \o "Ub", k>> : k \in 0..(length(q) - 1)} |->
                      <<StagedFrom(c, o, call, q, l[2])>>])
      ifStaged(q) == IF q \in StagedQueues(o) THEN <<copy(q)>> ELSE <<>>
  IN  ifStaged("x2") \o ifStaged("x1") \o ifStaged("bias")

\* What the element in row m and column k of a slice is multiplied with, and
\* the bias added to it; offsetPtScale is the slice's first row.
Dequantised(o, offsetPtScale, m, k) ==
  LET perTensor == job.x2Mode = "PERTENSOR"
      x2 == IF perTensor THEN o.x2Scalar ELSE <<"x2Ub", k>>
      bias == IF o.isBias THEN << <<"biasUb", k>> >> ELSE <<>>
  IN  CASE job.x1Mode = "PERTOKEN" -> << x2, <<"x1Ub", offsetPtScale + m>> >> \o bias
        [] job.x1Mode = "PERTENSOR" -> << <<"x2Ub", k>>, o.x1Scalar >>
        [] OTHER -> IF o.isBias THEN <<x2>> \o bias ELSE << <<"x2Ub", k>> >>

\* The next output buffer, when the slice is to go into it.
VFDoDequant(o, buf, first, rows, n, waits) ==
  LET src == AlignUp(n, AlignIn)
      dst == AlignUp(n, AlignOut)
      offsetL0c == first * AlignUp(n, AlignIn)
      cell == [l \in {<<Out(buf), (m * dst) + k>> : m \in 0..(rows - 1), k \in 0..(n - 1)} |->
                 [m |-> l[2] \div dst, k |-> l[2] % dst]]
  IN  Compute(waits, {Ready("out", buf)},
        [l \in DOMAIN cell |->
           << <<"l0c", offsetL0c + (cell[l].m * src) + cell[l].k>> >>
             \o Dequantised(o, first, cell[l].m, cell[l].k)])

CopyDequantResFromUb2Gm(o, buf, at, rows, n) ==
  CopyOut({Ready("out", buf)}, {Free("out", buf)},
    [g \in {<<"y", o.yGlobal + at + (m * o.n) + k>> : m \in 0..(rows - 1), k \in 0..(n - 1)} |->
       LET d == g[2] - (o.yGlobal + at)
       IN  <<Out(buf), ((d \div o.n) * AlignUp(n, AlignOut)) + (d % o.n)>>])

FreeUbTensor(o) == Compute({}, {Free(q, 0) : q \in StagedQueues(o)}, <<>>)

\* External: the block's rows, as the cube core leaves them in UB.
MatmulResult(c, o, call) ==
  Compute({}, {},
    [l \in {<<"l0c", (m * AlignUp(call.n, AlignIn)) + k>> :
              m \in 0..(SingleMInVec(c, call.m) - 1), k \in 0..(call.n - 1)} |->
       LET m == (c * HalfSingleM(call.m)) + (l[2] \div AlignUp(call.n, AlignIn))
       IN  << <<"mm", call.at + (m * o.n) + (l[2] % AlignUp(call.n, AlignIn))>> >>])

\* A mutant: the rows are divided rounding down.
SliceRows_RoundedDown(total) == total \div Least(total, 4)

\* At most four slices, the last shorter, the loop left when none remains.
SliceRows(total) == CeilDiv(total, Least(total, 4))

Slices(total) ==
  LET mSizeForOnce == SliceRows(total)
      number == Least(Least(total, 4), CeilDiv(total, mSizeForOnce))
  IN  [i \in 1..number |->
         LET first == (i - 1) * mSizeForOnce
         IN  [first |-> first, rows |-> Least(mSizeForOnce, total - first)]]

RunInstrs(c, o, call) ==
  LET total == SingleMInVec(c, call.m)
      mOffset == c * HalfSingleM(call.m)
      slices == Slices(total)
      buf(i) == (o.outBuf + i - 1) % 2
      slice(i) ==
        << VFDoDequant(o, buf(i), slices[i].first, slices[i].rows, call.n,
             {Free("out", buf(i))} \cup
             (IF i = 1 THEN {Ready(q, 0) : q \in StagedQueues(o)} ELSE {})),
           CopyDequantResFromUb2Gm(o, buf(i),
             call.coord.y + ((mOffset + slices[i].first) * o.n), slices[i].rows, call.n) >>
  IN  <<MatmulResult(c, o, call)>> \o CopyDataFromGm2Ub(c, o, call)
        \o FlattenSeq([i \in 1..Len(slices) |-> slice(i)]) \o <<FreeUbTensor(o)>>

Run(c) ==
  LET call == Head(calls[c])
      o == obj[c]
      total == SingleMInVec(c, call.m)
  IN  /\ Calls(c, "Run") /\ ResultArrived(c)
      /\ IF total = 0
         THEN Call(c, "Run", o, <<>>)
         ELSE Call(c, "Run", [o EXCEPT !.outBuf = (@ + Len(Slices(total))) % 2], RunInstrs(c, o, call))

-----------------------------------------------------------------------------
\* The caller (external): it initialises the epilogue, announces every group,
\* and hands over the group's blocks of at most baseM rows and baseN columns.
RowsBefore(g) == FoldLeft(LAMBDA a, b : a + b, 0, SubSeq(job.ms, 1, g - 1))

GroupBase(g) ==
  [y |-> RowsBefore(g) * job.n, x2 |-> (g - 1) * job.n, x1 |-> RowsBefore(g), bias |-> (g - 1) * job.n]

Blocks(g) ==
  LET across == CeilDiv(job.n, job.baseN)
      down == CeilDiv(job.ms[g], job.baseM)
      block(m, n) ==
        [op |-> "Run", m |-> Least(job.baseM, job.ms[g] - m), n |-> Least(job.baseN, job.n - n),
         coord |-> [y |-> (m * job.n) + n, x2 |-> n, x1 |-> m, bias |-> n],
         at |-> GroupBase(g).y + (m * job.n) + n]
  IN  [i \in 1..(across * down) |->
         block(((i - 1) \div across) * job.baseM, ((i - 1) % across) * job.baseN)]

CallsOf ==
  <<[op |-> "Init"]>> \o
  FlattenSeq([g \in 1..Len(job.ms) |->
    (IF job.grouped
     THEN <<[op |-> "UpdateGroupedParams", base |-> GroupBase(g), groupIdx |-> g - 1]>>
     ELSE <<>>) \o Blocks(g)])

InitDequant == Boot(CallsOf, Constructed, FreeEvents)

NextDequant(c) == InitEpilogue(c) \/ UpdateGroupedParams(c) \/ Run(c)

\* What the output holds at the end: the matmul's element times its scales,
\* plus its bias.
Outputs == {<<"y", i>> : i \in 0..((RowsBefore(Len(job.ms) + 1) * job.n) - 1)}

Expected(cell) ==
  LET row == cell[2] \div job.n
      col == cell[2] % job.n
      group == CHOOSE g \in 1..Len(job.ms) : RowsBefore(g) <= row /\ row < RowsBefore(g + 1)
      x2 == IF job.x2Mode = "PERTENSOR" THEN <<"x2", group - 1>>
                                        ELSE <<"x2", ((group - 1) * job.n) + col>>
      x1 == CASE job.x1Mode = "PERTOKEN" -> << <<"x1", row>> >>
              [] job.x1Mode = "PERTENSOR" -> << <<"x1", group - 1>> >>
              [] OTHER -> <<>>
      bias == IF job.bias THEN << <<"bias", ((group - 1) * job.n) + col>> >> ELSE <<>>
  IN  << <<"mm", cell[2]>>, x2 >> \o x1 \o bias
=============================================================================
