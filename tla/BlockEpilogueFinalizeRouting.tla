-------------------- MODULE BlockEpilogueFinalizeRouting --------------------
(* src/common/act/epilogue/block_epilogue_finalize_routing.h: the rows of a  *)
(* matmul block, put into UB by the cube core, are multiplied with their     *)
(* logits and added to the rows of the output that rowIndex names, through   *)
(* two output buffers; the logits have two buffers as well.                  *)
EXTENDS VectorPipes

CONSTANTS
  MaxOutputM,     \* MAX_OUTPUT_M_UB: the rows an output buffer holds
  BlockElements   \* BLOCK_ELEMENTS_FP32: UB rows start at multiples of it

Constructed == [n |-> 0, logitGlobal |-> 0, yId |-> 0, logitId |-> 0]

LogitBuf(id) == IF id = 0 THEN "logit ping" ELSE "logit pong"
OutBuf(id) == IF id = 0 THEN "out ping" ELSE "out pong"

UpdateNextProblem(c) ==
  Call(c, "UpdateNextProblem", [obj[c] EXCEPT !.n = Head(calls[c]).n], <<>>)

\* The logits and the row indices of the group start at the same offset.
UpdateGlobalAddr(c) ==
  Call(c, "UpdateGlobalAddr", [obj[c] EXCEPT !.logitGlobal = Head(calls[c]).logit], <<>>)

CopyInLogit(o, rows, offset) ==
  CopyIn({}, {<<"MTE2_V", o.logitId>>},
    [l \in {<<LogitBuf(o.logitId), k>> : k \in 0..(rows - 1)} |->
       << <<"logit", o.logitGlobal + offset + l[2]>> >>])

\* The computation of slice number i of the block's rows into buffer y.
LogitMuls(o, y, i, rows, n, waits) ==
  LET alignN == AlignUp(n, BlockElements)
  IN  Compute(waits, {<<"V_MTE3", y>>},
        [l \in {<<OutBuf(y), (m * alignN) + k>> : m \in 0..(rows - 1), k \in 0..(n - 1)} |->
           << <<"l0c", (i * MaxOutputM * alignN) + l[2]>>,
              <<LogitBuf(o.logitId), (i * MaxOutputM) + (l[2] \div alignN)>> >>])

\* A mutant: the buffer is overwritten without waiting for its copies.
VFDoLogitMuls_NotWaiting(o, y, i, rows, n, waits) == LogitMuls(o, y, i, rows, n, waits)

VFDoLogitMuls(o, y, i, rows, n, waits) ==
  LogitMuls(o, y, i, rows, n, waits \cup {<<"MTE3_V", y>>})

\* Row after row: the scalar unit reads the output row, MTE3 adds to it.
VectorAtomicProcess(o, y, rows, n, offset, yOffset) ==
  LET alignN == AlignUp(n, BlockElements)
      out(m) == (job.rowIndex[o.logitGlobal + offset + m] * o.n) + yOffset
      add(m) ==
        CopyOut(IF m = 0 THEN {<<"V_MTE3", y>>} ELSE {},
                IF m = rows - 1 THEN {<<"MTE3_V", y>>} ELSE {},
          [g \in {<<"y", out(m) + k>> : k \in 0..(n - 1)} |->
             <<OutBuf(y), (m * alignN) + (g[2] - out(m))>>])
  IN  [i \in 1..rows |-> add(i - 1)]

\* External: the rows of the block the cube core computed.
MatmulResult(c, o, call, rows) ==
  LET stride == AlignUp(call.n, BlockElements)
  IN  Compute({}, {},
        [l \in {<<"l0c", (m * stride) + k>> : m \in 0..(rows - 1), k \in 0..(call.n - 1)} |->
           << <<"mm", call.at + (((c * HalfSingleM(call.m)) + (l[2] \div stride)) * o.n)
                              + (l[2] % stride)>> >>])

\* A mutant: at the end V waits only for the copies from the buffer used last.
AllCopied_LastUsed(o) == {<<"MTE3_V", 1 - o.yId>>}

\* At the end V waits for the copies from both buffers.
AllCopied(o) == {<<"MTE3_V", id>> : id \in 0..1}

\* operator(): both output buffers are declared free, used in turn, and waited
\* for at the end; the logits' buffer changes with every call.
AddRows(c) ==
  LET call == Head(calls[c])
      o == obj[c]
      rows == SingleMInVec(c, call.m)
      logitOffset == call.coord.logit + (c * HalfSingleM(call.m))
      loopNumY == CeilDiv(rows, MaxOutputM)
      y(i) == (o.yId + i) % 2
      slice(i) ==
        LET first == i * MaxOutputM
            size == Least(MaxOutputM, rows - first)
        IN  <<VFDoLogitMuls(o, y(i), i, size, call.n, IF i = 0 THEN {<<"MTE2_V", o.logitId>>} ELSE {})>>
            \o VectorAtomicProcess(o, y(i), size, call.n, logitOffset + first, call.coord.y)
      next == (o.logitId + 1) % 2
  IN  /\ Calls(c, "AddRows") /\ ResultArrived(c)
      /\ IF rows = 0
         THEN Call(c, "AddRows", o, <<>>)
         ELSE Call(c, "AddRows",
             [o EXCEPT !.logitId = next, !.yId = (@ + loopNumY) % 2],
             << MatmulResult(c, o, call, rows), CopyInLogit(o, rows, logitOffset),
                CopyOut({}, {<<"MTE3_V", 0>>, <<"MTE3_V", 1>>}, <<>>) >>
               \o FlattenSeq([i \in 1..loopNumY |-> slice(i - 1)])
               \o << Compute(AllCopied(o), {<<"V_MTE2", next>>}, <<>>),
                     CopyIn({<<"V_MTE2", next>>}, {}, <<>>) >>)

\* The value a row adds to a place of the output.
Contribution(row, col, n) == << <<"mm", (row * n) + col>>, <<"logit", row>> >>
=============================================================================
