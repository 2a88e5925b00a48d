---------------------- MODULE BlockEpilogueSwigluQuant ----------------------
(* src/common/act/epilogue/block_epilogue_swiglu_mx_quant.h: two results of  *)
(* the cube core are combined (swish of the first times the second), and the *)
(* rows are quantised in groups of MxGroup elements that share one scale,    *)
(* taken from the largest exponent of the group.  The outputs are the        *)
(* quantised rows (a byte per element, or half a byte for fp4) and the       *)
(* scales of each row.                                                       *)
EXTENDS VectorPipes

CONSTANTS
  MxGroup,        \* ONE_BLK_SIZE, the 32 elements that share a scale: also the
                  \* bytes UB rows are aligned to; even
  AlignIn         \* ONE_BLK_SIZE / sizeof(DataTypeIn)

MxfpDivisor == 2 * MxGroup      \* MXFP_DIVISOR_SIZE
MxfpMulti == 2                  \* MXFP_MULTI_BASE_SIZE
SizePerRepeat == 2 * MxGroup    \* VECTOR_REG_WIDTH / sizeof(DataTypeIn)

\* The scales of a row of n elements, rounded up to whole pairs.
ScaleN(n) == CeilDiv(n, MxfpDivisor) * MxfpMulti

Fp4 == job.out = "fp4"

\* Elements per byte of the output.
Packed == IF Fp4 THEN 2 ELSE 1

UpdateNextProblem(c) ==
  Call(c, "UpdateNextProblem",
       [obj[c] EXCEPT !.n = Head(calls[c]).n, !.scaleN = ScaleN(Head(calls[c]).n)], <<>>)

UpdateGlobalAddr(c) ==
  Call(c, "UpdateGlobalAddr",
       [obj[c] EXCEPT !.yGlobal = Head(calls[c]).y, !.scaleGlobal = Head(calls[c]).yScale], <<>>)

-----------------------------------------------------------------------------
\* The instructions of V, for `rows` rows of n elements.
NDstUbAligned(n) == AlignUp(n, MxGroup)

\* The lanes a row's elements are computed in: the mask is set once for a row,
\* from its first register, and used for all of them.
Lanes(n) ==
  {(r * SizePerRepeat) + lane : r \in 0..(CeilDiv(n, SizePerRepeat) - 1),
                              lane \in 0..(Least(n, SizePerRepeat) - 1)}

Swiglu(rows, n) ==
  Compute({}, {},
    [l \in {<<"glu", (m * NDstUbAligned(n)) + k>> : m \in 0..(rows - 1), k \in Lanes(n)} |->
       LET src == ((l[2] \div NDstUbAligned(n)) * AlignUp(n, AlignIn)) + (l[2] % NDstUbAligned(n))
       IN  << <<"first", src>>, <<"second", src>> >>])

Groups(rows, n) == 0..(((rows * NDstUbAligned(n)) \div MxGroup) - 1)

ComputeMaxExp(rows, n) ==
  Compute({}, {},
    [l \in {<<"maxExp", g>> : g \in Groups(rows, n)} |->
       [i \in 1..MxGroup |-> <<"glu", (l[2] * MxGroup) + i - 1>>]])

ComputeScale(rows, n) ==
  Compute({}, {},
    [l \in {<<"scale", g>> : g \in Groups(rows, n)} \cup {<<"halfScale", g>> : g \in Groups(rows, n)} |->
       << <<"maxExp", l[2]>> >>])

\* fp8: an element a byte.  fp4: two elements a byte.
ComputeDataForQuantTargetFp8(rows, n) ==
  Compute({}, {},
    [l \in {<<"out", e>> : e \in 0..((rows * NDstUbAligned(n)) - 1)} |->
       << <<"glu", l[2]>>, <<"halfScale", l[2] \div MxGroup>> >>])

ComputeDataForQuantTargetFp4(rows, n) ==
  Compute({}, {},
    [l \in {<<"out", b>> : b \in 0..(((rows * NDstUbAligned(n)) \div 2) - 1)} |->
       << <<"glu", 2 * l[2]>>, <<"glu", (2 * l[2]) + 1>>, <<"halfScale", (2 * l[2]) \div MxGroup>> >>])

VFDoSwigluAndQuantForMX(rows, n) ==
  << Swiglu(rows, n), ComputeMaxExp(rows, n), ComputeScale(rows, n),
     IF Fp4 THEN ComputeDataForQuantTargetFp4(rows, n)
            ELSE ComputeDataForQuantTargetFp8(rows, n) >>

\* Every row's scales to a UB block of their own.
TransMxScaleLayout(rows, n) ==
  Compute({}, {<<"V_MTE3", 0>>},
    [l \in {<<"scaleBlock", (m * MxGroup) + s>> : m \in 0..(rows - 1), s \in 0..(ScaleN(n) - 1)} |->
       << <<"scale", ((l[2] \div MxGroup) * ScaleN(n)) + (l[2] % MxGroup)>> >>])

\* The instructions of MTE3.  Rows of UB start at multiples of MxGroup bytes.
CopyOutputFromUb2Gm(o, offset, rows, n) ==
  LET len == n \div Packed
      pitch == len + ((o.n - n) \div Packed)
      at == o.yGlobal + (offset \div Packed)
  IN  CopyOut({<<"V_MTE3", 0>>}, {},
        [g \in {<<"y", at + (m * pitch) + k>> : m \in 0..(rows - 1), k \in 0..(len - 1)} |->
           <<"out", (((g[2] - at) \div pitch) * AlignUp(len, MxGroup)) + ((g[2] - at) % pitch)>>])

CopyScaleFromUb2Gm(o, offset, rows, n) ==
  LET at == o.scaleGlobal + offset
  IN  CopyOut({}, {<<"MTE3_V", 0>>},
        [g \in {<<"yScale", at + (m * o.scaleN) + s>> : m \in 0..(rows - 1), s \in 0..(ScaleN(n) - 1)} |->
           <<"scaleBlock",
             (((g[2] - at) \div o.scaleN) * AlignUp(ScaleN(n), MxGroup)) + ((g[2] - at) % o.scaleN)>>])

-----------------------------------------------------------------------------
\* External: the two blocks of the cube core.
MatmulResults(c, o, call, rows) ==
  LET stride == AlignUp(call.n, AlignIn)
      from(l) == call.at + (((c * HalfSingleM(call.m)) + (l[2] \div stride)) * o.n) + (l[2] % stride)
  IN  Compute({}, {},
        [l \in {<<b, (m * stride) + k>> : b \in {"first", "second"}, m \in 0..(rows - 1),
                                        k \in 0..(call.n - 1)} |->
           << <<IF l[1] = "first" THEN "mm1" ELSE "mm2", from(l)>> >>])

\* operator()
DoBlock(c) ==
  LET call == Head(calls[c])
      o == obj[c]
      rows == SingleMInVec(c, call.m)
      below == c * HalfSingleM(call.m)
  IN  /\ ResultArrived(c)
      /\ Call(c, "DoBlock", o,
        IF rows = 0 THEN <<>>
        ELSE <<MatmulResults(c, o, call, rows)>>
             \o VFDoSwigluAndQuantForMX(rows, call.n)
             \o << TransMxScaleLayout(rows, call.n),
                   CopyOutputFromUb2Gm(o, call.coord.y + (below * o.n), rows, call.n),
                   CopyScaleFromUb2Gm(o, call.coord.yScale + (below * o.scaleN), rows, call.n),
                   Compute({<<"MTE3_V", 0>>}, {}, <<>>) >>)

-----------------------------------------------------------------------------
\* The caller (external), as of the dequantising epilogue.  It gives the base
\* of the output in bytes and a block's coordinate in elements.
RowsBefore(g) == FoldLeft(LAMBDA a, b : a + b, 0, SubSeq(job.ms, 1, g - 1))

Blocks(g) ==
  LET across == CeilDiv(job.n, job.baseN)
      down == CeilDiv(job.ms[g], job.baseM)
      block(m, n) ==
        [op |-> "DoBlock", m |-> Least(job.baseM, job.ms[g] - m), n |-> Least(job.baseN, job.n - n),
         coord |-> [y |-> (m * job.n) + n, yScale |-> (m * ScaleN(job.n)) + (n \div MxGroup)],
         at |-> ((RowsBefore(g) + m) * job.n) + n]
  IN  [i \in 1..(across * down) |->
         block(((i - 1) \div across) * job.baseM, ((i - 1) % across) * job.baseN)]

CallsOf ==
  FlattenSeq([g \in 1..Len(job.ms) |->
    << [op |-> "UpdateNextProblem", n |-> job.n],
       [op |-> "UpdateGlobalAddr", y |-> (RowsBefore(g) * job.n) \div Packed,
                                   yScale |-> RowsBefore(g) * ScaleN(job.n)] >> \o Blocks(g)])

InitSwiglu ==
  Boot(CallsOf, [n |-> 0, scaleN |-> 0, yGlobal |-> 0, scaleGlobal |-> 0], {})

NextSwiglu(c) == UpdateNextProblem(c) \/ UpdateGlobalAddr(c) \/ DoBlock(c)

Rows == RowsBefore(Len(job.ms) + 1)

Outputs ==
  {<<"y", i>> : i \in 0..(((Rows * job.n) \div Packed) - 1)}
    \cup {<<"yScale", i>> : i \in 0..((Rows * ScaleN(job.n)) - 1)}

\* What the outputs hold at the end: the element or elements of a byte with the
\* scale of their group, and the scale every group was given.
Glu(e) == << <<"mm1", e>>, <<"mm2", e>> >>

GroupScale(first) == FlattenSeq([i \in 1..MxGroup |-> Glu(first + i - 1)])

Expected(cell) ==
  IF cell[1] = "y"
  THEN FlattenSeq([i \in 1..Packed |-> Glu((cell[2] * Packed) + i - 1)])
         \o GroupScale(((cell[2] * Packed) \div MxGroup) * MxGroup)
  ELSE GroupScale(cell[2] * MxGroup)
=============================================================================
