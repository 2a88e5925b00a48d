--------------------------- MODULE FinalizeRouting ---------------------------
(* A grouped matmul with finalize-routing: the prologue fills the output, all*)
(* cores meet, and the epilogue adds the rows of every group to it.  The     *)
(* kernel that joins the two blocks is not part of the repository; what it   *)
(* does is taken from the blocks' interfaces.                                *)
EXTENDS VectorPipes

CONSTANTS InitZeroLen, DoubleBufferLen, CoreAlign, CoreAlignSmall, UInt32Max,
          MaxOutputM, BlockElements

Prologue == INSTANCE BlockPrologueFinalizeRouting
Epilogue == INSTANCE BlockEpilogueFinalizeRouting

\* SyncAll (external): a core goes on once every core has come here and all it
\* had issued by then is done.
SyncAll(c) ==
  /\ \A d \in SubBlocks :
       calls[d] # <<>> =>
         /\ Head(calls[d]).op # "FillOutput"
         /\ Head(calls[d]).op = "SyncAll" => Drained(d)
  /\ Call(c, "SyncAll", obj[c], <<>>)

-----------------------------------------------------------------------------
\* The caller (external): the blocks of every group, of at most baseM rows and
\* baseN columns.
RowsBefore(g) == FoldLeft(LAMBDA a, b : a + b, 0, SubSeq(job.ms, 1, g - 1))

Blocks(g) ==
  LET across == CeilDiv(job.n, job.baseN)
      down == CeilDiv(job.ms[g], job.baseM)
      block(m, n) ==
        [op |-> "AddRows", m |-> Least(job.baseM, job.ms[g] - m), n |-> Least(job.baseN, job.n - n),
         coord |-> [y |-> n, logit |-> m], at |-> ((RowsBefore(g) + m) * job.n) + n]
  IN  [i \in 1..(across * down) |->
         block(((i - 1) \div across) * job.baseM, ((i - 1) % across) * job.baseN)]

CallsOf ==
  <<[op |-> "FillOutput"], [op |-> "SyncAll"]>> \o
  FlattenSeq([g \in 1..Len(job.ms) |->
    << [op |-> "UpdateNextProblem", n |-> job.n],
       [op |-> "UpdateGlobalAddr", logit |-> RowsBefore(g)] >> \o Blocks(g)])

\* The fields of both blocks.
Constructed ==
  LET p == Prologue!Constructed
      e == Epilogue!Constructed
  IN  [f \in DOMAIN p \cup DOMAIN e |-> IF f \in DOMAIN p THEN p[f] ELSE e[f]]

InitFinalize == Boot(CallsOf, Constructed, {})

NextFinalize(c) ==
  \/ Prologue!FillOutput(c)
  \/ SyncAll(c)
  \/ Epilogue!UpdateNextProblem(c)
  \/ Epilogue!UpdateGlobalAddr(c)
  \/ Epilogue!AddRows(c)

Outputs == {<<"y", i>> : i \in 0..((job.batch * job.n) - 1)}

Expected(cell) == Prologue!Filled(cell)

\* What is added to a place: one value for each row routed to it.
Added(cell) ==
  {Epilogue!Contribution(r, cell[2] % job.n, job.n) :
     r \in {i \in 0..(RowsBefore(Len(job.ms) + 1) - 1) : job.rowIndex[i] = cell[2] \div job.n}}
=============================================================================
