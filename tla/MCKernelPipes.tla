---------------------------- MODULE MCKernelPipes ----------------------------
(* Small jobs of each kernel, for two vector cores.                          *)
EXTENDS KernelPipes

\* Two groups of rows, blocks of 5 rows: the cores get 3 and 2 rows, 1 and 0
\* rows, or 5 and 4.  The combinations of modes whose sources the code reads
\* are all there; the others are excluded: see the README.
DequantJobs ==
  {[kernel |-> "dequant", x1Mode |-> x1, x2Mode |-> x2, bias |-> b, grouped |-> TRUE,
    n |-> 3, baseN |-> 3, ms |-> ms, baseM |-> 9] :
     x1 \in {"DEFAULT", "PERTENSOR", "PERTOKEN"}, x2 \in {"PERTENSOR", "PERCHANNEL"},
     b \in BOOLEAN, ms \in {<<9, 1>>}}

LegalDequantJobs ==
  {j \in DequantJobs :
     /\ j.x1Mode = "PERTENSOR" => j.x2Mode = "PERCHANNEL" /\ ~j.bias
     /\ j.x1Mode = "DEFAULT" /\ ~j.bias => j.x2Mode = "PERCHANNEL"}

\* One problem that is never announced as a group, in four blocks.
PlainDequantJob ==
  [kernel |-> "dequant", x1Mode |-> "PERTOKEN", x2Mode |-> "PERCHANNEL", bias |-> FALSE,
   grouped |-> FALSE, n |-> 5, baseN |-> 3, ms |-> <<3>>, baseM |-> 2]

\* Rows are whole pairs of groups, as line 583 of the source says.
SwigluJobs ==
  {[kernel |-> "swiglu", out |-> out, n |-> n, baseN |-> 8, ms |-> ms, baseM |-> 2] :
     out \in {"fp8", "fp4"}, n \in {8, 16}, ms \in {<<1, 2>>, <<3>>}}

\* Ten rows of two groups go to three of the four output rows; the shared input
\* fills two or three rows, or none.  A core has two rounds, or one.
FinalizeJobs ==
  {[kernel |-> "finalize", n |-> 3, baseN |-> 3, ms |-> <<9, 1>>, baseM |-> 9, batch |-> 4,
    sharedInputOffset |-> s[1], sharedInputLen |-> s[2],
    rowIndex |-> [r \in 0..9 |-> (r * 2) % 3]] :
     s \in {<<0, 0>>, <<0, 3>>, <<1, 2>>}}

NarrowBlocksJob ==
  [kernel |-> "finalize", n |-> 5, baseN |-> 3, ms |-> <<3>>, baseM |-> 2, batch |-> 3,
   sharedInputOffset |-> 2, sharedInputLen |-> 1, rowIndex |-> [r \in 0..2 |-> 2 - r]]

\* No core uses a pair of buffers twice.
ASSUME MCFewRounds == FewRounds

MCJobs ==
  LegalDequantJobs \cup {PlainDequantJob} \cup SwigluJobs \cup FinalizeJobs \cup {NarrowBlocksJob}
=============================================================================
