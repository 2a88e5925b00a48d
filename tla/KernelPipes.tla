----------------------------- MODULE KernelPipes -----------------------------
(* The dequantising and the swiglu epilogue, and finalize-routing with its   *)
(* prologue and epilogue, each on the vector cores of a cube core.           *)
EXTENDS VectorPipes

CONSTANTS AlignIn, AlignOut, MxGroup, InitZeroLen, DoubleBufferLen, CoreAlign,
          CoreAlignSmall, UInt32Max, MaxOutputM, BlockElements,
          Jobs      \* the kernels and their parameters

Dequant == INSTANCE BlockEpilogueDequant
Swiglu == INSTANCE BlockEpilogueSwigluQuant
Finalize == INSTANCE FinalizeRouting

\* Groups of rows of one width, handed over in blocks.  The shared input's rows
\* are rows of the output.
Legal(j) ==
  /\ j.kernel \in {"dequant", "swiglu", "finalize"}
  /\ j.ms \in Seq(Nat) /\ j.n \in Nat
  /\ {j.baseM, j.baseN} \subseteq Nat \ {0}
  /\ j.kernel = "finalize" =>
       /\ {j.sharedInputOffset, j.sharedInputLen} \subseteq Nat
       /\ j.batch \in 0..UInt32Max
       /\ j.sharedInputOffset + j.sharedInputLen <= j.batch

\* A cube core has one or two vector cores (GetTaskRation).
ASSUME PipesAssumption ==
  /\ SubBlocks \in {{0}, {0, 1}}
  /\ {InitZeroLen, DoubleBufferLen, CoreAlign, CoreAlignSmall, MaxOutputM} \subseteq Nat \ {0}
  /\ UInt32Max \in Nat
  /\ \A j \in Jobs : Legal(j)

\* No core takes more of the shared input than both of its pairs of buffers
\* hold: none is used twice.  With more rounds the events of the source do not
\* keep the pipes apart (see Round).
AtMostTwoRounds(j) ==
  j.kernel = "finalize" =>
    LET total == j.n * j.sharedInputLen
    IN  Least(total, Finalize!Prologue!ShareOf(total)) <= 2 * DoubleBufferLen

FewRounds == \A j \in Jobs : AtMostTwoRounds(j)

Init ==
  /\ job \in Jobs
  /\ \/ job.kernel = "dequant" /\ Dequant!InitDequant
     \/ job.kernel = "swiglu" /\ Swiglu!InitSwiglu
     \/ job.kernel = "finalize" /\ Finalize!InitFinalize

\* The cores take turns between barriers.  A core reads its own UB and inputs
\* nobody writes, and what it writes to global memory the others never read, so
\* the order among cores makes no difference to the values a place gets; the
\* three pipes of a core run in any order.
Turn(c) ==
  \A d \in SubBlocks : d < c =>
    /\ Drained(d)
    /\ calls[d] # <<>> => Head(calls[d]).op = "SyncAll"

Next ==
  \/ \E c \in SubBlocks :
       /\ Turn(c)
       /\ \/ job.kernel = "dequant" /\ Dequant!NextDequant(c)
          \/ job.kernel = "swiglu" /\ Swiglu!NextSwiglu(c)
          \/ job.kernel = "finalize" /\ Finalize!NextFinalize(c)
          \/ \E p \in Pipes : Execute(c, p)
  \/ Stop

Fairness == WF_vars(Next)

Spec == Init /\ [][Next]_vars /\ Fairness

-----------------------------------------------------------------------------
Outputs ==
  CASE job.kernel = "dequant" -> Dequant!Outputs
    [] job.kernel = "swiglu" -> Swiglu!Outputs
    [] job.kernel = "finalize" -> Finalize!Outputs

Expected(cell) ==
  CASE job.kernel = "dequant" -> Dequant!Expected(cell)
    [] job.kernel = "swiglu" -> Swiglu!Expected(cell)
    [] job.kernel = "finalize" -> Finalize!Expected(cell)

Added(cell) == IF job.kernel = "finalize" THEN Finalize!Added(cell) ELSE {}

\* The places of the output before and after the shared input's.
OutsideShared(cell) == job.kernel = "finalize" /\ ~Finalize!Prologue!FromShared(cell)

\* Whatever the order in which the pipes of the two cores run, a copy to global
\* memory writes only places of the output, and writes there what belongs
\* there: the first value is the element computed from its own inputs (its
\* scales, its bias, its logit, or the shared input), every later one a routed
\* row, none of them twice.  Whether the places outside the shared input first
\* get a zero is a property of its own.
OutputsRight ==
  \A g \in DOMAIN gm :
    /\ g \in Outputs
    /\ OutsideShared(g) \/ gm[g][1] = Expected(g)
    /\ \A i \in 2..Len(gm[g]) :
         /\ gm[g][i] \in Added(g)
         /\ \A j \in 2..(i - 1) : gm[g][i] # gm[g][j]

\* The places outside the shared input first get zeros: initWithZero_ holds
\* zeros when it is copied out, initialised once as block_prologue_finalize_
\* routing.h:90 says.
ZerosCopiedOut == \A g \in DOMAIN gm : OutsideShared(g) => gm[g][1] = Expected(g)

\* No event is set again before it was waited for, and when the work is done
\* the events are as they were at first: the next kernel finds no event set.
EventsInPairs ==
  \A c \in SubBlocks :
    /\ \A e \in BagToSet(flag[c]) : flag[c][e] = 1
    /\ Finished => BagToSet(flag[c]) =
         (CASE job.kernel = "dequant" -> Dequant!FreeEvents
            [] job.kernel = "swiglu" -> {}
            [] job.kernel = "finalize" -> {})

\* The cores never wait for an event that does not come, and in the end every
\* place of the output was written once, and every routed row added once.
Completes ==
  <>(/\ Finished
     /\ DOMAIN gm = Outputs
     /\ \A g \in DOMAIN gm : Len(gm[g]) = 1 + Cardinality(Added(g)))
=============================================================================
