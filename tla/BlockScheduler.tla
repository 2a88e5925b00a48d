--------------------------- MODULE BlockScheduler ----------------------------
(***************************************************************************)
(* BlockSchedulerSwizzleInMnCore and the loops of the kernel that use it:  *)
(* the cube cores form a grid of blockDim[M] x blockDim[N]; each owns a    *)
(* rectangle of the result and computes it in blocks of tile[M] x tile[N]. *)
(* The vector cores of a group run the same schedule on their own, without *)
(* exchanging it: only the arithmetic keeps the group on one block.        *)
(***************************************************************************)
EXTENDS Integers

CONSTANTS Problems,  \* the parameters the host may choose
          BLOCK_CUBE \* granularity of the cube unit, 16 in the code

Dims == {"M", "N"}
Sizes == [Dims -> Nat \ {0}]
CeilDiv(a, b) == (a + b - 1) \div b
CeilAlign(a, b) == CeilDiv(a, b) * b
Smaller(a, b) == IF a < b THEN a ELSE b

\* Rows (columns) that every core but the last of its column (row) owns.
SingleOf(p, d) == CeilAlign(CeilDiv(p.size[d], p.blockDim[d]), BLOCK_CUBE)

\* The subtraction that gives the last core its share is unsigned: the host must not
\* start a core that would have none.
LastHasWork(p) == \A d \in Dims : (p.blockDim[d] - 1) * SingleOf(p, d) < p.size[d]
ASSUME SchedulerAssumption ==
    /\ Problems \subseteq [size : Sizes, tile : Sizes, blockDim : Sizes, order : {0, 1},
                     taskRation : Nat]
    /\ \A p \in Problems : LastHasWork(p)
    /\ BLOCK_CUBE \in Nat \ {0}

VARIABLES problem, \* the parameters of this launch
          loopIdx  \* the loop counter of each core
schedulerVars == <<problem, loopIdx>>

BlockNum(p) == p.blockDim["M"] * p.blockDim["N"]
\* taskRation is the number of vector cores per cube core (GetTaskRation), 0 when there are none.
\* A core is a pair of its kind and its GetBlockIdx.
Cores(p) == ({"AIC"} \X (0 .. BlockNum(p) - 1))
              \cup ({"AIV"} \X (0 .. p.taskRation * BlockNum(p) - 1))
CurBlockIdx_SameForAll(p, c) == c[2]
CurBlockIdx(p, c) == IF c[1] = "AIV" THEN c[2] \div p.taskRation ELSE c[2]

\* What the constructor computes for one core.
DimIdx_Swapped(p, c, d) ==
    IF d = "M" THEN CurBlockIdx(p, c) % p.blockDim["N"] ELSE CurBlockIdx(p, c) \div p.blockDim["N"]
DimIdx(p, c, d) ==
    IF d = "M" THEN CurBlockIdx(p, c) % p.blockDim["M"] ELSE CurBlockIdx(p, c) \div p.blockDim["M"]
SingleCoreSize(p, c, d) ==
    IF DimIdx(p, c, d) # p.blockDim[d] - 1 THEN SingleOf(p, d)
    ELSE p.size[d] - (p.blockDim[d] - 1) * SingleOf(p, d)
Iter(p, c, d) == CeilDiv(SingleCoreSize(p, c, d), p.tile[d])
BlockOffset(p, c, d) == DimIdx(p, c, d) * SingleOf(p, d)
CoreLoops(p, c) == Iter(p, c, "M") * Iter(p, c, "N") * BlockNum(p)

\* GetBlockCoord and GetActualBlockShape.
TaskIdx_OtherIter(p, c, task, d) ==
    LET local == task \div BlockNum(p)
        fast == IF p.order = 1 THEN "M" ELSE "N"
    IN  IF d = fast THEN local % Iter(p, c, d) ELSE local \div Iter(p, c, d)
TaskIdx(p, c, task, d) ==
    LET local == task \div BlockNum(p)
        fast == IF p.order = 1 THEN "M" ELSE "N"
    IN  IF d = fast THEN local % Iter(p, c, d) ELSE local \div Iter(p, c, fast)
BlockCoord(p, c, task) ==
    [d \in Dims |-> BlockOffset(p, c, d) + TaskIdx(p, c, task, d) * p.tile[d]]
ActualBlockShape_Unclipped(p, coord) == p.tile
ActualBlockShape(p, coord) == [d \in Dims |-> Smaller(p.size[d] - coord[d], p.tile[d])]

SchedulerInit ==
    /\ problem \in Problems
    /\ loopIdx = [c \in Cores(problem) |-> CurBlockIdx(problem, c)]

\* One pass of a core's loop: the block at loopIdx, then the next.
Pass(c) ==
    /\ loopIdx[c] < CoreLoops(problem, c)
    /\ loopIdx' = [loopIdx EXCEPT ![c] = @ + BlockNum(problem)]
    /\ UNCHANGED problem

SchedulerNext == \E c \in DOMAIN loopIdx : Pass(c)
SchedulerSpec == SchedulerInit /\ [][SchedulerNext]_schedulerVars

-----------------------------------------------------------------------------
\* The tasks a core has done, and the cells of the result a task computes.
Passes(c) == (loopIdx[c] - CurBlockIdx(problem, c)) \div BlockNum(problem)
TasksDone(c) == {CurBlockIdx(problem, c) + i * BlockNum(problem) : i \in 0 .. Passes(c) - 1}
Cells(c, task) ==
    LET coord == BlockCoord(problem, c, task)
        shape == ActualBlockShape(problem, coord)
    IN  (coord["M"] .. coord["M"] + shape["M"] - 1)
          \X (coord["N"] .. coord["N"] + shape["N"] - 1)
Result == (0 .. problem.size["M"] - 1) \X (0 .. problem.size["N"] - 1)

CubeCores == {c \in DOMAIN loopIdx : c[1] = "AIC"}
Finished(c) == loopIdx[c] >= CoreLoops(problem, c)
CellsOf(c) == UNION {Cells(c, t) : t \in TasksDone(c)}

\* No block reaches outside the result: GetActualBlockShape clips the last ones.
BlocksInsideResult == \A c \in DOMAIN loopIdx : CellsOf(c) \subseteq Result

\* When the cube cores have left their loops, every cell of the result is computed: the
\* grid of cores, the share of the last core and the clipped blocks leave no gap.
ResultIsCovered ==
    (\A c \in CubeCores : Finished(c)) => Result \subseteq UNION {CellsOf(c) : c \in CubeCores}

\* No cell is computed twice when the tile divides the cores' shares. (A block is clipped at
\* the edge of the result and not at the edge of its core's share, so it may otherwise reach
\* into the share of the next core, which computes the same cells again.)
TileDividesShare == \A d \in Dims : SingleOf(problem, d) % problem.tile[d] = 0
NothingComputedTwice ==
    TileDividesShare =>
        \A c1, c2 \in CubeCores : \A t1 \in TasksDone(c1), t2 \in TasksDone(c2) :
            <<c1, t1>> # <<c2, t2>> => Cells(c1, t1) \cap Cells(c2, t2) = {}

\* A vector core works for cube core (GetBlockIdx \div TaskRation). Having made equally many
\* passes, both are at the same block or both have left the loop.
GroupOnOneBlock ==
    \A c, v \in DOMAIN loopIdx :
        (c[1] = "AIC" /\ v[1] = "AIV" /\ v[2] \div problem.taskRation = c[2] /\ Passes(c) = Passes(v)) =>
            /\ Finished(c) <=> Finished(v)
            /\ ~Finished(c) => BlockCoord(problem, c, loopIdx[c]) = BlockCoord(problem, v, loopIdx[v])
=============================================================================
