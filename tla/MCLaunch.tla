------------------------------ MODULE MCLaunch -------------------------------
(***************************************************************************)
(* A launch of the mixed matmul, in three parts that share no state: the   *)
(* layout of L1, the schedule of the cores, and the choice of the tiles.   *)
(* A behaviour is one of one part, the others stay as they were.           *)
(***************************************************************************)
EXTENDS L1Layout, BlockScheduler, TileShapes, FiniteSets

CONSTANTS MaxSize, TileSizes, Grids, MaxMixedSize

VARIABLE scope   \* the part examined

LaunchInit ==
    \/ /\ scope = "layout"
       /\ Init
       /\ problem = (CHOOSE p \in Problems : TRUE) /\ SchedulerInit
       /\ PlanInit
    \/ /\ scope = "schedule"
       /\ SchedulerInit
       /\ shape = (CHOOSE s \in Shapes : TRUE) /\ Init
       /\ PlanInit
    \/ /\ scope = "tiles"
       /\ PlanInit
       /\ shape = (CHOOSE s \in Shapes : TRUE) /\ Init
       /\ problem = (CHOOSE p \in Problems : TRUE) /\ SchedulerInit

LayoutStep   == scope = "layout" /\ Next /\ UNCHANGED <<scope, schedulerVars, planVars>>
ScheduleStep == scope = "schedule" /\ SchedulerNext /\ UNCHANGED <<scope, vars, planVars>>
TilesStep    == scope = "tiles" /\ PlanNext /\ UNCHANGED <<scope, vars, schedulerVars>>
LaunchNext   == LayoutStep \/ ScheduleStep \/ TilesStep
LaunchSpec   == LaunchInit /\ [][LaunchNext]_<<scope, vars, schedulerVars, planVars>>

-----------------------------------------------------------------------------
\* Every shape with small sizes that fits; the largest fill a half to the last byte.
MCShapes ==
    {s \in [bufNum : {1, 2, 4}, hasBias : BOOLEAN, size : [Kinds -> {1, 3}]] : Fits(s)}

PerDim(S) == [Dims -> S]
Launches(n, tiles, grids, rations) ==
    {p \in [size : PerDim(1 .. n), tile : PerDim(tiles), blockDim : PerDim(grids),
            order : {0, 1}, taskRation : rations] : LastHasWork(p)}
\* Every result up to MaxSize x MaxSize on every grid of cube cores on which each has work, and
\* smaller ones with vector cores, of which the smallest tile is enough to take several passes.
MCProblems ==
    Launches(MaxSize, TileSizes, Grids, {0}) \cup Launches(MaxMixedSize, {2}, {1, 2}, {2})

\* Tiles at, below and above every limit of the device, with every combination of types that some
\* block supports and one that none does.
MCTypes ==
    {<<"multiBlock", "half", "half", "half">>, <<"multiBlock", "half", "half", "float">>,
     <<"multiBlock", "bf16", "bf16", "bf16">>, <<"multiBlock", "int8", "int8", "int32">>,
     <<"multiBlock", "float", "float", "float">>, <<"multiBlock", "hifloat8", "hifloat8", "float">>,
     <<"quant", "fp8_e5m2", "fp8_e4m3fn", "float">>, <<"quant", "fp8_e5m2", "fp8_e4m3fn", "half">>,
     <<"mx", "fp4x2_e2m1", "fp4x2_e1m2", "float">>}
L1Tiles ==
    {<<m, n, k>> : m \in {0, 64, 72, 128, 256}, n \in {128, 256, 272}, k \in {32, 64, 256, 272, 512}}
      \cup {<<128, 128, 128, kb>> : kb \in {64, 192, 256, 2048}}
ForTiles(t, l1, k, m, n, cores) ==
    [kind |-> t[1], a |-> t[2], b |-> t[3], c |-> t[4], hasBias |-> FALSE, l1 |-> l1,
     l0 |-> <<l1[1], l1[2], k>>, m |-> m, n |-> n, batch |-> 0, cores |-> cores]
MCPlans ==
    {ForTiles(t, l1, k, 300, 1500, 20) : t \in MCTypes, l1 \in L1Tiles, k \in {0, 16, 64, 128, 256}}
      \cup {[ForTiles(<<"multiBlock", "half", "half", "float">>, <<64, 64, 64>>, 64, m, n, cores)
               EXCEPT !.batch = b] :
              m \in {0, 64, 100, 200, 320}, n \in {1, 128, 390, 640}, b \in {0, 1, 3}, cores \in {1, 6, 7, 20}}
      \cup {[ForTiles(<<"multiBlock", "bf16", "bf16", "float">>, <<64, 64, 64>>, 64, 64, 64, 20)
               EXCEPT !.hasBias = TRUE, !.l0[1] = m] : m \in {48, 64}}
=============================================================================
