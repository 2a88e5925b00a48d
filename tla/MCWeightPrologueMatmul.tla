----------------------- MODULE MCWeightPrologueMatmul -----------------------
EXTENDS WeightPrologueMatmul
=============================================================================
