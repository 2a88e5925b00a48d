---------------------------- MODULE MCTilingCache ----------------------------
(* An instance of TilingCache for TLC: three inputs, two of which collide,  *)
(* and room for two entries. One value per input is enough: the two inputs  *)
(* of one slot already give it two different contents.                      *)
EXTENDS TilingCache, TLC

CONSTANTS a, b, c, k1, k2, i1, i2, i3, v1

MCReaders == {a, b}
MCWriters == {a, c}
MCKeys == {k1, k2}
MCInputs == {i1, i2, i3}
MCVals == {v1}
MCHashOf == (i1 :> k1) @@ (i2 :> k1) @@ (i3 :> k2)
=============================================================================
