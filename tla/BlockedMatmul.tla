--------------------------- MODULE BlockedMatmul ----------------------------
(***************************************************************************)
(* What a core group promises: the result of each of its blocks is written *)
(* to global memory once, in block order, and is the right one.            *)
(***************************************************************************)
EXTENDS Integers

CONSTANTS Blocks,   \* the blocks, numbered in the order they are computed
          Expected  \* of each kernel, the right result of each block
VARIABLES kernel,   \* the kernel that runs, chosen at the start
          out       \* the result of each block, NotWritten at first

NotWritten == <<>>

BlockedInit == out = [b \in Blocks |-> NotWritten]

WriteBlock(b) ==
    /\ \A c \in Blocks : out[c] = NotWritten <=> b <= c
    /\ out' = [out EXCEPT ![b] = Expected[kernel][b]]
    /\ UNCHANGED kernel

BlockedNext == \E b \in Blocks : WriteBlock(b)
BlockedSpec == BlockedInit /\ [][BlockedNext]_<<kernel, out>>
=============================================================================
