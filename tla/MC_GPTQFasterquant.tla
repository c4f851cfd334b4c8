------------------------- MODULE MC_GPTQFasterquant -------------------------
(* Instantiation of GPTQFasterquant for TLC: four input channels whose    *)
(* diag(H) is 0 (dead), 1 or 2 in every combination, every block size     *)
(* 1..4 and group size -1, 1..4, with and without act_order.  Four        *)
(* columns are enough for a group to start inside a block, for a block to *)
(* end mid-group and for argsort to produce a 3-cycle.                    *)
EXTENDS GPTQFasterquant

MCDiagValues == {0, 1, 2}

AllConfigs ==
  [blocksize : 1 .. 4, groupsize : {-1, 1, 2, 3, 4}, act_order : BOOLEAN]

\* Every group starts at a block start: no grouping, or groupsize a
\* multiple of blocksize (the default block_size = group_size = 128).
AlignedConfigs ==
  {c \in AllConfigs : c.groupsize = -1 \/ c.groupsize % c.blocksize = 0}

\* A group starts inside a block (group_size=32 with block_size=128).
MidBlockConfigs == AllConfigs \ AlignedConfigs
=============================================================================
