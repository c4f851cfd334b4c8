---------------------------- MODULE MC_AttnKVCache ----------------------------
(* Instantiation of AttnKVCache for TLC: two layers (so that a layer other *)
(* than 0 reads the shared class attributes), a cache of two rows, prompts *)
(* of one or two tokens and up to three forwards after the prompt, so that *)
(* greedy and beam search both outgrow the cache; batch sizes 1 and 2 and  *)
(* beam sizes 1 and 2 over three generations, so that the cache is reused, *)
(* reallocated and released between generations.                          *)
EXTENDS AttnKVCache

MCBatches == {1, 2}
MCBeams == {1, 2}
MCPrompts == {1, 2}
MCMaskKinds == {"none", "float"}

\* The fp16 layer and both int4 classes; GPTQ checkpoints, where act_order
\* gives every projection a g_idx or none; both GEMM back ends.
MCImpls == {"fp16", "int4", "int4onednn"}
MCGIdxs == {[p \in Projs |-> g] : g \in BOOLEAN}
MCXetlaModes == BOOLEAN

\* Checkpoints of a GPTQ run whose weight_config sets act_order per layer
\* (gptq.py lines 292-294): any projection may carry a g_idx.
MCMixedGIdxs == [Projs -> BOOLEAN]
=============================================================================
