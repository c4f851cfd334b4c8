------------------------------ MODULE GPTQDriver ------------------------------
(***************************************************************************)
(* GPTQuantizer.execute_quantization (gptq/gptq.py): the block-wise       *)
(* driver.  pre_quantization replays every selected calibration batch     *)
(* through the model with a hook on the first transformer block that      *)
(* caches the block's keyword tensors and positional arguments and aborts *)
(* the forward by raising ValueError.  Then, for each block: a GPTQ       *)
(* object per sub-layer get_layer_config gives settings, a first pass over the cached inputs   *)
(* with add_batch hooks, fasterquant per sub-layer (the weight written    *)
(* back), a second pass computing the block's outputs with the quantized  *)
(* weights, and update_blockwise_hidden_states making those outputs the  *)
(* next block's inputs.                                                   *)
(*                                                                         *)
(* A cached argument is a record naming the calibration batch it came     *)
(* from; a hidden state also records how many blocks it went through,     *)
(* whether all of them were quantized, and whether every block forward    *)
(* it went through got the keyword arguments of its own batch.            *)
(***************************************************************************)
EXTENDS Integers, Sequences, FiniteSets

CONSTANTS
  Datasets,    \* possible self.dataloader: sequences of [reaches, kw]
  KwNames,     \* keyword tensors the model may pass to a block
  HiddenModes, \* TRUE: the model passes hidden_states to a block by keyword
  NBlocks,     \* len(gptq_related_blocks["transformers"])
  Layers,      \* quantizable sub-layers of a block (find_layers)
  NoConfigs    \* possible noConfig: block -> sub-layers get_layer_config maps to None

ASSUME \A d \in Datasets : \A n \in DOMAIN d :
         d[n].reaches \in BOOLEAN /\ d[n].kw \subseteq KwNames
ASSUME NBlocks \in Nat \ {0} /\ HiddenModes \subseteq BOOLEAN

KeyNames == KwNames \cup {"hidden_states"}
Blocks == 0 .. NBlocks - 1

VARIABLES
  dataloader, \* self.dataloader after prepare_dataloader
  hiddenKw,   \* how the model calls its blocks
  phase,      \* "pre", "setup", "calib", "quant", "out", "done" or "error"
  pos,        \* pre_quantization: index of the next batch
  keyCache,   \* self.cache_key_arguments (without "i"): key -> list
  posCache,   \* self.cache_positional_arguments: list of lists
  blk,        \* block_idx
  j,          \* index of the next cached batch in a forward pass
  hstate,     \* sub-layer -> GPTQ object's H: "held" or "freed"
  hin,        \* sub-layer -> the inputs add_batch saw, in order
  hooks,      \* the add_batch forward hooks are registered
  outs,       \* outputs of the second pass
  weight,     \* block -> sub-layer -> "fp", "q" or "zero"
  qin,        \* history: block -> sub-layer -> hin when fasterquant ran
  noConfig    \* block -> sub-layers whose get_layer_config(full name) is None

vars == <<dataloader, hiddenKw, phase, pos, keyCache, posCache, blk, j,
          hstate, hin, hooks, outs, weight, qin, noConfig>>

Arg(n) == [src |-> n, depth |-> 0, quant |-> TRUE, aligned |-> TRUE]

Present(k) == keyCache[k] # <<>>

(* Lines 330-347: the hook on block 0.  Every tensor keyword is appended  *)
(* to its list, created on first use, and every positional argument to   *)
(* the list of its index; then it raises ValueError.                      *)
HookCache(n) ==
  LET kws == dataloader[n].kw \cup (IF hiddenKw THEN {"hidden_states"} ELSE {})
  IN /\ keyCache' = [k \in KeyNames |-> IF k \in kws THEN Append(keyCache[k], Arg(n))
                                       ELSE keyCache[k]]
     /\ posCache' = IF hiddenKw THEN posCache
                    ELSE IF posCache = <<>> THEN <<<<Arg(n)>>>>
                    ELSE [posCache EXCEPT ![1] = Append(@, Arg(n))]

Init ==
  /\ dataloader \in Datasets
  /\ hiddenKw \in HiddenModes
  /\ phase = "pre"
  /\ pos = 1
  /\ keyCache = [k \in KeyNames |-> <<>>]
  /\ posCache = <<>>       \* cache_positional_arguments=None becomes []
  /\ blk = 0
  /\ j = 0
  /\ hstate = [l \in Layers |-> "freed"]
  /\ hin = [l \in Layers |-> <<>>]
  /\ hooks = FALSE
  /\ outs = <<>>
  /\ weight = [b \in Blocks |-> [l \in Layers |-> "fp"]]
  /\ qin = [b \in Blocks |-> [l \in Layers |-> <<>>]]
  /\ noConfig \in NoConfigs

(* Lines 368-379: one batch through the model.  A batch the model itself  *)
(* rejects with ValueError before block 0 is swallowed like the hook's.   *)
PreForward ==
  /\ phase = "pre"
  /\ pos <= Len(dataloader)
  /\ IF dataloader[pos].reaches THEN HookCache(pos)
     ELSE UNCHANGED <<keyCache, posCache>>
  /\ pos' = pos + 1
  /\ UNCHANGED <<dataloader, hiddenKw, phase, blk, j, hstate, hin, hooks, outs, weight, qin, noConfig>>

PreDone ==
  /\ phase = "pre"
  /\ pos > Len(dataloader)
  /\ phase' = "setup"
  /\ UNCHANGED <<dataloader, hiddenKw, pos, keyCache, posCache, blk, j, hstate, hin,
                 hooks, outs, weight, qin, noConfig>>

\* Mutant: every quantizable sub-layer kept, whatever get_layer_config says.
SubLayersNoFilter(b) == Layers

(* Step 2.1, lines 443-456: the sub-layers of the block that             *)
(* get_layer_config does not map to None (the others are only logged).    *)
SubLayers(b) == Layers \ noConfig[b]

(* Lines 434-489: a GPTQ object (H = 0) per sub-layer kept by step 2.1   *)
(* and their add_batch hooks registered.                                   *)
BlockSetup ==
  /\ phase = "setup"
  /\ hstate' = [l \in Layers |-> IF l \in SubLayers(blk) THEN "held" ELSE "freed"]
  /\ hin' = [l \in Layers |-> <<>>]
  /\ hooks' = TRUE
  /\ j' = 0
  /\ phase' = "calib"
  /\ UNCHANGED <<dataloader, hiddenKw, pos, keyCache, posCache, blk, outs, weight, qin, noConfig>>

(* Lines 404-416: gather_single_batch_from_dict / _from_list index every  *)
(* cached list by jj; a list shorter than the dataloader raises           *)
(* IndexError.  With nothing cached the block is called without its      *)
(* hidden states and raises TypeError.                                     *)
GatherFails(jj) ==
  \/ \E k \in KeyNames : Present(k) /\ Len(keyCache[k]) < jj
  \/ \E idx \in DOMAIN posCache : Len(posCache[idx]) < jj
  \/ ~Present("hidden_states") /\ posCache = <<>>

\* The block's hidden-state input for cached batch jj, with its keywords.
BlockInput(jj) ==
  LET h == IF Present("hidden_states") THEN keyCache["hidden_states"][jj]
           ELSE posCache[1][jj]
  IN [h EXCEPT !.aligned = @ /\ \A k \in KwNames :
                                  Present(k) => keyCache[k][jj].src = h.src]

(* transformer_block called on the gathered positional and keyword       *)
(* arguments, with the hooks as they are: each hooked add_batch sees the  *)
(* input, and add_batch on a freed GPTQ (H = None) raises.                *)
BlockForward(jj) ==
  LET h == BlockInput(jj)
  IN IF GatherFails(jj) \/ (hooks /\ \E l \in SubLayers(blk) : hstate[l] # "held")
       THEN phase' = "error" /\ UNCHANGED hin
     ELSE /\ hin' = IF hooks THEN [l \in Layers |-> IF l \in SubLayers(blk) THEN Append(hin[l], h)
                                                   ELSE hin[l]]
                    ELSE hin
          /\ UNCHANGED phase

(* Lines 490-502: the first pass, then the hooks removed.                  *)
CalibStep ==
  /\ phase = "calib"
  /\ j < Len(dataloader)
  /\ BlockForward(j + 1)
  /\ j' = j + 1
  /\ UNCHANGED <<dataloader, hiddenKw, pos, keyCache, posCache, blk, hstate, hooks, outs,
                 weight, qin, noConfig>>

\* Mutant: the add_batch hooks are left registered.
CalibDoneKeepsHooks ==
  /\ phase = "calib"
  /\ j >= Len(dataloader)
  /\ phase' = "quant"
  /\ UNCHANGED <<dataloader, hiddenKw, pos, keyCache, posCache, blk, j, hstate, hin, outs,
                 weight, qin, hooks, noConfig>>

CalibDone ==
  /\ phase = "calib"
  /\ j >= Len(dataloader)
  /\ hooks' = FALSE
  /\ phase' = "quant"
  /\ UNCHANGED <<dataloader, hiddenKw, pos, keyCache, posCache, blk, j, hstate, hin, outs,
                 weight, qin, noConfig>>

(* Lines 504-531: fasterquant on the layer's own weight; with no          *)
(* add_batch every channel is dead and the written weight is zero.  The   *)
(* result goes to gptq_config and free() drops H.                          *)
QuantLayer(l) ==
  /\ phase = "quant"
  /\ hstate[l] = "held"
  /\ weight' = [weight EXCEPT ![blk][l] = IF hin[l] = <<>> THEN "zero" ELSE "q"]
  /\ qin' = [qin EXCEPT ![blk][l] = hin[l]]
  /\ hstate' = [hstate EXCEPT ![l] = "freed"]
  /\ UNCHANGED <<dataloader, hiddenKw, phase, pos, keyCache, posCache, blk, j, hin, hooks,
                 outs, noConfig>>

QuantDone ==
  /\ phase = "quant"
  /\ \A l \in Layers : hstate[l] = "freed"
  /\ phase' = "out"
  /\ j' = 0
  /\ outs' = <<>>
  /\ UNCHANGED <<dataloader, hiddenKw, pos, keyCache, posCache, blk, hstate, hin, hooks,
                 weight, qin, noConfig>>

\* The block's output for an input, computed with the block's weights now.
Output(h) ==
  [h EXCEPT !.depth = @ + 1,
            !.quant = @ /\ \A l \in SubLayers(blk) : weight[blk][l] # "fp"]

(* Lines 533-546: the second pass collects the outputs.                    *)
OutStep ==
  /\ phase = "out"
  /\ j < Len(dataloader)
  /\ BlockForward(j + 1)
  /\ outs' = IF GatherFails(j + 1) THEN outs ELSE Append(outs, Output(BlockInput(j + 1)))
  /\ j' = j + 1
  /\ UNCHANGED <<dataloader, hiddenKw, pos, keyCache, posCache, blk, hstate, hooks, weight,
                 qin, noConfig>>

(* Lines 418-422 and 547-556: the outputs replace the cached hidden      *)
(* states, under "hidden_states" if the model passed them by keyword,    *)
(* else as positional list 0, which raises IndexError when there is no   *)
(* positional list.                                                        *)
\* Mutant: the outputs are computed but never become the next inputs.
BlockEndKeepsInputs ==
  /\ phase = "out"
  /\ j >= Len(dataloader)
  /\ phase' = IF ~Present("hidden_states") /\ posCache = <<>> THEN "error"
              ELSE IF blk + 1 = NBlocks THEN "done" ELSE "setup"
  /\ blk' = IF blk + 1 < NBlocks THEN blk + 1 ELSE blk
  /\ UNCHANGED <<dataloader, hiddenKw, pos, j, hstate, hin, hooks, outs, weight, qin, noConfig,
                 keyCache, posCache>>

\* Mutant: block_idx advanced past the last block.
BlockEndPastLast ==
  /\ phase = "out"
  /\ j >= Len(dataloader)
  /\ \/ /\ Present("hidden_states")
        /\ keyCache' = [keyCache EXCEPT !["hidden_states"] = outs]
        /\ UNCHANGED posCache
     \/ /\ ~Present("hidden_states") /\ posCache # <<>>
        /\ posCache' = [posCache EXCEPT ![1] = outs]
        /\ UNCHANGED keyCache
     \/ /\ ~Present("hidden_states") /\ posCache = <<>>
        /\ UNCHANGED <<keyCache, posCache>>
  /\ phase' = IF ~Present("hidden_states") /\ posCache = <<>> THEN "error"
              ELSE IF blk + 1 = NBlocks THEN "done" ELSE "setup"
  /\ blk' = blk + 1
  /\ UNCHANGED <<dataloader, hiddenKw, pos, j, hstate, hin, hooks, outs, weight, qin, noConfig>>

BlockEnd ==
  /\ phase = "out"
  /\ j >= Len(dataloader)
  /\ \/ /\ Present("hidden_states")
        /\ keyCache' = [keyCache EXCEPT !["hidden_states"] = outs]
        /\ UNCHANGED posCache
     \/ /\ ~Present("hidden_states") /\ posCache # <<>>
        /\ posCache' = [posCache EXCEPT ![1] = outs]
        /\ UNCHANGED keyCache
     \/ /\ ~Present("hidden_states") /\ posCache = <<>>
        /\ UNCHANGED <<keyCache, posCache>>
  /\ phase' = IF ~Present("hidden_states") /\ posCache = <<>> THEN "error"
              ELSE IF blk + 1 = NBlocks THEN "done" ELSE "setup"
  /\ blk' = IF blk + 1 < NBlocks THEN blk + 1 ELSE blk
  /\ UNCHANGED <<dataloader, hiddenKw, pos, j, hstate, hin, hooks, outs, weight, qin, noConfig>>

Next ==
  \/ PreForward \/ PreDone \/ BlockSetup \/ CalibStep \/ CalibDone
  \/ \E l \in Layers : QuantLayer(l)
  \/ QuantDone \/ OutStep \/ BlockEnd

(* execute_quantization is one sequential loop: nothing but its own next *)
(* statement can run, so it is weakly fair.                               *)
Spec == Init /\ [][Next]_vars /\ WF_vars(Next)

-----------------------------------------------------------------------------
Phases == {"pre", "setup", "calib", "quant", "out", "done", "error"}
ArgVals == [src : Nat, depth : 0 .. NBlocks, quant : BOOLEAN, aligned : BOOLEAN]

TypeOK ==
  /\ phase \in Phases /\ blk \in Blocks /\ j \in Nat /\ pos \in Nat
  /\ keyCache \in [KeyNames -> Seq(ArgVals)] /\ posCache \in Seq(Seq(ArgVals))
  /\ hstate \in [Layers -> {"held", "freed"}] /\ hin \in [Layers -> Seq(ArgVals)]
  /\ hooks \in BOOLEAN /\ outs \in Seq(ArgVals)
  /\ weight \in [Blocks -> [Layers -> {"fp", "q", "zero"}]]
  /\ noConfig \in [Blocks -> SUBSET Layers]

\* The calibration batches the hook saw, in order.
Reached == SelectSeq([n \in 1 .. Len(dataloader) |-> n], LAMBDA n : dataloader[n].reaches)

(* Spec 2 and 5: each sub-layer of block b is quantized with a Hessian    *)
(* built from exactly one input per calibration batch, in order, each     *)
(* the batch's hidden state propagated through blocks 0 .. b-1 after they *)
(* were quantized, and given that batch's own keyword arguments in every  *)
(* block.  It rests on the hook/gather indexing, the hook removal, the    *)
(* order of fasterquant and the second pass, and the cache update.        *)
SequentialCalibration ==
  \A b \in Blocks, l \in Layers :
    weight[b][l] # "fp" =>
      qin[b][l] = [k \in 1 .. Len(Reached) |->
                    [src |-> Reached[k], depth |-> b, quant |-> TRUE, aligned |-> TRUE]]

\* A calibration set of batches that all reach block 0 with the same keywords.
WellFormed ==
  Len(dataloader) > 0 /\ \A n \in DOMAIN dataloader :
                           dataloader[n].reaches /\ dataloader[n].kw = dataloader[1].kw
=============================================================================
