# TLA+ models of the GPTQ weight quantizer and the KV-cache attention (fp16 and int4)

This directory holds TLA+ models of two parts of the repository, with the TLC
configurations that check them:
- the GPTQ post-training weight quantizer in
  `src/intel_extension_for_pytorch/quantization/_GPTQ/gptq/gptq.py`;
- the KV-cache bookkeeping of the optimized fp16 attention in
  `src/intel_extension_for_pytorch/nn/optimize_transformers/modules/transformer_modules/Attention.py`.
  Its int4 subclasses in `.../xpu/optimize_transformers/modules/transformer_modules/QuantizedAttention.py`,
  and the rows `chatglm.py` passes it, are part of the same model.

Every module is written from those files. There are two exceptions, both marked
`spec_modelled` in the map:
- `model_utils.quantize`, which is not in the source tree, is modelled from spec §4.1;
- the attention's caller (`BaseAttention.forward`, the timestamp and the generation loop) is not in the source tree either, and is modelled as the environment. BaseAttention also provides `is_1st_token_beam_search`, which `Attention.py` calls. `First` takes it to be the in-tree `is_first_token_beam_search` (lines 325-326). `PROJECT.json` records:

- which definition models which source lines (`map`);
- every run and what it checks;
- one mutant per checked property;
- the findings;
- the hazards of the code.

## 1. The system

`gptq.py` has three classes. `Attention.py` is described in §1.1, and the other
runtime modules in `src/` are listed in §6.

| Part | Code | State | Operations |
|---|---|---|---|
| **Quantizer** | `Quantizer`, lines 727-839 | `maxq`, `perchannel`, `sym`, `mse`, grid settings, `scale`, `zero` | `configure`, `find_params` (min/max range, degenerate fix, optional MSE grid search), `ready` |
| **GPTQ engine** | `GPTQ`, lines 573-724 | `H`, `nsamples`, `perm`, its `Quantizer` | `add_batch` (running-mean Hessian), `fasterquant`, `free` |
| **Driver** | `GPTQuantizer`, lines 21-565 | `weight_config`, `dataloader`, `cache_key_arguments`, `cache_positional_arguments`, the model's blocks | see below |

`fasterquant` runs these steps in order:
1. whole-row parameters;
2. dead-channel fix;
3. act_order permutation;
4. damping;
5. Cholesky, inverse, Cholesky;
6. the blocked column loop, with in-block error propagation, group refits and a lazy update of later blocks;
7. unpermute;
8. return of the scale list.

The driver's operations:
- `check_layer_config` and `get_layer_config`;
- `prepare_dataloader` and `obtain_first_n_samples[_fulllength]`;
- `pre_quantization`: a hook on block 0 captures the block inputs, then aborts the forward by raising `ValueError`;
- `execute_quantization`, which does the following for each block in turn:
  1. builds a GPTQ object per sub-layer;
  2. runs a first pass with `add_batch` hooks;
  3. runs `fasterquant` for each sub-layer and writes its weights back;
  4. runs a second pass to compute the block's outputs;
  5. makes those outputs the next block's inputs (`update_blockwise_hidden_states`).

How the parts interact:
- the driver calls `add_batch` from forward hooks while it replays the calibration data;
- it then calls `fasterquant` and `free` on each engine;
- the engine calls its quantizer's `find_params` once per row, or once per group;
- block b+1 is calibrated on the outputs of block b after block b was quantized.

The code is sequential: one thread, no callbacks other than the forward hooks,
nothing persisted. So the hard behaviours are not interleavings. They are:
- orders of steps inside the blocked loop, and which copy (W or W1) a step reads;
- permutations;
- numeric boundary cases, such as zero ranges, exact halves, empty groups and dead channels;
- callbacks left registered;
- exceptions raised half-way through a block;
- lists cached by one loop and indexed by another.

### 1.1 The KV-cache attention

`IPEXTransformerAttnOptimizedFp16` is one attention layer of a decoder. Each
layer owns the following state:
- a key/value cache preallocated with `torch.empty` for `max_position` rows of `bs*beam` sequences;
- under beam search, a separate prompt buffer;
- the counters `prev_seq_len`, `seq_len` and `batch_size`.

Two class attributes, `blocked_attn_mask` and `blocked_alibi`, are shared by all
layers. They are rebuilt only by layer 0.

A forward of a layer runs these steps in order:
1. `pre_qkv` allocates or keeps the cache and sets the counters.
2. `qkv_gemm` views the rows `[prev_seq_len, seq_len)` of the cache and writes the new keys and values into them.
3. `post_qkv` selects the keys to attend.
4. `sdp` attends them, with the blocked mask and alibi.
5. `get_present` returns the `layer_past` that greedy search passes back on the next step.

The layers run in order within each model forward. `IPEXTransformerAttn.timestamp`
counts the forwards of a generation. `chatglm.py` sets the class's `beam_size`
from the hidden states on every forward (line 237), so one process can run beam
and greedy generations one after the other.

The int4 classes of `QuantizedAttention.py` (`IPEXTransformerAttnOptimizedInt4`
and its `OneDNN` subclass) are this layer with weight-only quantized
projections. Construction runs two steps:
- `load_parameter` gives each of `q_proj_quant`, `k_proj_quant` and `v_proj_quant` the checkpoint's `g_idx`, the act_order permutation;
- `cat_qkv` concatenates them into `qkv_proj_quant`, without any `g_idx`. The oneDNN class skips this step.

Each class overrides `compute_qkv_gemm`, step 2 above. It picks one of these GEMMs:
- xetla with more than one row: `dequant_gemm_block` per projection;
- `mm_qkv_out_int4` on the fused weights, when `q_proj_quant.g_idx` is None;
- `compute_qkv_gemm_separate`, otherwise;
- oneDNN: `mm_bias_int4` per projection.

Whatever GEMM it picks, it writes the keys and values into the same cache view.
The parent class lives in `nn/.../Attention.py` of this tree, which the model
takes as the one the int4 classes extend. `dequant_gemm_block` is not in the
tree; the model assumes it applies the `g_idx` of the linear it is given.

## 2. Modules

| Module | Models | State (VARIABLES) | Actions |
|---|---|---|---|
| `GPTQQuantizer` | `Quantizer.configure` (Init), `find_params(weight=True)`, `ready` | `maxq perchannel sym mse scale zero`, plus the history `fitted` | `FindParams(x)` |
| `GPTQHessian` | `GPTQ.__init__`'s H, `add_batch`, H consumed by `fasterquant`, `free` | `hstate H nsamples`, plus histories `calls rows sumsq` | `AddBatch(x)`, `Fasterquant`, `Free` |
| `GPTQFasterquant` | `GPTQ.fasterquant` | the arguments, `hdiag pc W perm cur scale i1 i W1 Q1 Q` | `Prologue` (lines 617-651), `BlockStart`, `Column`, `BlockEnd`, `Epilogue` |
| `GPTQSequential` | what `fasterquant` promises: the column-at-a-time recurrence of spec §4.2 | as above without blocks; `j` is the next column | `Prologue`, `Step`, `Epilogue` |
| `GPTQDriver` | `pre_quantization`, `execute_quantization`, the gather helpers, `update_blockwise_hidden_states` | `dataloader hiddenKw phase pos keyCache posCache blk j hstate hin hooks outs weight qin noConfig` | `PreForward`, `PreDone`, `BlockSetup`, `CalibStep`, `CalibDone`, `QuantLayer(l)`, `QuantDone`, `OutStep`, `BlockEnd` |
| `GPTQConfig` | `check_layer_config`, `get_layer_config` | `user weightConfig checked got` | `CheckLayerConfig`, `Lookup(name)` |
| `GPTQDataSelection` | `prepare_dataloader`, `obtain_first_n_samples`, `obtain_first_n_samples_fulllength` | `useMaxLength nsamples original k dataloader done` | `SelectAny`, `SelectFullLength`, `Exhausted` |
| `GPTQPipeline` | `GPTQuantizer.__init__` then `execute_quantization`: the configuration and the selection feeding the driver | the selection's variables (its `dataloader` renamed `selected`), the driver's, GPTQConfig's `user weightConfig checked`, `model`, `stage` | `Configure` (`check_layer_config`), `Select` (the selection's steps), `HandOver`, `Quantize` (the driver's steps) |
| `AttnKVCache` | the layer class, fp16 or int4 (`load_parameter`, `cat_qkv`, and each class's `compute_qkv_gemm`: `KVOwnOrder`); `release_resources`, `pre_qkv`, `prepare_kv_prompt`, `prepare_kv_cache`, `qkv_gemm`, `post_qkv`, `sdp`'s mask/alibi and keys, `get_present`, the blocked class attributes | `gen bs beam prompt maskK alibi t lyr phase cache kprompt prevSeq seqLen batchSize present blockedMask blockedAlibi ctx attn` | `LayerForward(h)`, `ReleaseResources`; the environment's `StartGeneration`, `NextToken`, `EndGeneration` |

Each `MC_*` module extends its model and defines the constants the `.cfg`
files use. Each model is complete for its part. The parts are composed in two ways:
- **The driver and the engine.** A sub-layer's `fasterquant` is the driver's `QuantLayer` step, and its inputs are recorded, so that properties about the engine's inputs are stated there.
- **The configuration, the selection and the driver.** `GPTQPipeline` composes them with `INSTANCE`:
  - `Cfg` is `GPTQConfig`, `Sel` is `GPTQDataSelection WITH dataloader <- selected`, and `Drv` is `GPTQDriver`.
  - `__init__` runs `check_layer_config` (`Configure`), then the selection loop to its end.
  - `HandOver` then gives the driver `self.dataloader` as block 0 sees it. It also gives the driver `noConfig`: for each block, the sub-layers whose full name `get_layer_config` maps to None. Step 2.1 (`SubLayers`) drops them: they get no GPTQ object, no hook and no `fasterquant`.
  - pre_quantization calls the model with a dict's items as keywords, and with the first tensor of any other batch. So the model is a fixed map (`model`) from "is a dict" to whether the sample reaches block 0 and with which keyword tensors.

### Abstractions

**GPTQFasterquant.**
- A weight column is a record `[src, zeroed, comp]`:
  - `src` is the original channel it holds;
  - `zeroed` says whether it was zeroed as dead;
  - `comp` is the set of positions whose rounding error was subtracted from it.
- Two columns with equal records hold equal numbers, because every error is a function of the record it was computed from.
- `Hinv = chol(chol⁻¹(H))` is abstracted to its sparsity (`Coupled(k, p)`): a dead channel's row and column of H are zero, so it is decoupled.
- Quantization parameters are named by the weight slice they were fitted on. A refit at a group boundary therefore records whether it read W or the compensated W1.
- `argsort(descending=True)` is any permutation that sorts the fixed diagonal, ties in any order (`SortedDesc`).

**GPTQHessian.** H of one input channel is kept exactly, as a rational
`[num, den]`. A batch is its shape (rank 2 or 3, b, s) and its sum of squares.

**GPTQQuantizer.**
- Weights are small integers; scales are exact rationals.
- `torch.round` is round-half-to-even (`RoundHE`).
- The MSE loss exponent `norm` is an integer (2) instead of 2.4, and the grid is 5 with maxshrink 0.8. That gives four candidates, with exactly the loop structure of the code.
- `quantize` is `scale·(clamp(round(x/scale)+zero, 0, maxq) − zero)`, as in spec §4.1.

**GPTQDriver.**
- A cached argument is a record naming its calibration batch.
- A hidden state also records:
  - how many blocks it passed;
  - whether they were all quantized;
  - whether every block forward it passed got its own batch's keywords.
- A calibration batch is abstracted to whether the model lets it reach block 0 (it may raise `ValueError` first) and which keyword tensors it passes.
- `weight[b][l]` is `"fp"`, `"q"`, or `"zero"` (fasterquant with H = 0).
- Device placement, logging and the write of `gptq_config` are left out.

**GPTQConfig.** The settings are `wbits`, `group_size`, `block_size` and
`percdamp`. The other four keys are filled the same way. Regular-expression
search is the constant `Finds`.

**GPTQDataSelection.** A batch is `[dict, ids, len]`. A selected sample is a
token window `[lo, hi)` of its batch. The seeded `random.randint` is a choice
among the values it can return.

**AttnKVCache.**
- Key and value are allocated, written and read together, so one cache stands for both.
- A cache row holds the token written into it, `[gen, tok]`, or `Empty` (never written, from `torch.empty`). A row written through a view of the wrong shape holds `tok = -2`.
- A cache records the `bs_beam` it was shaped for. A `.view` of `n` rows succeeds iff `n·bs_beam` equals the element count it is asked for (`ViewOK`). It lays the tokens out right iff the shapes agree (`Exact`).
- The blocked mask and alibi are named by the forward (`[gen, t]`) that built them. `Unfilled` (`t = -1`) is the fresh `torch.empty` left behind when the copy into it fails. The mask's and alibi's length is the whole sequence, `KvLen = prompt + t`, as the caller passes them.
- `ctx` is a history variable. It holds what each layer's last `sdp` attended: its keys, mask and alibi.
- `attn` is the layer class, fixed at Init (`Construct`): the class, which projections carry a `g_idx`, whether `cat_qkv` built fused weights, and what `xpu_gemm_use_xetla()` returns. A key computed by a GEMM that ignores its projection's `g_idx` holds `tok = -3` (`KVOwnOrder`). The weights themselves are abstracted away.
- The environment runs layers 0..NLayers-1 in each forward. Greedy search passes each layer its own last present. The first beam-search token may come with `bs` or `bs*beam` rows (`HiddenRows`). A generation may end after any complete forward, and the caller may release the layers' caches between generations.

## 3. Runs

The passing runs together fire every action. Each property of a passing run
has a mutant in `PROJECT.json`, and TLC catches every one of them.
`AttnKVCache` also defines `Int4KVOwnOrderNoGidxCheck`, which drops the
`g_idx` test of line 189. Put in place of `Int4KVOwnOrder`, it makes
attn_kvcache report AttendsCurrentContext violated. AttendsCurrentContext's
registered mutant is a different one, `SeqOfNoFirstReset`.

| Run | Config | Expect | Properties | What it shows |
|---|---|---|---|---|
| fasterquant | `GPTQFasterquant.cfg` | pass | `TypeOK`, `Compensated`, `UnpermutedOutput`, `GroupIndexContract`, `AlignedRefinement` | See below |
| fasterquant_midblock | `GPTQFasterquant_midblock.cfg` | violation | `SequentialRefinement` | A group that starts inside a block is fitted on W, which lacks the pending in-block compensation. |
| hessian | `GPTQHessian.cfg` | pass | `TypeOK`, `HessianRunningMean` | H is exactly `2·Σx²/nsamples` after any sequence of rank-2 and rank-3 batches. |
| quantizer | `GPTQQuantizer.cfg` | pass | `TypeOK`, `RoundTripBound`, `MseNoWorse` | See below |
| quantizer_sym | `GPTQQuantizer_sym.cfg` | violation | `RoundTripBound` | See below |
| config_docstring | `GPTQConfig_docstring.cfg` | violation | `DocumentedSettingsHonoured` | A user who writes the docstring's keys `bits` and `percdamp` silently gets the defaults (§5). |
| config_regex | `GPTQConfig_regex.cfg` | violation | `UnmatchedLayerExcluded` | A layer no entry matches gets the first entry's settings instead of None. |
| pipeline | `GPTQPipeline.cfg` | pass | `TypeOK`, `FirstNSamples`, `SequentialCalibration`, `QuantizationCompletes` | See below |
| pipeline_shortfall | `GPTQPipeline_shortfall.cfg` | violation | `ShortfallNonFatal` | See below |
| attn_kvcache | `AttnKVCache.cfg` | pass | `TypeOK`, `AttendsCurrentContext`, `BlockedMaskCurrent`, `FailsOnlyWhenFull` | See below |
| attn_beams | `AttnKVCache_beams.cfg` | violation | `FailsOnlyWhenFull` | See below |
| attn_actorder | `AttnKVCache_actorder.cfg` | violation | `AttendsCurrentContext` | See below |

**fasterquant** covers every block size 1-4, every group size (none, 1-4),
both act_order settings and every dead-channel pattern over 4 columns. In all
of them:
- each column is quantized after exactly the errors of its earlier coupled columns;
- the output is unpermuted;
- dead channels come out exactly zero;
- the scale list agrees with `g_idx`;
- **AlignedRefinement:** whenever groups start at block boundaries (no grouping, or a group size that is a multiple of the block size), the blocked loop implements `GPTQSequential` under the refinement mapping. `WSeq` applies the errors still pending in `Err1`.

**quantizer** covers asymmetric mode, per channel or per tensor, with or
without the MSE grid. In all of them:
- the quantizer is ready;
- every fitted weight round-trips within half a step;
- the MSE grid never does worse than min/max.

**quantizer_sym:** symmetric mode with a row that has no negative weight
breaks the round-trip bound (§5).

**pipeline** covers every user dataloader of up to three batches. The batches are dicts with `input_ids` or tensors of 1-3 tokens, or a dict without `input_ids`. The run uses both selection functions, nsamples 1 and 2, any model behaviour per kind of sample (a kind may be rejected before block 0, and the kinds may pass different keywords), and hidden states passed by position or by keyword. `weight_config` is None (which `__init__` makes `{}`) or a dict with one entry naming `h.0.q_proj`.
- **FirstNSamples:** the calibration set is the first min(nsamples, #eligible) eligible batches, in order, each a window of the right length inside its batch.
- **SequentialCalibration:** a sub-layer of block b is only ever quantized from one input per sample, in order, propagated through the quantized blocks 0..b-1 with that sample's own keywords. A mix of dicts and tensors that misaligns the caches raises `IndexError` before any quantization.
- **QuantizationCompletes:** once quantization starts on a non-empty set whose samples all reach block 0 with the same keywords, the loop completes. Every sub-layer that `get_layer_config` gives settings is quantized from real data, and every one it maps to None stays in floating point. Under the code these are all of them for `{}`, and none for any non-empty dict (the regex test of line 312, §5). So the default `weight_config` quantizes nothing and only logs a warning per layer. The mutant that keeps every sub-layer in step 2.1 (`SubLayersNoFilter`) breaks this property too.

**pipeline_shortfall** uses the one-entry `weight_config` and models that run every sample into block 0 with the same keywords. The only way left to fail is a short calibration set, and an empty one zeroes block 0 and then raises `IndexError` (§5).

**attn_kvcache** runs three generations on two layers, with `max_position` 2, up to three decode steps, batch sizes 1-2, prompts of 1-2 tokens, a float mask or none, and alibi or none. The layer is fp16, int4 or int4-oneDNN, on xetla or not, with a GPTQ checkpoint where act_order is on for all of q, k, v or for none. That is the checkpoint a global `weight_config` (one act_order for every layer) produces. A per-layer `weight_config` can mix them, and that case is the attn_actorder run. Each model keeps its beam size (1 or 2) for all generations. It checks:
- **AttendsCurrentContext:** every layer that has run in the current forward attended exactly the current sequence's prompt and generated tokens, in order. None of them is uninitialised, left over from an earlier generation, or scrambled.
- **BlockedMaskCurrent:** every layer's sdp read the blocked mask and alibi built from this forward's inputs.
- **FailsOnlyWhenFull:** a forward raises only when the whole sequence, prompt and generated tokens, is longer than `max_position`. Two error paths are covered: the `.view` of the cache rows (line 111), and layer 0's copy of the attention mask or alibi into its blocked buffer of `max_position` columns (lines 289 and 297). Under beam search the prompt lives outside the cache, so only the second path bounds the prompt.

**attn_beams:** with the beam size chosen per generation, as `chatglm.py` does, FailsOnlyWhenFull fails (§5).

**attn_actorder:** with checkpoints where any of q, k and v may carry a `g_idx`, AttendsCurrentContext fails (§5).

Bounds, and why they are enough:
- **fasterquant:**
  - 4 columns with block sizes 1-4 give every relation of a group to a block: aligned, starting mid-block, spanning two blocks, and a last group or block shorter than the rest.
  - Diagonals {0, 1, 2} give dead channels, ties and strict orders for `argsort`.
- **hessian:** three batches of both ranks with sequence counts 1-2 reach every combination of old and new count in the rescale.
- **quantizer:**
  - Rows in −2..2 give all-zero, one-signed, mixed and clamped rows.
  - 1-3 bits give maxq 1, 3 and 7.
  - Odd ranges give exact halves for round-half-to-even.
- **pipeline:** two blocks are the least that shows propagation between blocks, and two sub-layers show per-layer order. Two samples of different kinds show misalignment. Three-batch loaders against nsamples 2 reach both the early `break` and the shortfalls. Two `weight_config`s are enough for the filter: under the code, `get_layer_config` returns None for every layer or for none, and these two reach both.
- **config:** two per-layer entries are enough to put a pattern entry in front of an exact one.
- **pipeline** (selection): batches of 1-3 tokens against `pad_max_length` 2 give shorter, equal and longer batches.
- **attn_kvcache:**
  - `max_position` 2 with prompts of 1-2 tokens and up to three decode steps reaches sequences that fit, fill and overflow the cache.
  - Two layers are the least that shows a class attribute written by layer 0 and read by another.
  - Batch sizes 1-2 and three generations give a reallocation, a reuse, and a reuse after release.
  - For the int4 classes, a first token of one or of two rows reaches both sides of the xetla test `shape[0] > 1`, and every generation reaches the non-xetla GEMM on its decode steps.

Fairness:
- Only the pipeline states liveness. `__init__`'s selection loop and `execute_quantization` are sequential code, so nothing but their own next statement can run, and weak fairness of `Next` is what the interpreter gives them.
- The other models state safety only. They end when their function returns, which is why their configs say `CHECK_DEADLOCK FALSE`. AttnKVCache stops after its last generation, and the caller may stop there. GPTQHessian and GPTQConfig never stop, because `Free` and `Lookup` stay enabled.

## 4. Properties, briefly

- **Compensated:** the in-block update (line 688) and the lazy block update (line 694) together apply every earlier coupled error to every column once before it is quantized.
- **UnpermutedOutput:** line 701 undoes line 638, and a dead channel comes out exactly zero.
- **GroupIndexContract:** the scale list has ⌈columns/groupsize⌉ entries (or 1), and every column used the entry `g_idx = position // groupsize` selects.
- **SequentialRefinement:** the blocked loop refines the column-at-a-time recurrence. **AlignedRefinement** states the same implication for aligned groups only, so that the full configuration checks it.
- **HessianRunningMean:** the rescale-then-add keeps H the running mean.
- **RoundTripBound** (spec §8): ready, and `|dequant(quant(x)) − x| ≤ scale/2` on the fitted weights.
- **MseNoWorse:** the grid search's loss is at most the min/max parameters' loss.
- **SequentialCalibration**, **QuantizationCompletes**, **ShortfallNonFatal:** see §3.
- **DocumentedSettingsHonoured**, **UnmatchedLayerExcluded:** see §3. GPTQConfig's TypeOK is checked inside the pipeline run, whose `Configure` step runs `check_layer_config`.
- **FirstNSamples:** see §3.
- **AttendsCurrentContext**, **BlockedMaskCurrent**, **FailsOnlyWhenFull:** see §3.

## 5. Findings

1. **Stale group fit** (fasterquant_midblock, line 673). With `group_size < block_size` (the docstring's 32 against the default 128), a group starting inside a block is fitted on W, which does not yet hold the block's compensation. Results therefore depend on `block_size`, which spec §4.2 treats as a pure batching parameter.
2. **Symmetric non-negative rows** (quantizer_sym, line 781). For a row with xmin = 0:
   - the range is not mirrored, so scale = xmax/maxq;
   - but zero = (maxq+1)/2, so the upper half of the row clamps.

   For example, row (0, 1) at 1 bit dequantizes 1 to 0.
3. **Empty calibration set** (pipeline_shortfall, line 422). fasterquant sees H = 0, zeroes every weight and writes them into block 0. Then `update_blockwise_hidden_states` raises `IndexError`. The selection only logs the shortfall. The shortest trace is an empty user loader, but any loader without an eligible batch does the same: for example, under the default `use_max_length=True`, one whose batches are all shorter than `pad_max_length`.
4. **Fused qkv GEMM under per-layer act_order** (attn_actorder, `QuantizedAttention.py` line 189). The fallback tests only `q_proj_quant.g_idx`, and `cat_qkv` builds the fused weights without any `g_idx`. gptq.py sets act_order per layer (line 292). TLC's trace:
   1. An int4 layer, off xetla, has a checkpoint with a `g_idx` on v only.
   2. A greedy generation (beam 1) runs the first forward on a 1-token prompt.
   3. `mm_qkv_out_int4` writes into the KV-cache rows values computed without v's permutation, and layer 0's sdp attends them.

   The spec's open question (line 130) asks the fused paths to refuse act_order explicitly rather than produce wrong results silently.
5. **Documented keys ignored** (config_docstring, lines 251, 260, 278, 287). The docstring's example `weight_config` (lines 41-50) sets `'bits'` and `'percdamp'`. `check_layer_config` reads `"wbits"` and `"pecdamp"`, so both values are silently replaced by the defaults, 4 bits and 0.01, in either form of `weight_config`. TLC's trace is a global `weight_config` with percdamp 10 (hundredths) whose layer gets 1.
6. **Always-true regex test** (config_regex, line 312). `len(...) is not None` always holds, so unmatched layers are quantized with the first entry's settings.
7. **KV cache kept across a change of beam size** (attn_beams, `Attention.py` line 77). `prepare_kv_cache` reallocates only when `batch_size = bs_beam // beam_size` changes, but the cache is shaped for `bs_beam`. TLC's trace:
   1. A beam-search generation (bs 1, beam 2) runs.
   2. A greedy generation with the same batch size follows. Its `batch_size` is 1 again, so the 2-row cache is kept.
   3. On that generation's first forward, its prompt, `key_cache[prev:seq].view([1, 1, ...])` at line 111 raises `RuntimeError`, although the sequence fits in `max_position`.

A further point is a remark, not a run:
- `add_batch` counts sequences, not the
rows of spec §3 (line 591). HessianRunningMean shows H = 2·Σxxᵀ/nsamples, so the
  two normalisations differ by a scalar. fasterquant's relative damping makes it
  invariant to that scalar.

## 6. Not modelled

- **The Cholesky chain's numbers.** Only the sparsity is kept. So are the losses, which are diagnostics only.
- **Shapes.** Conv1D transposes and Conv2d flattening are not modelled. Nor is the Conv1d mismatch between `GPTQ.__init__` (line 577) and `fasterquant` (line 618).
- **Quantizer modes GPTQ does not use:** the trits mode, and `find_params` on activations.
- **`configure` with bits = 0.** There is no validation, so maxq = 0 and the scale divides by zero. torch then computes with inf, which the exact-rational model cannot express, so the model assumes bits ≥ 1. A single call reaches this case, and a unit test covers it better.
- **The rest of `model_utils`** (layer discovery, tracing). These are the driver's constants.
- **In `Attention.py`:** tensor values (a row is the token it holds), the out_proj GEMM, tensor-parallel `all_reduce`, and `repeat_kv` (always called with `n_rep = 1`, the identity). Two models in one process sharing the class attributes are not modelled either.
- **In `QuantizedAttention.py`:**
  - int4 weight packing and `transpose_parameter`: layout only;
  - `out_proj_compute`, which runs after the cache and changes no state.
  - Zero points. `transpose_parameter` transposes the `qzeros` of k, v and out only when q's are not None. The oneDNN class's `transpose_parameter` replaces every projection's `qzeros` with 8, the symmetric 4-bit zero point. The model abstracts the quantization parameters away, so an asymmetric checkpoint on these paths is not modelled.
  - **Fused branches.** Both classes have a branch taken when `q_proj_quant.qweight` is None. Nothing in the tree sets it to None, so `QWeightReleased` is FALSE and the branch is unreachable.
- **`chatglm.py`:** block wiring. Its int4 path picks `IPEXTransformerAttnOptimizedInt4` and calls `load_parameter(qkv_proj=..., out_proj=...)`, which that class's signature `(q_proj, k_proj, v_proj, out_proj)` does not accept. Its per-forward `beam_size` is what attn_beams models.
- **`_embeddingbag.py`:** a stateless kernel choice, with nothing for a model checker beyond its truth table.

## 7. Plan

Done so far:
- the inventory above;
- the engine, the quantizer and the refinement of the blocked loop, now checked in the full configuration (AlignedRefinement);
- the driver, the configuration and the data selection;
- the composition of the selection with the driver, so that the empty calibration set comes from a raw loader;
- the composition of the configuration into the pipeline (step 2.1's filter);
- the KV-cache bookkeeping of `Attention.py`, with its beam-size finding;
- the int4 layer classes composed into it, with their qkv GEMM dispatch checked by AttendsCurrentContext.

Next:
1. **Give the driver a per-layer `fasterquant`**, by instancing GPTQFasterquant for the quantized block. Then the `scale`/`zero`/`perm` entries of `gptq_config` can be checked against `sym` and `act_order`.
2. **Give the pipeline a `weight_config` that sets `sym` and `act_order`** once item 1 exists, so that the entries the driver writes into `gptq_config` (lines 518-529) are checked against the configuration.
