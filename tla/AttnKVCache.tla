------------------------------ MODULE AttnKVCache ------------------------------
(***************************************************************************)
(* KV-cache bookkeeping of IPEXTransformerAttnOptimizedFp16                *)
(* (nn/optimize_transformers/modules/transformer_modules/Attention.py).   *)
(* Each layer owns a preallocated key/value cache of max_position rows    *)
(* (key and value are allocated, written and read together, so one cache *)
(* stands for both) and, under beam search, a prompt buffer.  A forward   *)
(* of a layer runs pre_qkv, qkv_gemm, post_qkv, sdp and get_present in     *)
(* that order.  The class attributes blocked_attn_mask and blocked_alibi  *)
(* are shared by all layers and written only by layer 0.                  *)
(*                                                                         *)
(* The caller (BaseAttention.forward and the generation loop) is not in   *)
(* the source tree; it is modelled as the environment: layers run in the  *)
(* order 0..NLayers-1 in every model forward, IPEXTransformerAttn.timestamp *)
(* is the index of the forward within a generation, greedy search passes  *)
(* each layer the present it returned as layer_past, and a generation may *)
(* end after any forward.  A row holds the token [gen, tok] written into  *)
(* it, or Empty (torch.empty).                                              *)
(*                                                                         *)
(* The int4 classes of QuantizedAttention.py (transformers/models/xpu/...)  *)
(* subclass this fp16 attention and override compute_qkv_gemm with the     *)
(* same signature; their parent module is not in the source tree and is    *)
(* taken to be the one above.  attn records the layer class and what its    *)
(* construction (load_parameter, transpose_parameter, cat_qkv) left.        *)
(***************************************************************************)
EXTENDS Integers, Sequences, FiniteSets

CONSTANTS
  NLayers,     \* number of attention layers
  MaxPosition, \* self.max_position: rows of the cache
  MaxGen,      \* number of generations
  MaxSteps,    \* forwards per generation after the first
  Batches,     \* batch sizes a generation may use
  Beams,       \* beam sizes (num_beams)
  Prompts,     \* prompt lengths
  MaskKinds,   \* "none", "bool" or "float" attention_mask
  BeamPerCall, \* TRUE: every generation chooses its beam size
  Impls,       \* layer classes: "fp16", "int4", "int4onednn"
  GIdxs,       \* possible checkpoints: projection -> it carries a g_idx (act_order)
  XetlaModes   \* possible values of xpu_gemm_use_xetla()

Layers == 0 .. NLayers - 1
Rows == 0 .. MaxPosition - 1
Empty == [gen |-> 0, tok |-> -1]
NoAttr == [gen |-> 0, t |-> 0]   \* a class attribute still None
Projs == {"q", "k", "v"}

VARIABLES
  gen, bs, beam, prompt, maskK, alibi, \* the current generation's inputs
  t,          \* IPEXTransformerAttn.timestamp
  lyr,        \* next layer of the current forward (NLayers: forward done)
  phase,      \* "idle", "run" or "error" (RuntimeError from a .view)
  cache,      \* layer -> [alloc, bsBeam, rows]: key_cache / value_cache
  kprompt,    \* layer -> [alloc, gen, len]: key_prompt / value_prompt
  prevSeq,    \* layer -> self.prev_seq_len
  seqLen,     \* layer -> self.seq_len
  batchSize,  \* layer -> self.batch_size
  present,    \* layer -> size(2) of the present it returned (-1: None)
  blockedMask, blockedAlibi, \* class attributes: the forward that built them
  ctx,        \* history: layer -> what its last sdp attended
  attn        \* the layer class and its quantized projections

vars == <<gen, bs, beam, prompt, maskK, alibi, t, lyr, phase, cache, kprompt,
          prevSeq, seqLen, batchSize, present, blockedMask, blockedAlibi, ctx, attn>>

NoCache == [alloc |-> FALSE, bsBeam |-> 0, rows |-> [r \in Rows |-> Empty]]
NoPrompt == [alloc |-> FALSE, gen |-> 0, len |-> 0, ok |-> TRUE]

\* is_beam_search (lines 328-329).  The code tests is_1st_token_beam_search
\* (lines 62, 96, 124, ...), which the base class IPEXTransformerAttn
\* (BaseAttention, not in the source tree) provides; it is taken to be the
\* class's own is_first_token_beam_search (lines 325-326).
IsBeam == beam > 1
First == IsBeam /\ t = 0

\* Tokens of the input of this forward: the prompt, then the last token only
\* (prepare_inputs_for_generation, chatglm.py 49-52, with use_cache).
InLen == IF t = 0 THEN prompt ELSE 1

\* The token a cache row receives: greedy rows hold the whole sequence,
\* beam rows only the generated tokens after the separate prompt.
TokOf(r) == IF IsBeam THEN prompt + r ELSE r

(* cat_qkv of the int4 class (lines 127-170) builds qkv_proj_quant from   *)
(* q, k and v, passing set_scales_zps_gidx scales and zeros but no g_idx; *)
(* the oneDNN class's cat_qkv does nothing (lines 413-414).               *)
CatQkvFused(i) == i = "int4"

(* What construction leaves (lines 13-79): load_parameter gives each      *)
(* *_proj_quant the checkpoint's g_idx; an fp16 layer has none.           *)
Construct(i, g, x) ==
  [impl  |-> i,
   gidx  |-> IF i = "fp16" THEN [p \in Projs |-> FALSE] ELSE g,
   fused |-> CatQkvFused(i),
   xetla |-> i # "fp16" /\ x]

\* Nothing in the source tree sets q_proj_quant.qweight to None after
\* load_parameter, the condition of the fused branches (176-177, 417-420).
QWeightReleased == FALSE

Init ==
  /\ attn \in {Construct(i, g, x) : i \in Impls, g \in GIdxs, x \in XetlaModes}
  /\ gen = 0 /\ bs = 0 /\ beam \in Beams /\ prompt = 0 /\ maskK = "none" /\ alibi = FALSE
  /\ t = 0 /\ lyr = 0 /\ phase = "idle"
  /\ cache = [l \in Layers |-> NoCache]
  /\ kprompt = [l \in Layers |-> NoPrompt]
  /\ prevSeq = [l \in Layers |-> 0] /\ seqLen = [l \in Layers |-> 0]
  /\ batchSize = [l \in Layers |-> 0] /\ present = [l \in Layers |-> -1]
  /\ blockedMask = NoAttr /\ blockedAlibi = NoAttr
  /\ ctx = [l \in Layers |-> [gen |-> 0, t |-> 0, keys |-> <<>>, mask |-> NoAttr,
                              alibi |-> NoAttr]]

MinOf(a, b) == IF a < b THEN a ELSE b
MaxOf(a, b) == IF a > b THEN a ELSE b

(* prepare_kv_prompt, lines 68-71: a fresh (uninitialised) prompt buffer  *)
(* when there is none or at timestamp 0.                                   *)
PrepareKvPrompt(kp) ==
  IF ~kp.alloc \/ t = 0 THEN [alloc |-> TRUE, gen |-> 0, len |-> 0, ok |-> TRUE] ELSE kp

\* Mutant: the cache is reallocated only when there is none.
PrepareKvCacheNoBatchCheck(c, b, h) ==
  IF ~c.alloc
    THEN [cache |-> [alloc |-> TRUE, bsBeam |-> h, rows |-> [r \in Rows |-> Empty]],
          batch |-> h \div beam]
    ELSE [cache |-> c, batch |-> b]

\* Mutant: batch_size recorded as bs_beam, without // beam_size.
PrepareKvCacheBatchIsRows(c, b, h) ==
  IF ~c.alloc \/ h # b
    THEN [cache |-> [alloc |-> TRUE, bsBeam |-> h, rows |-> [r \in Rows |-> Empty]],
          batch |-> h]
    ELSE [cache |-> c, batch |-> b]

(* prepare_kv_cache, lines 73-81: batch_size = bs_beam // beam_size; the  *)
(* cache is reallocated, uninitialised and shaped for bs_beam, when there *)
(* is none or batch_size differs from the one it was allocated for.       *)
PrepareKvCache(c, b, h) ==
  IF ~c.alloc \/ h \div beam # b
    THEN [cache |-> [alloc |-> TRUE, bsBeam |-> h, rows |-> [r \in Rows |-> Empty]],
          batch |-> h \div beam]
    ELSE [cache |-> c, batch |-> b]

(* pre_qkv, lines 46-66: prev_seq_len and seq_len.  Greedy search takes   *)
(* prev_seq_len from layer_past; beam search resets both at the first     *)
(* token and otherwise advances seq_len from its own prev_seq_len.        *)
PrevSeqOf(l) ==
  IF ~IsBeam THEN (IF present[l] = -1 THEN 0 ELSE present[l])
  ELSE IF First THEN 0 ELSE prevSeq[l]
\* Mutant: the first beam token does not reset seq_len.
SeqOfNoFirstReset(prev) ==
  IF ~IsBeam THEN (IF prev # 0 THEN prev + 1 ELSE InLen) ELSE prev + 1
SeqOf(prev) ==
  IF ~IsBeam THEN (IF prev # 0 THEN prev + 1 ELSE InLen)
  ELSE IF First THEN 0 ELSE prev + 1

(* prepare_qkv_input_2nd2last, lines 107-113: the rows                    *)
(* key_cache[prev_seq_len:seq_len] (cut at max_position) viewed as         *)
(* [seq_len_in, bs_beam, heads*dim]; the view succeeds iff the element     *)
(* counts agree, and lays the tokens out as intended iff the shapes do.   *)
Sliced(prev, seq) == MaxOf(0, MinOf(seq, MaxPosition) - prev)
ViewOK(c, prev, seq, h) == Sliced(prev, seq) * c.bsBeam = InLen * h
Exact(c, h) == c.bsBeam = h

\* hidden_states.shape[0]: bs_beam at the first beam token, else the
\* input tokens (the layouts get_runtime_shape reads, lines 317-322).
Dim0(h) == IF First THEN h ELSE InLen

\* mm_qkv_out_int4 on the fused weights applies no g_idx: right only
\* when k and v have no act_order.
FusedOK == ~attn.gidx["k"] /\ ~attn.gidx["v"]

\* Mutant: the fused qkv GEMM is used whatever q's g_idx.
Int4KVOwnOrderNoGidxCheck(h) ==
  IF Dim0(h) > 1 /\ attn.xetla THEN ~(QWeightReleased /\ attn.fused) \/ FusedOK
  ELSE FusedOK

(* int4 compute_qkv_gemm (lines 172-272): with more than one row on      *)
(* xetla, dequant_gemm_block on the fused weights if q's were released,  *)
(* else on each projection with its g_idx; without xetla, separate GEMMs *)
(* (compute_qkv_gemm_separate) when q has a g_idx, else mm_qkv_out_int4  *)
(* on the fused weights.                                                  *)
Int4KVOwnOrder(h) ==
  IF Dim0(h) > 1 /\ attn.xetla THEN ~(QWeightReleased /\ attn.fused) \/ FusedOK
  ELSE attn.gidx["q"] \/ FusedOK

(* oneDNN compute_qkv_gemm (lines 416-466): mm_bias_int4 on the fused    *)
(* weights only when q's were released and qkv's set, which its cat_qkv   *)
(* never does; else on each projection with its own g_idx.               *)
OneDNNKVOwnOrder == ~(QWeightReleased /\ attn.fused) \/ FusedOK

(* Whether the GEMM computing the new keys and values (written into the  *)
(* cache view by mm_*_out or copy_) applies the k and v projections'     *)
(* own g_idx: the class's compute_qkv_gemm; fp16 (lines 117-119) uses    *)
(* mm_qkv_out on float weights.                                           *)
KVOwnOrder(h) ==
  CASE attn.impl = "int4"       -> Int4KVOwnOrder(h)
    [] attn.impl = "int4onednn" -> OneDNNKVOwnOrder
    [] OTHER                    -> TRUE

(* compute_qkv_gemm writes the new tokens' keys and values through that   *)
(* view; a mis-shaped view scrambles them (-2), weights read without      *)
(* their act_order permutation give wrong ones (-3).                      *)
WriteRows(c, prev, seq, h) ==
  [c EXCEPT !.rows = [r \in Rows |->
     IF r >= prev /\ r < prev + Sliced(prev, seq)
       THEN [gen |-> gen, tok |-> IF ~Exact(c, h) THEN -2
                                  ELSE IF ~KVOwnOrder(h) THEN -3 ELSE TokOf(r)]
       ELSE c.rows[r]]]

\* The tokens a buffer holds, in order.
PromptKeys(kp) == [k \in 1 .. kp.len |-> [gen |-> kp.gen, tok |-> IF kp.ok THEN k - 1 ELSE -3]]
CacheKeys(c, seq) == [k \in 1 .. MinOf(seq, MaxPosition) |-> c.rows[k - 1]]

\* Mutant: the blocked mask is built once and then reused.
GetBlockedOnce(l, attr) == IF attr = NoAttr THEN [gen |-> gen, t |-> t] ELSE attr

(* get_blocked_attn_mask and get_blocked_alibi, lines 285-298: layer 0    *)
(* rebuilds the class attribute, every layer returns it.                  *)
GetBlocked(l, attr) == IF l = 0 THEN [gen |-> gen, t |-> t] ELSE attr

\* attention_mask.shape[3] and alibi.shape[2]: the whole sequence, the
\* prompt and one token per forward after it (chatglm.py 53-60 passes the
\* mask unsliced).
KvLen == prompt + t

(* Layer 0 builds the blocked attribute as a torch.empty of max_position  *)
(* columns and copies the KvLen columns of the mask or alibi into it      *)
(* (lines 287-289, 294-297); a longer one fails the copy (RuntimeError)   *)
(* and leaves the attribute the fresh, unfilled tensor.  Other layers     *)
(* only return it.                                                         *)
BlockedFits(l) == l # 0 \/ KvLen <= MaxPosition
Unfilled == [gen |-> gen, t |-> -1]

(* prepare_sdp_input, lines 197-216: a float attention_mask and an alibi  *)
(* are replaced by their blocked class attributes, the mask first; a bool *)
(* mask only sets is_causal.                                               *)
PrepareSdpInput(l) ==
  [mask  |-> IF maskK = "float" THEN GetBlocked(l, blockedMask) ELSE NoAttr,
   alibi |-> IF alibi THEN GetBlocked(l, blockedAlibi) ELSE NoAttr,
   ok    |-> (maskK # "float" /\ ~alibi) \/ BlockedFits(l)]

(* The keys sdp attends (combine_kv_cache, lines 142-161, then           *)
(* sdp_kv_preprocess and compute_sdp, lines 167-236): the prompt buffer   *)
(* at the first beam token, key_prompt and key_cache[:seq_len] after it   *)
(* (IpexSDP_Index), key_cache[:seq_len] in greedy search.                 *)
SdpKeys(kp, c, seq) ==
  IF First THEN PromptKeys(kp)
  ELSE IF IsBeam THEN PromptKeys(kp) \o CacheKeys(c, seq)
  ELSE CacheKeys(c, seq)

(* get_present, lines 264-277, with use_cache: greedy search returns      *)
(* key_cache[:seq_len] itself, beam search an empty tensor of seq_len     *)
(* plus the prompt's length.                                               *)
GetPresent(kp, seq) ==
  IF ~IsBeam THEN MinOf(seq, MaxPosition)
  ELSE seq + (IF kp.alloc THEN kp.len ELSE 0)

(* The forward of layer l on hidden states of h = bs_beam rows: pre_qkv   *)
(* (lines 46-50), qkv_gemm (lines 86-132: prepare_qkv_input, the GEMM,    *)
(* process_qkv_output), post_qkv (lines 135-139), sdp and get_present.    *)
(* A failing view raises RuntimeError after pre_qkv's updates, a failing *)
(* blocked mask or alibi after the whole of qkv_gemm.                      *)
LayerForward(h) ==
  LET l    == lyr
      kp0  == IF IsBeam THEN PrepareKvPrompt(kprompt[l]) ELSE kprompt[l]
      pc   == PrepareKvCache(cache[l], batchSize[l], h)
      prev == PrevSeqOf(l)
      seq  == SeqOf(prev)
      c1   == IF First THEN pc.cache ELSE WriteRows(pc.cache, prev, seq, h)
      kp1  == IF First THEN [alloc |-> TRUE, gen |-> gen, len |-> InLen, ok |-> KVOwnOrder(h)]
              ELSE kp0
      sdp  == PrepareSdpInput(l)
  IN /\ phase = "run" /\ lyr < NLayers
     /\ batchSize' = [batchSize EXCEPT ![l] = pc.batch]
     /\ seqLen' = [seqLen EXCEPT ![l] = seq]
     /\ \/ /\ First \/ ViewOK(pc.cache, prev, seq, h)
           /\ cache' = [cache EXCEPT ![l] = c1]
           /\ kprompt' = [kprompt EXCEPT ![l] = kp1]
           /\ prevSeq' = [prevSeq EXCEPT ![l] = IF IsBeam THEN seq ELSE prev]
           /\ \/ /\ sdp.ok
                 /\ blockedMask' = IF maskK = "float" THEN sdp.mask ELSE blockedMask
                 /\ blockedAlibi' = IF alibi THEN sdp.alibi ELSE blockedAlibi
                 /\ ctx' = [ctx EXCEPT ![l] = [gen |-> gen, t |-> t, keys |-> SdpKeys(kp1, c1, seq),
                                               mask |-> sdp.mask, alibi |-> sdp.alibi]]
                 /\ present' = [present EXCEPT ![l] = GetPresent(kp1, seq)]
                 /\ lyr' = lyr + 1
                 /\ UNCHANGED phase
              \/ /\ ~sdp.ok
                 /\ blockedMask' = IF maskK = "float" THEN Unfilled ELSE blockedMask
                 /\ blockedAlibi' = IF maskK # "float" /\ alibi THEN Unfilled ELSE blockedAlibi
                 /\ phase' = "error"
                 /\ UNCHANGED <<ctx, present, lyr>>
        \/ /\ ~(First \/ ViewOK(pc.cache, prev, seq, h))
           /\ cache' = [cache EXCEPT ![l] = pc.cache]
           /\ kprompt' = [kprompt EXCEPT ![l] = kp0]
           /\ prevSeq' = [prevSeq EXCEPT ![l] = prev]
           /\ phase' = "error"
           /\ UNCHANGED <<blockedMask, blockedAlibi, ctx, present, lyr>>
     /\ UNCHANGED <<gen, bs, beam, prompt, maskK, alibi, t, attn>>

\* Hidden-state rows a forward passes: bs * beam, except at the first token
\* of beam search, where NewIPEXCHATGLMBlock.forward (chatglm.py 222-251)
\* keeps one row per beam group, bs, and other callers may pass bs * beam.
HiddenRows == IF First THEN {bs, bs * beam} ELSE {bs * beam}

(* The caller, after the last layer: the next forward of the generation  *)
(* (timestamp + 1).                                                        *)
NextToken ==
  /\ phase = "run" /\ lyr = NLayers /\ t < MaxSteps
  /\ t' = t + 1 /\ lyr' = 0
  /\ UNCHANGED <<gen, bs, beam, prompt, maskK, alibi, phase, cache, kprompt, prevSeq,
                 seqLen, batchSize, present, blockedMask, blockedAlibi, ctx, attn>>

(* The generation ends after any complete forward (eos or max tokens).   *)
EndGeneration ==
  /\ phase = "run" /\ lyr = NLayers
  /\ phase' = "idle"
  /\ UNCHANGED <<gen, bs, beam, prompt, maskK, alibi, t, lyr, cache, kprompt, prevSeq,
                 seqLen, batchSize, present, blockedMask, blockedAlibi, ctx, attn>>

(* The caller starts a generation after the last one ended or raised:     *)
(* timestamp 0 and no layer_past.                                          *)
StartGeneration ==
  /\ phase \in {"idle", "error"}
  /\ gen < MaxGen
  /\ gen' = gen + 1
  /\ \E b \in Batches, p \in Prompts, m \in MaskKinds, a \in BOOLEAN :
       /\ bs' = b /\ prompt' = p /\ maskK' = m /\ alibi' = a
  /\ IF BeamPerCall THEN beam' \in Beams ELSE UNCHANGED beam
  /\ t' = 0 /\ lyr' = 0 /\ phase' = "run"
  /\ present' = [l \in Layers |-> -1]
  /\ UNCHANGED <<cache, kprompt, prevSeq, seqLen, batchSize, blockedMask, blockedAlibi, ctx, attn>>

(* release_resources, lines 42-43 and clear_cache, lines 23-27, called on *)
(* every layer between generations.                                        *)
ReleaseResources ==
  /\ phase \in {"idle", "error"}
  /\ \E l \in Layers : cache[l].alloc \/ kprompt[l].alloc
  /\ cache' = [l \in Layers |-> NoCache] /\ kprompt' = [l \in Layers |-> NoPrompt]
  /\ UNCHANGED <<gen, bs, beam, prompt, maskK, alibi, t, lyr, phase, prevSeq, seqLen,
                 batchSize, present, blockedMask, blockedAlibi, ctx, attn>>

Next ==
  \/ \E h \in HiddenRows : LayerForward(h)
  \/ NextToken \/ EndGeneration \/ StartGeneration \/ ReleaseResources

Spec == Init /\ [][Next]_vars

-----------------------------------------------------------------------------
Row == [gen : 0 .. MaxGen, tok : -3 .. MaxPosition + MaxSteps + 2]
Attr == [gen : 0 .. MaxGen, t : -1 .. MaxSteps]

TypeOK ==
  /\ phase \in {"idle", "run", "error"} /\ lyr \in 0 .. NLayers /\ t \in 0 .. MaxSteps
  /\ \A l \in Layers :
       /\ cache[l].rows \in [Rows -> Row] /\ cache[l].bsBeam \in Nat
       /\ prevSeq[l] \in Nat /\ seqLen[l] \in Nat /\ present[l] >= -1
       /\ batchSize[l] \in {0} \cup Batches
  /\ blockedMask \in Attr /\ blockedAlibi \in Attr
  /\ attn.impl \in Impls /\ attn.gidx \in [Projs -> BOOLEAN] /\ attn.xetla \in BOOLEAN

\* The tokens of the current sequence: the prompt and one per forward.
Context == [k \in 1 .. prompt + t |-> [gen |-> gen, tok |-> k - 1]]

(* Every layer that has run in the current forward attended exactly the  *)
(* keys and values of the current sequence, in order: all prompt tokens  *)
(* and every generated token, each written by this layer in this         *)
(* generation, none uninitialised (torch.empty), left over from an        *)
(* earlier generation, scrambled by a mis-shaped view or computed from   *)
(* int4 weights without their act_order order (g_idx).  This is what      *)
(* the rows kept by prev_seq_len/seq_len (pre_qkv, process_qkv_output),    *)
(* the reallocation test of prepare_kv_cache and the separate beam-search *)
(* prompt buffer together must give, whichever layer class and GEMM      *)
(* branch of compute_qkv_gemm computes them.                               *)
AttendsCurrentContext ==
  \A l \in Layers : phase = "run" /\ l < lyr => ctx[l].keys = Context

(* The blocked attention mask and alibi that every layer passes to its    *)
(* sdp are the ones built from this forward's attention_mask and alibi:   *)
(* the class attributes written by layer 0 (lines 285-298) are never read *)
(* stale by a later layer.                                                 *)
BlockedMaskCurrent ==
  \A l \in Layers : phase = "run" /\ l < lyr =>
    /\ ctx[l].mask = IF maskK = "float" THEN [gen |-> gen, t |-> t] ELSE NoAttr
    /\ ctx[l].alibi = IF alibi THEN [gen |-> gen, t |-> t] ELSE NoAttr

(* A forward raises (a .view of the cache rows fails, line 111, or the    *)
(* copy into the blocked mask or alibi, lines 289 and 297) only when the  *)
(* sequence, prompt and generated tokens, is longer than max_position,    *)
(* whichever of greedy and beam search, with its separate prompt buffer,  *)
(* runs and whatever cache the layer kept from an earlier generation.     *)
FailsOnlyWhenFull ==
  phase = "error" => KvLen > MaxPosition
=============================================================================
