---------------------------- MODULE MC_GPTQPipeline ----------------------------
(* pad_max_length 2; user dataloaders of up to three batches: dicts with   *)
(* "input_ids" and tensors of 1 to 3 tokens, a dict without "input_ids";   *)
(* two blocks of two sub-layers and one keyword tensor; weight_config     *)
(* None ({}) or one entry naming one sub-layer of block 0.                *)
EXTENDS GPTQPipeline

BatchKinds ==
  {b \in [dict : BOOLEAN, ids : BOOLEAN, len : 1 .. 3] : ~b.dict => b.ids}
  \ {[dict |-> TRUE, ids |-> FALSE, len |-> l] : l \in 2 .. 3}

MCLoaders == UNION {[1 .. n -> BatchKinds] : n \in 0 .. 3}

MCLayers == {"q_proj", "o_proj"}
MCKwNames == {"attention_mask"}

\* Any model: each kind of sample may or may not reach block 0, with any
\* keyword tensors.
AnyModels == [BOOLEAN -> [reaches : BOOLEAN, kw : SUBSET MCKwNames]]

\* Models that run every sample into block 0 with the same keywords.
MCFullName ==
  [p \in (0 .. 1) \X MCLayers |->
     CASE p = <<0, "q_proj">> -> "h.0.q_proj" [] p = <<0, "o_proj">> -> "h.0.o_proj"
       [] p = <<1, "q_proj">> -> "h.1.q_proj" [] p = <<1, "o_proj">> -> "h.1.o_proj"]

MCModuleOrder == <<"", "h", "h.0", "h.0.q_proj", "h.0.o_proj", "h.1", "h.1.q_proj", "h.1.o_proj">>

\* re.findall("h.0.q_proj", name) finds something only in that name.
MCFinds == [key \in {"h.0.q_proj"} |-> {"h.0.q_proj"}]

OneEntry == {[form |-> "layers", entries |-> <<[key |-> "h.0.q_proj", opts |-> [x \in {} |-> 0]]>>]}
MCUserConfigs == {[form |-> "layers", entries |-> <<>>]} \cup OneEntry

UniformModels == {[d \in BOOLEAN |-> [reaches |-> TRUE, kw |-> kw]] : kw \in SUBSET MCKwNames}
=============================================================================
