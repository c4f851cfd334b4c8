----------------------------- MODULE GPTQPipeline -----------------------------
(***************************************************************************)
(* GPTQuantizer end to end (gptq/gptq.py): __init__ fills weight_config  *)
(* with check_layer_config (GPTQConfig) and self.dataloader with          *)
(* prepare_dataloader, then execute_quantization replays it through      *)
(* the model in pre_quantization and quantizes block by block.  The       *)
(* selection (GPTQDataSelection) and the driver (GPTQDriver) share        *)
(* self.dataloader; each module sees it through its own abstraction, a    *)
(* window [src, lo, hi] of a user batch for the selection, and what       *)
(* block 0 receives when the model runs on the sample for the driver.     *)
(* How the model treats a sample depends only on how pre_quantization     *)
(* calls it, with the dict's items as keywords for a dict and with its    *)
(* first tensor otherwise, so the model is a fixed map from that kind to  *)
(* whether block 0 is reached and with which keyword tensors.             *)
(***************************************************************************)
EXTENDS Integers, Sequences

CONSTANTS
  Loaders, NSamples, PadMaxLength,   \* of GPTQDataSelection
  KwNames, HiddenModes, NBlocks, Layers,  \* of GPTQDriver
  Models,     \* possible models: [BOOLEAN -> [reaches, kw]], keyed by "is a dict"
  ModuleOrder, Finds, UserConfigs,   \* of GPTQConfig
  FullName    \* <<block, sub-layer>> -> get_full_layer_name (lines 240-242)

VARIABLES
  useMaxLength, nsamples, original, k, selected, done,   \* selection
  dataloader, hiddenKw, phase, pos, keyCache, posCache, blk, j,
  hstate, hin, hooks, outs, weight, qin,                   \* driver
  user, weightConfig, checked,                             \* configuration
  noConfig,   \* the driver's view of get_layer_config
  model,      \* the model's behaviour on each kind of sample
  stage       \* "config", "select" (both inside __init__) or "quantize"

selVars == <<useMaxLength, nsamples, original, k, selected, done>>
drvVars == <<dataloader, hiddenKw, phase, pos, keyCache, posCache, blk, j,
             hstate, hin, hooks, outs, weight, qin, noConfig>>
cfgVars == <<user, weightConfig, checked>>
vars == <<selVars, drvVars, cfgVars, model, stage>>

\* self.weight_config; get_layer_config is not looked up through its history.
Cfg == INSTANCE GPTQConfig WITH LayerNames <- {}, got <- <<>>

\* self.dataloader as the selection builds it.
Sel == INSTANCE GPTQDataSelection WITH dataloader <- selected

\* The driver starts from an empty self.dataloader, refilled at the hand-over.
Drv == INSTANCE GPTQDriver WITH Datasets <- {<<>>},
                                NoConfigs <- {[b \in 0 .. NBlocks - 1 |-> {}]}

\* Step 2.1's test, get_layer_config(get_full_layer_name(l, b)) is None.
Excluded(b, l) == Cfg!GetLayerConfig(FullName[<<b, l>>]) = Cfg!NoConfig

\* Lines 368-376: what block 0 receives from each selected sample, by the
\* way pre_quantization calls the model on it.
Feed(sel) == [n \in DOMAIN sel |-> model[original[sel[n].src].dict]]

Init ==
  /\ Sel!Init
  /\ Drv!Init
  /\ user \in UserConfigs /\ weightConfig = <<>> /\ checked = FALSE
  /\ model \in Models
  /\ stage = "config"

(* __init__, lines 64-76: weight_config (None becomes {}) is filled by   *)
(* check_layer_config before the dataloader is prepared.                   *)
Configure ==
  /\ stage = "config"
  /\ Cfg!CheckLayerConfig
  /\ stage' = "select"
  /\ UNCHANGED <<selVars, drvVars, model>>

(* __init__, lines 86-99: prepare_dataloader runs its selection loop.      *)
Select ==
  /\ stage = "select"
  /\ Sel!Next
  /\ UNCHANGED <<drvVars, cfgVars, model, stage>>

(* execute_quantization starts on the calibration set the loop left.       *)
HandOver ==
  /\ stage = "select"
  /\ done
  /\ dataloader' = Feed(selected)
  /\ noConfig' = [b \in Drv!Blocks |-> {l \in Layers : Excluded(b, l)}]
  /\ stage' = "quantize"
  /\ UNCHANGED <<selVars, cfgVars, hiddenKw, phase, pos, keyCache, posCache, blk, j,
                 hstate, hin, hooks, outs, weight, qin, model>>

(* execute_quantization, lines 425-556.                                     *)
Quantize ==
  /\ stage = "quantize"
  /\ Drv!Next
  /\ UNCHANGED <<selVars, cfgVars, model, stage>>

Next == Configure \/ Select \/ HandOver \/ Quantize

(* Both loops are sequential code: only their own next statement can run. *)
Spec == Init /\ [][Next]_vars /\ WF_vars(Next)

-----------------------------------------------------------------------------
TypeOK == Sel!TypeOK /\ Drv!TypeOK /\ Cfg!TypeOK /\ stage \in {"config", "select", "quantize"}

(* The selection takes the first min(nsamples, #eligible) eligible       *)
(* batches, each cut to a window of the right length (as in               *)
(* GPTQDataSelection), here for loaders mixing dict and tensor batches.   *)
FirstNSamples == Sel!FirstNSamples

(* Each quantized sub-layer of block b saw, in order, one input per       *)
(* calibration sample that reached block 0, propagated through the        *)
(* quantized blocks before b with its own keyword tensors: the driver's   *)
(* hook/gather indexing kept aligned whatever mix of samples the          *)
(* selection produced.                                                     *)
SequentialCalibration == Drv!SequentialCalibration

(* Once quantization starts on a non-empty set whose samples all reach    *)
(* block 0 with the same keywords, execute_quantization returns with      *)
(* every sub-layer that get_layer_config gives settings quantized from    *)
(* real data and every one it maps to None left in floating point.       *)
QuantizationCompletes ==
  [](stage = "quantize" /\ Drv!WellFormed =>
       <>(phase = "done" /\ \A b \in Drv!Blocks, l \in Layers :
                              weight[b][l] = IF Excluded(b, l) THEN "fp" ELSE "q"))

(* prepare_dataloader reports a short calibration set as a warning only  *)
(* (lines 164-168, 233-238): a shortfall must not make                     *)
(* execute_quantization raise.                                             *)
ShortfallNonFatal == stage = "quantize" /\ Len(selected) < nsamples => phase # "error"
=============================================================================
