------------------------------ MODULE GPTQConfig ------------------------------
(***************************************************************************)
(* Layer-wise configuration of GPTQuantizer (gptq/gptq.py):               *)
(* check_layer_config, run once by __init__, fills every entry of         *)
(* weight_config with defaults; get_layer_config(name), called by the     *)
(* driver for every sub-layer, looks a layer's settings up by exact name  *)
(* and then by regular expression.                                         *)
(*                                                                         *)
(* The four settings the code fills that feed fasterquant's arithmetic    *)
(* (wbits, group_size, block_size, percdamp) are kept; sym, act_order,    *)
(* perchannel and mse are filled by the same get-with-default and are     *)
(* left out.  percdamp is in hundredths.  Regular-expression search is    *)
(* given by the constant Finds.                                            *)
(***************************************************************************)
EXTENDS Integers, Sequences, FiniteSets, FiniteSetsExt

CONSTANTS
  ModuleOrder, \* names of model.named_modules(), in order
  LayerNames,  \* full names of the sub-layers the driver looks up
  Finds,       \* key -> names in which re.compile(key).findall finds a match
  UserConfigs  \* possible weight_config arguments (see below)

(* A weight_config is either the global form {"wbits": ..., ...}, given   *)
(* as [form |-> "global", opts |-> o], or a dict of per-layer entries,     *)
(* given as [form |-> "layers", entries |-> <<[key, opts], ...>>] in dict  *)
(* order.  opts maps the keys the user wrote to their values.             *)

Defaults == [wbits |-> 4, group_size |-> 128, block_size |-> 128, percdamp |-> 1]
NoConfig == [none |-> TRUE]    \* None
Unset == [unset |-> TRUE]       \* layer not looked up yet

VARIABLES
  user,        \* the weight_config passed to __init__
  weightConfig,\* self.weight_config: <<[key, cfg], ...>> after check_layer_config
  checked,     \* check_layer_config has run
  got          \* history: layer name -> what get_layer_config returned

vars == <<user, weightConfig, checked, got>>

Get(opts, k, d) == IF k \in DOMAIN opts THEN opts[k] ELSE d

(* Lines 248-273 and 276-299: the settings with defaults.  block_size     *)
(* defaults to group_size_default and percdamp is read from "pecdamp".    *)
Fill(opts) ==
  [wbits      |-> Get(opts, "wbits", Defaults.wbits),
   group_size |-> Get(opts, "group_size", Defaults.group_size),
   block_size |-> Get(opts, "block_size", Defaults.group_size),
   percdamp   |-> Get(opts, "pecdamp", Defaults.percdamp)]

(* check_layer_config, lines 244-299: the global form becomes one entry   *)
(* per named module; a per-layer dict keeps its keys and order.            *)
CheckedConfig(u) ==
  IF u.form = "global"
    THEN [n \in 1 .. Len(ModuleOrder) |-> [key |-> ModuleOrder[n], cfg |-> Fill(u.opts)]]
  ELSE [n \in 1 .. Len(u.entries) |-> [key |-> u.entries[n].key, cfg |-> Fill(u.entries[n].opts)]]

CheckLayerConfig ==
  /\ ~checked
  /\ weightConfig' = CheckedConfig(user)
  /\ checked' = TRUE
  /\ UNCHANGED <<user, got>>

Keys == {weightConfig[n].key : n \in DOMAIN weightConfig}
CfgOf(k) == weightConfig[CHOOSE n \in DOMAIN weightConfig : weightConfig[n].key = k].cfg

\* len(regex.findall(layer_name)): the number of matches, here 0 or 1.
FindAllLen(k, name) == IF name \in Finds[k] THEN 1 ELSE 0

\* ... is not None: true of every int.
RegexHit(k, name) == FindAllLen(k, name) \in Int

(* get_layer_config, lines 302-317: the exact entry, else the first entry *)
(* whose pattern passes the test of line 312, else None.                   *)
GetLayerConfig(name) ==
  IF name \in Keys THEN CfgOf(name)
  ELSE LET hits == {n \in DOMAIN weightConfig : RegexHit(weightConfig[n].key, name)}
       IN IF hits = {} THEN NoConfig ELSE weightConfig[Min(hits)].cfg

Lookup(name) ==
  /\ checked
  /\ got' = [got EXCEPT ![name] = GetLayerConfig(name)]
  /\ UNCHANGED <<user, weightConfig, checked>>

Init ==
  /\ user \in UserConfigs
  /\ weightConfig = <<>>
  /\ checked = FALSE
  /\ got = [n \in LayerNames |-> Unset]

Next == CheckLayerConfig \/ \E name \in LayerNames : Lookup(name)

Spec == Init /\ [][Next]_vars

-----------------------------------------------------------------------------
\* Settings fasterquant can run with: bits and block size positive.
Settings == [wbits : Nat \ {0}, group_size : Int, block_size : Nat \ {0}, percdamp : Nat]

TypeOK ==
  /\ checked \in BOOLEAN
  /\ \A n \in DOMAIN weightConfig : weightConfig[n].cfg \in Settings
  /\ \A name \in LayerNames : got[name] \in {Unset, NoConfig} \cup Settings

\* The layer has its own entry in what the user passed.
IsUserKey(name) ==
  user.form = "global" \/ \E n \in DOMAIN user.entries : user.entries[n].key = name

\* The settings the user wrote for that entry.
UserOpts(name) ==
  IF user.form = "global" THEN user.opts
  ELSE user.entries[CHOOSE n \in DOMAIN user.entries : user.entries[n].key = name].opts

(* The keys the docstring of __init__ (lines 39-51) writes in its         *)
(* weight_config example, and the setting each one sets.                  *)
DocumentedKeys == [bits |-> "wbits", group_size |-> "group_size", percdamp |-> "percdamp"]

(* Docstring of __init__: a layer given an entry of weight_config, keyed  *)
(* as in its example, is quantized with the values written there: a key  *)
(* the user wrote is never silently replaced by its default.              *)
DocumentedSettingsHonoured ==
  \A name \in LayerNames :
    got[name] # Unset /\ IsUserKey(name) =>
      \A d \in DOMAIN DocumentedKeys \cap DOMAIN UserOpts(name) :
        got[name][DocumentedKeys[d]] = UserOpts(name)[d]

(* Comment of get_layer_config and the warning of execute_quantization:   *)
(* a layer is excluded from quantization (None) exactly when no entry     *)
(* names it and no entry's pattern is found in its name.                  *)
UnmatchedLayerExcluded ==
  \A name \in LayerNames :
    user.form = "layers" /\ got[name] # Unset =>
      (got[name] = NoConfig <=>
         ~\E n \in DOMAIN user.entries : LET k == user.entries[n].key
                                          IN k = name \/ name \in Finds[k])
=============================================================================
