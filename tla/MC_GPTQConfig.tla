----------------------------- MODULE MC_GPTQConfig -----------------------------
(* A model with one transformer block "h.0" holding sub-layers q and o;   *)
(* weight_config in the global form, or one or two per-layer entries      *)
(* keyed by an exact name, a pattern that finds q, or a pattern that      *)
(* finds nothing, each with some of wbits, block_size and percdamp set,  *)
(* and bits, the docstring's name for wbits.                              *)
EXTENDS GPTQConfig

MCModuleOrder == <<"model", "h.0", "h.0.q", "h.0.o">>
MCLayerNames == {"h.0.q", "h.0.o"}
PatternKeys == {"h.0.q", ".*q", "mlp"}

\* Where re.findall(key, name) finds something ("." matches any character).
MCFinds ==
  [k \in {"model", "h.0", "h.0.q", "h.0.o", ".*q", "mlp"} |->
     CASE k = "model" -> {"model"}
       [] k = "h.0"   -> {"h.0", "h.0.q", "h.0.o"}
       [] k = "h.0.q" -> {"h.0.q"}
       [] k = "h.0.o" -> {"h.0.o"}
       [] k = ".*q"   -> {"h.0.q"}
       [] k = "mlp"   -> {}]

UserValues == [wbits |-> 8, bits |-> 8, group_size |-> 32, block_size |-> 64, percdamp |-> 10]
Opts(S) == [k \in S |-> UserValues[k]]
SomeOpts == {Opts(S) : S \in SUBSET {"wbits", "bits", "block_size", "percdamp"}}

GlobalForms == {[form |-> "global", opts |-> o] : o \in {x \in SomeOpts : "wbits" \in DOMAIN x}}
LayerForms ==
  {[form |-> "layers", entries |-> <<[key |-> k, opts |-> o]>>] : k \in PatternKeys, o \in SomeOpts}
  \cup {c \in {[form |-> "layers", entries |-> <<[key |-> k1, opts |-> o1], [key |-> k2, opts |-> o2]>>] :
                k1, k2 \in PatternKeys, o1, o2 \in SomeOpts} :
          c.entries[1].key # c.entries[2].key}
MCUserConfigs == GlobalForms \cup LayerForms

=============================================================================
