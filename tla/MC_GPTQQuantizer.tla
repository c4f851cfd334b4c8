-------------------------- MODULE MC_GPTQQuantizer --------------------------
(* Weight slices of one row of two weights in -2..2 (all-zero, one-signed, *)
(* mixed and outlier rows) or two rows in -1..2, 1 to 3 bits, a grid of 5 with *)
(* maxshrink 0.8 (four candidates: p = 1, 0.8, 0.6, 0.4) and norm 2.     *)
EXTENDS GPTQQuantizer

MCRows == [1 .. 2 -> -2 .. 2]
MCSmallRows == [1 .. 2 -> -1 .. 2]
MCWeights == {<<a>> : a \in MCRows} \cup {<<a, b>> : a, b \in MCSmallRows}

MCMaxShrink == [num |-> 4, den |-> 5]

\* fasterquant's default configuration family: asymmetric, with and
\* without the MSE search, per channel or per tensor.
AsymConfigs == [bits : 1 .. 3, perchannel : BOOLEAN, sym : {FALSE}, mse : BOOLEAN]
SymConfigs  == [bits : 1 .. 3, perchannel : BOOLEAN, sym : {TRUE}, mse : {FALSE}]
=============================================================================
