--------------------------- MODULE GPTQSequential ----------------------------
(***************************************************************************)
(* What fasterquant promises, without the lazy block updates: the GPTQ    *)
(* recurrence one column at a time (spec section 4.2, steps 3-9).  Column *)
(* j is quantized with the parameters of its group, fitted when the group *)
(* starts on the then-current weights, and its error is subtracted from   *)
(* every later column at once.  block_size only bounds the working set   *)
(* and does not appear here.  The data abstraction is the one of          *)
(* GPTQFasterquant, whose helper definitions are restated here.        *)
(***************************************************************************)
EXTENDS Integers, Sequences, FiniteSets, Functions, TLC

CONSTANTS NCols, DiagValues, Configs

Cols == 0 .. NCols - 1
Pos  == 0 .. NCols - 1

VARIABLES groupsize, act_order, hdiag, pc, W, perm, cur, scale, j, Q

vars == <<groupsize, act_order, hdiag, pc, W, perm, cur, scale, j, Q>>

NoQ == [none |-> TRUE]

Dead(p) == hdiag[perm[p]] = 0
Coupled(k, p) == k < p /\ ~Dead(k) /\ ~Dead(p)
Propagate(v, p, ks) == [v EXCEPT !.comp = @ \cup {k \in ks : Coupled(k, p)}]
FitSlice(w, lo, hi) == [p \in lo .. (IF hi < NCols THEN hi ELSE NCols) - 1 |-> w[p]]
SortedDesc(d) ==
  {f \in Bijection(Pos, Cols) : \A p \in Pos : p + 1 \in Pos => d[f[p]] >= d[f[p + 1]]}
Unpermute(q, pm) == [k \in Cols |-> q[CHOOSE p \in Pos : pm[p] = k]]

Init ==
  /\ \E c \in Configs : groupsize = c.groupsize /\ act_order = c.act_order
  /\ hdiag \in [Cols -> DiagValues]
  /\ pc = "start"
  /\ W = [p \in Pos |-> [src |-> p, zeroed |-> FALSE, comp |-> {}]]
  /\ perm = [p \in Pos |-> p]
  /\ cur = <<>>
  /\ scale = <<>>
  /\ j = 0
  /\ Q = [p \in Pos |-> NoQ]

\* Steps 1-6: whole-row parameters, dead channels, act_order, factorisation.
Prologue ==
  /\ pc = "start"
  /\ cur' = FitSlice(W, 0, NCols)
  /\ LET fixed  == [c \in Cols |-> IF hdiag[c] = 0 THEN 1 ELSE hdiag[c]]
         zeroed == [p \in Pos |-> [W[p] EXCEPT !.zeroed = hdiag[p] = 0]]
     IN IF act_order
          THEN \E pm \in SortedDesc(fixed) : perm' = pm /\ W' = [p \in Pos |-> zeroed[pm[p]]]
          ELSE UNCHANGED perm /\ W' = zeroed
  /\ pc' = "loop"
  /\ UNCHANGED <<groupsize, act_order, hdiag, scale, j, Q>>

\* Step 7 for one column: refit at a group start, quantize, compensate.
Step ==
  /\ pc = "loop"
  /\ j < NCols
  /\ LET refit == groupsize # -1 /\ j % groupsize = 0
         param == IF refit THEN FitSlice(W, j, j + groupsize) ELSE cur
     IN /\ cur' = param
        /\ scale' = IF refit THEN Append(scale, param) ELSE scale
        /\ Q' = [Q EXCEPT ![j] = [val |-> W[j], param |-> param]]
  /\ W' = [p \in Pos |-> IF p > j THEN Propagate(W[p], p, {j}) ELSE W[p]]
  /\ j' = j + 1
  /\ UNCHANGED <<groupsize, act_order, hdiag, pc, perm>>

\* Steps 8-10: un-permute Q and return the parameters.
Epilogue ==
  /\ pc = "loop"
  /\ j >= NCols
  /\ Q' = IF act_order THEN Unpermute(Q, perm) ELSE Q
  /\ scale' = IF scale = <<>> THEN <<cur>> ELSE scale
  /\ pc' = "done"
  /\ UNCHANGED <<groupsize, act_order, hdiag, W, perm, cur, j>>

Next == Prologue \/ Step \/ Epilogue

Spec == Init /\ [][Next]_vars
=============================================================================
