--------------------------- MODULE GPTQFasterquant ---------------------------
(***************************************************************************)
(* GPTQ.fasterquant (gptq/gptq.py): the blocked quantize-and-compensate   *)
(* loop of one layer, from the call with a cloned weight W to the return  *)
(* of (scale, zero, Q).                                                    *)
(*                                                                         *)
(* Column data is abstracted symbolically.  A weight column is a record   *)
(* saying which original input channel it holds (src), whether it was     *)
(* zeroed as a dead channel, and the set of positions whose rounding      *)
(* error has been subtracted from it (comp).  Two columns with the same   *)
(* record hold the same numbers, because each error is itself a function  *)
(* of the record it was computed from.  The factor Hinv = chol(chol^-1(H)) *)
(* is abstracted to its sparsity: Hinv[k, p] (k < p) is nonzero unless    *)
(* k or p is a dead channel, whose row and column of H are zero.          *)
(* Quantization parameters are identified by the slice of values they    *)
(* were fitted on.                                                         *)
(***************************************************************************)
EXTENDS Integers, Sequences, FiniteSets, Functions, TLC

CONSTANTS
  NCols,      \* self.columns: number of input channels of the layer
  DiagValues, \* values diag(H) may take; 0 marks a dead channel
  Configs     \* set of [blocksize, groupsize, act_order] the caller passes

ASSUME NCols \in Nat \ {0}
ASSUME 0 \in DiagValues /\ DiagValues \subseteq Nat
ASSUME \A c \in Configs : c.blocksize \in Nat \ {0}
                          /\ (c.groupsize = -1 \/ c.groupsize \in Nat \ {0})
                          /\ c.act_order \in BOOLEAN

Cols == 0 .. NCols - 1   \* original input-channel indices
Pos  == 0 .. NCols - 1   \* column positions after the optional permutation

VARIABLES
  blocksize, groupsize, act_order, \* arguments of fasterquant
  hdiag,   \* diag(self.H) as accumulated by add_batch
  pc,      \* which part of fasterquant runs next
  W,       \* the working weight, one value per position
  perm,    \* perm[p] = original channel at position p (identity unless act_order)
  cur,     \* self.quantizer's current (scale, zero), by the slice it was fitted on
  scale,   \* the list of per-group parameters appended in the loop
  i1,      \* start of the current block
  i,       \* index of the next column inside the block
  W1,      \* W[:, i1:i2].clone() of the current block
  Q1,      \* quantized columns of the current block
  Q        \* quantized columns, position -> [val, param] (NoQ when not yet)

vars == <<blocksize, groupsize, act_order, hdiag, pc, W, perm, cur, scale,
          i1, i, W1, Q1, Q>>

NoQ == [none |-> TRUE]

Val == [src : Cols, zeroed : BOOLEAN, comp : SUBSET Pos]

i2 == IF i1 + blocksize < NCols THEN i1 + blocksize ELSE NCols
Block == i1 .. i2 - 1

Dead(p) == hdiag[perm[p]] = 0

\* Hinv[k, p] /= 0 for k < p: a dead channel's row and column stay decoupled.
Coupled(k, p) == k < p /\ ~Dead(k) /\ ~Dead(p)

\* W_p -= err_k * Hinv[k, p] for every k of ks that is coupled to p.
Propagate(v, p, ks) == [v EXCEPT !.comp = @ \cup {k \in ks : Coupled(k, p)}]

\* self.quantizer.find_params(W[:, j:j+groupsize]): parameters of a slice.
FitSlice(w, lo, hi) == [p \in lo .. (IF hi < NCols THEN hi ELSE NCols) - 1 |-> w[p]]

\* Mutant: the boundary test uses the block-local index i.
GroupBoundaryLocal(blockStart, idx) ==
  groupsize # -1 /\ idx % groupsize = 0

\* (i1 + i) % groupsize == 0 with grouping enabled: a new group starts.
GroupBoundary(blockStart, idx) ==
  groupsize # -1 /\ (blockStart + idx) % groupsize = 0

\* Mutant: argsort(diag(H)) without descending=True.
SortedAsc(d) ==
  {f \in Bijection(Pos, Cols) : \A p \in Pos : p + 1 \in Pos => d[f[p]] <= d[f[p + 1]]}

\* argsort(diag(H), descending=True): any order of equal diagonals.
SortedDesc(d) ==
  {f \in Bijection(Pos, Cols) : \A p \in Pos : p + 1 \in Pos => d[f[p]] >= d[f[p + 1]]}

\* Mutant: Q[:, perm] instead of Q[:, invperm].
PermuteAgain(q, pm) == [k \in Cols |-> q[pm[k]]]

\* Q[:, invperm] with invperm = argsort(perm).
Unpermute(q, pm) == [k \in Cols |-> q[CHOOSE p \in Pos : pm[p] = k]]

Init ==
  /\ \E c \in Configs : /\ blocksize = c.blocksize
                        /\ groupsize = c.groupsize
                        /\ act_order = c.act_order
  /\ hdiag \in [Cols -> DiagValues]
  /\ pc = "start"
  /\ W = [p \in Pos |-> [src |-> p, zeroed |-> FALSE, comp |-> {}]]
  /\ perm = [p \in Pos |-> p]
  /\ cur = <<>>      \* fresh Quantizer: scale is zeros, ready() is false
  /\ scale = <<>>
  /\ i1 = 0 /\ i = 0
  /\ W1 = <<>> /\ Q1 = <<>>
  /\ Q = [p \in Pos |-> NoQ]

(* Lines 617-655: whole-row parameters (quantizer not ready), dead        *)
(* channels forced to H=1 and zeroed in W, optional act_order permutation, *)
(* damping and the Cholesky chain (abstracted into Coupled).               *)
Prologue ==
  /\ pc = "start"
  /\ cur' = FitSlice(W, 0, NCols)
  /\ LET fixed  == [c \in Cols |-> IF hdiag[c] = 0 THEN 1 ELSE hdiag[c]]
         zeroed == [p \in Pos |-> [W[p] EXCEPT !.zeroed = hdiag[p] = 0]]
     IN IF act_order
          THEN \E pm \in SortedDesc(fixed) :
                  /\ perm' = pm
                  /\ W' = [p \in Pos |-> zeroed[pm[p]]]
          ELSE UNCHANGED perm /\ W' = zeroed
  /\ pc' = "block"
  /\ UNCHANGED <<blocksize, groupsize, act_order, hdiag, scale, i1, i, W1, Q1, Q>>

(* Lines 656-664: open the block i1:i2 and clone its columns.             *)
BlockStart ==
  /\ pc = "block"
  /\ i1 < NCols
  /\ W1' = [p \in Block |-> W[p]]
  /\ Q1' = <<>>
  /\ i' = 0
  /\ pc' = "column"
  /\ UNCHANGED <<blocksize, groupsize, act_order, hdiag, W, perm, cur, scale, i1, Q>>

(* Lines 666-689: one column of the block.  A group boundary refits the  *)
(* parameters on the global W (not W1), the column is quantized with the *)
(* current parameters, and its error is propagated into the later        *)
(* columns of W1.  W1[:, i] itself becomes q and is never read again.    *)
Column ==
  /\ pc = "column"
  /\ i < i2 - i1
  /\ LET j     == i1 + i
         refit == GroupBoundary(i1, i)
         param == IF refit THEN FitSlice(W, j, j + groupsize) ELSE cur
     IN /\ cur' = param
        /\ scale' = IF refit THEN Append(scale, param) ELSE scale
        /\ Q1' = Q1 @@ (j :> [val |-> W1[j], param |-> param])
        /\ W1' = [p \in DOMAIN W1 |-> IF p > j THEN Propagate(W1[p], p, {j})
                                               ELSE W1[p]]
  /\ i' = i + 1
  /\ UNCHANGED <<blocksize, groupsize, act_order, hdiag, pc, W, perm, i1, Q>>

\* Mutant: the lazy update Err1 @ Hinv[i1:i2, i2:] leaves out the last
\* column of the block (Hinv[i1:i2-1, i2:]).
BlockEndDropsLastErr ==
  /\ pc = "column"
  /\ i = i2 - i1
  /\ Q' = [p \in Pos |-> IF p \in Block THEN Q1[p] ELSE Q[p]]
  /\ W' = [p \in Pos |-> IF p >= i2 THEN Propagate(W[p], p, Block \ {i2 - 1}) ELSE W[p]]
  /\ i1' = i2
  /\ pc' = "block"
  /\ UNCHANGED <<blocksize, groupsize, act_order, hdiag, perm, cur, scale, i, W1, Q1>>

\* Mutant: i1 advanced by blocksize, past the end after a short last block.
BlockEndStepsBlocksize ==
  /\ pc = "column"
  /\ i = i2 - i1
  /\ Q' = [p \in Pos |-> IF p \in Block THEN Q1[p] ELSE Q[p]]
  /\ W' = [p \in Pos |-> IF p >= i2 THEN Propagate(W[p], p, Block) ELSE W[p]]
  /\ i1' = i1 + blocksize
  /\ pc' = "block"
  /\ UNCHANGED <<blocksize, groupsize, act_order, hdiag, perm, cur, scale, i, W1, Q1>>

(* Lines 691-694: store Q1 and propagate the block's errors Err1 to all  *)
(* later columns of W through Hinv[i1:i2, i2:].                           *)
BlockEnd ==
  /\ pc = "column"
  /\ i = i2 - i1
  /\ Q' = [p \in Pos |-> IF p \in Block THEN Q1[p] ELSE Q[p]]
  /\ W' = [p \in Pos |-> IF p >= i2 THEN Propagate(W[p], p, Block) ELSE W[p]]
  /\ i1' = i2
  /\ pc' = "block"
  /\ UNCHANGED <<blocksize, groupsize, act_order, hdiag, perm, cur, scale, i, W1, Q1>>

(* Lines 699-715: undo the permutation and, without grouping, return the *)
(* whole-row parameters as the only scale entry.                          *)
Epilogue ==
  /\ pc = "block"
  /\ i1 >= NCols
  /\ Q' = IF act_order THEN Unpermute(Q, perm) ELSE Q
  /\ scale' = IF scale = <<>> THEN <<cur>> ELSE scale
  /\ pc' = "done"
  /\ UNCHANGED <<blocksize, groupsize, act_order, hdiag, W, perm, cur, i1, i, W1, Q1>>

Next == Prologue \/ BlockStart \/ Column \/ BlockEnd \/ Epilogue

Spec == Init /\ [][Next]_vars

-----------------------------------------------------------------------------
IsParam(f) == DOMAIN f \subseteq Pos /\ \A p \in DOMAIN f : f[p] \in Val

TypeOK ==
  /\ pc \in {"start", "block", "column", "done"}
  /\ W \in [Pos -> Val]
  /\ perm \in Bijection(Pos, Cols)
  /\ i1 \in 0 .. NCols /\ i \in 0 .. NCols
  /\ \A p \in Pos : Q[p] = NoQ \/ (Q[p].val \in Val /\ IsParam(Q[p].param))
  /\ IsParam(cur) /\ \A n \in DOMAIN scale : IsParam(scale[n])

\* Positions before p whose error GPTQ must have propagated into column p.
Earlier(p) == {k \in Pos : Coupled(k, p)}

(* Every column is quantized only after the rounding errors of all        *)
(* earlier coupled columns were subtracted from it: the in-block updates  *)
(* of W1 (line 688) and the lazy block update of W (line 694) together    *)
(* miss none and apply none twice.                                         *)
Compensated ==
  /\ \A p \in DOMAIN Q1 : Q1[p].val.comp = Earlier(p)
  /\ pc # "done" => \A p \in Pos : Q[p] # NoQ => Q[p].val.comp = Earlier(p)

(* After the return, output column k holds the quantization of original   *)
(* channel k (line 701 undoes line 638), and a dead channel is quantized  *)
(* from its zeroed weight with no error flowing into it, so it comes out  *)
(* as exactly zero.                                                        *)
UnpermutedOutput ==
  pc = "done" =>
    \A k \in Cols : /\ Q[k].val.src = k
                    /\ Q[k].val.zeroed = (hdiag[k] = 0)
                    /\ hdiag[k] = 0 => Q[k].val.comp = {}

\* g_idx of a position: the scale entry an inference kernel uses for it.
GroupIdx(p) == IF groupsize = -1 THEN 1 ELSE p \div groupsize + 1

(* The returned scale list has one entry per group (ceil(columns /        *)
(* groupsize), or 1 without grouping), and every column was quantized     *)
(* with exactly the entry that g_idx = position // groupsize selects, in  *)
(* permuted position space.                                               *)
GroupIndexContract ==
  pc = "done" =>
    /\ Len(scale) = IF groupsize = -1 THEN 1
                    ELSE (NCols + groupsize - 1) \div groupsize
    /\ \A k \in Cols :
         LET p == CHOOSE p \in Pos : perm[p] = k
         IN Q[k].param = scale[GroupIdx(p)]
-----------------------------------------------------------------------------
(* Refinement mapping onto GPTQSequential.  Inside a block the abstract    *)
(* weights are W1 for the block and, beyond it, W with the errors of the   *)
(* block's already quantized columns (still pending in Err1) applied; a    *)
(* quantized position keeps the value it was quantized from.               *)
InLoop == pc \in {"block", "column"}
NextCol == IF pc = "column" THEN i1 + i ELSE i1
QSoFar == IF pc = "column" THEN [p \in Pos |-> IF p \in DOMAIN Q1 THEN Q1[p] ELSE Q[p]]
          ELSE Q
QAtPos(p) == IF pc = "done" /\ act_order THEN Q[perm[p]] ELSE QSoFar[p]
WSeq == [p \in Pos |->
           IF QAtPos(p) # NoQ THEN QAtPos(p).val
           ELSE IF pc = "column" /\ p \in Block THEN W1[p]
           ELSE IF pc = "column" THEN Propagate(W[p], p, i1 .. i1 + i - 1)
           ELSE W[p]]

ColSeq == INSTANCE GPTQSequential
         WITH pc <- IF InLoop THEN "loop" ELSE pc, W <- WSeq, Q <- QSoFar, j <- NextCol

(* The blocked loop computes what the column-at-a-time GPTQ recurrence    *)
(* computes: lazy batch updates change only when errors are applied, not  *)
(* which values are quantized or which values each group's parameters    *)
(* are fitted on.                                                          *)
SequentialRefinement == ColSeq!Spec

\* Every group starts at a block start: no grouping, or group_size a
\* multiple of block_size (the defaults, 128 and 128).
Aligned == groupsize = -1 \/ groupsize % blocksize = 0

(* The same refinement, for the configurations in which every group      *)
(* starts at a block start: there the blocked loop of lines 656-694 with  *)
(* its refits at line 673 is the column-at-a-time recurrence.  The run    *)
(* that checks it enumerates all configurations, so the other invariants *)
(* are checked on misaligned ones too.                                    *)
AlignedRefinement ==
  /\ Aligned => ColSeq!Init
  /\ [][Aligned => [ColSeq!Next]_(ColSeq!vars)]_vars
=============================================================================
