----------------------------- MODULE GPTQHessian -----------------------------
(***************************************************************************)
(* One GPTQ object (gptq/gptq.py, class GPTQ) of a Linear layer seen from *)
(* its Hessian: __init__ allocates H = 0 and nsamples = 0, add_batch is   *)
(* called by the forward hook once per calibration batch, fasterquant     *)
(* consumes H (del self.H) and free() drops it (self.H = None).           *)
(*                                                                         *)
(* H is kept exactly, as a rational [num, den], for one input channel: a  *)
(* batch is abstracted to its shape and the sum of squares of its entries *)
(* (inp.matmul(inp.t()) for that channel).  rows and sumsq are history    *)
(* variables: all calibration rows seen and their total sum of squares.   *)
(***************************************************************************)
EXTENDS Integers

CONSTANTS
  Inputs,     \* set of [rank, b, s, sq]: shape [b, s, 1] (rank 3) or [s, 1] (rank 2)
  MaxBatches  \* bound on the number of add_batch calls

ASSUME \A x \in Inputs : x.rank \in {2, 3} /\ x.b \in Nat \ {0} /\ x.s \in Nat \ {0}
                         /\ x.sq \in Nat /\ (x.rank = 2 => x.b = 1)

VARIABLES
  hstate,   \* "held", "deleted" (del self.H) or "none" (self.H = None)
  H,        \* self.H while held: a rational [num, den]
  nsamples, \* self.nsamples
  calls,    \* add_batch calls so far (bounded by MaxBatches)
  rows,     \* history: calibration rows passed to add_batch
  sumsq     \* history: their sum of squares

vars == <<hstate, H, nsamples, calls, rows, sumsq>>

Rat(n, d) == [num |-> n, den |-> d]
RMul(x, n, d) == Rat(x.num * n, x.den * d)
RAdd(x, y) == Rat(x.num * y.den + y.num * x.den, x.den * y.den)
REq(x, y) == x.num * y.den = y.num * x.den

Init ==
  /\ hstate = "held"
  /\ H = Rat(0, 1)
  /\ nsamples = 0
  /\ calls = 0
  /\ rows = 0
  /\ sumsq = 0

\* Mutant: the H *= nsamples / (nsamples + tmp) rescale is missing.
AddBatchNoRescale(x) ==
  /\ hstate = "held"
  /\ calls < MaxBatches
  /\ LET tmp  == IF x.rank = 2 THEN 1 ELSE x.b
         nNew == nsamples + tmp
     IN /\ nsamples' = nNew
        /\ H' = RAdd(H, Rat(2 * x.sq, nNew))
  /\ calls' = calls + 1
  /\ rows' = rows + x.b * x.s
  /\ sumsq' = sumsq + x.sq
  /\ UNCHANGED hstate

\* Mutant: the rescale factor inverted, (nsamples + tmp) / nsamples.
AddBatchRescaleInverted(x) ==
  /\ hstate = "held"
  /\ calls < MaxBatches
  /\ LET tmp  == IF x.rank = 2 THEN 1 ELSE x.b
         nNew == nsamples + tmp
     IN /\ nsamples' = nNew
        /\ H' = RAdd(RMul(H, nNew, nsamples), Rat(2 * x.sq, nNew))
  /\ calls' = calls + 1
  /\ rows' = rows + x.b * x.s
  /\ sumsq' = sumsq + x.sq
  /\ UNCHANGED hstate

(* add_batch (lines 588-612).  A rank-2 input is unsqueezed to a batch of *)
(* one, tmp = inp.shape[0] is taken before the reshape to [-1, columns],  *)
(* H is rescaled by nsamples / (nsamples + tmp), nsamples grows by tmp,   *)
(* and inp * sqrt(2 / nsamples) contributes its outer product.            *)
AddBatch(x) ==
  /\ hstate = "held"
  /\ calls < MaxBatches
  /\ LET tmp  == IF x.rank = 2 THEN 1 ELSE x.b
         nNew == nsamples + tmp
     IN /\ nsamples' = nNew
        /\ H' = RAdd(RMul(H, nsamples, nNew), Rat(2 * x.sq, nNew))
  /\ calls' = calls + 1
  /\ rows' = rows + x.b * x.s
  /\ sumsq' = sumsq + x.sq
  /\ UNCHANGED hstate

(* fasterquant reads H once and deletes the attribute (lines 629-630); a *)
(* second call raises AttributeError, so it is enabled only while H is   *)
(* held.                                                                  *)
Fasterquant ==
  /\ hstate = "held"
  /\ hstate' = "deleted"
  /\ UNCHANGED <<H, nsamples, calls, rows, sumsq>>

(* free (lines 717-724) sets self.H = None; calling it again is harmless. *)
Free ==
  /\ hstate' = "none"
  /\ UNCHANGED <<H, nsamples, calls, rows, sumsq>>

Next == (\E x \in Inputs : AddBatch(x)) \/ Fasterquant \/ Free

Spec == Init /\ [][Next]_vars

-----------------------------------------------------------------------------
TypeOK ==
  /\ hstate \in {"held", "deleted", "none"}
  /\ H.num \in Nat /\ H.den \in Nat \ {0}
  /\ nsamples \in Nat /\ calls \in 0 .. MaxBatches
  /\ rows \in Nat /\ sumsq \in Nat

Held == hstate = "held"

(* The rescale-then-add of add_batch keeps H the running mean of 2 x x^T  *)
(* over the nsamples counted so far, whatever the batch sizes: H equals   *)
(* 2 * sumsq / nsamples (and 0 before any batch).  This needs the rescale *)
(* to use the old count and the new term the incremented one.  nsamples   *)
(* counts sequences (tmp = inp.shape[0] before the reshape), not the rows *)
(* of spec 3, so H differs from 2 X^T X / rows by a factor that is the    *)
(* same for every entry, which fasterquant's relative damping ignores.    *)
HessianRunningMean ==
  Held => IF nsamples = 0 THEN H.num = 0 ELSE REq(H, Rat(2 * sumsq, nsamples))
=============================================================================
