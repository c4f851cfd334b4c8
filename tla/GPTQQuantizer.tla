---------------------------- MODULE GPTQQuantizer ----------------------------
(***************************************************************************)
(* class Quantizer (gptq/gptq.py) as fasterquant uses it: configured once *)
(* after construction, then find_params(x, weight=True) on a weight slice *)
(* any number of times.  Weights are small integers; scale is an exact    *)
(* rational [num, den] and zero an integer.  torch.round rounds half to   *)
(* even.  The MSE grid search is kept whole, with a small grid, and its   *)
(* loss exponent norm is an integer constant (the code's default is 2.4). *)
(***************************************************************************)
EXTENDS Integers, Sequences, FiniteSets, SequencesExt

CONSTANTS
  Configs,   \* set of [bits, perchannel, sym, mse] passed to configure
  Weights,   \* set of weight slices: sequences of rows, each a sequence of Int
  Grid,      \* configure(grid=...)
  MaxShrink, \* configure(maxshrink=...) as a rational [num, den]
  Norm       \* configure(norm=...), an integer here

ASSUME \A c \in Configs : c.bits \in Nat \ {0} /\ c.perchannel \in BOOLEAN
                          /\ c.sym \in BOOLEAN /\ c.mse \in BOOLEAN
ASSUME Grid \in Nat \ {0} /\ Norm \in Nat \ {0}

VARIABLES
  maxq, perchannel, sym, mse, \* set by configure
  scale,  \* self.scale: row -> [num, den]
  zero,   \* self.zero: row -> Int
  fitted  \* history: the weight slice of the last find_params (<<>> before)

vars == <<maxq, perchannel, sym, mse, scale, zero, fitted>>

Rat(n, d) == [num |-> n, den |-> d]
RLess(x, y) == x.num * y.den < y.num * x.den
RLeq(x, y) == x.num * y.den <= y.num * x.den

Abs(v) == IF v < 0 THEN -v ELSE v
Clamp(v, lo, hi) == IF v < lo THEN lo ELSE IF v > hi THEN hi ELSE v
Power(b, e) == LET P[k \in 0 .. e] == IF k = 0 THEN 1 ELSE b * P[k - 1] IN P[e]

\* torch.round(n / d) for d > 0: round half to even.
RoundHE(n, d) ==
  LET q == n \div d
      r == n - q * d
  IN IF 2 * r < d THEN q ELSE IF 2 * r > d THEN q + 1
     ELSE IF q % 2 = 0 THEN q ELSE q + 1

\* model_utils.quantize (spec 4.1): clamp(round(x / scale) + zero, 0, maxq),
\* returned dequantized as scale * (q - zero).
QLevel(x, sc, z) == Clamp(RoundHE(x * sc.den, sc.num) + z, 0, maxq)
Quantize(x, sc, z) == Rat(sc.num * (QLevel(x, sc, z) - z), sc.den)

\* Lines 805-809: sum over the group of |x - quantize(x)|^norm, as a rational.
Err(vals, sc, z) ==
  LET term(x) == Power(Abs(x * sc.den - sc.num * (QLevel(x, sc, z) - z)), Norm)
  IN Rat(FoldLeft(LAMBDA acc, x : acc + term(x), 0, vals), Power(sc.den, Norm))

\* Lines 759-772 (weight=True): one group per output row, or the whole
\* tensor flattened into one group.
Groups(x) == IF perchannel THEN x ELSE <<FlattenSeq(x)>>

\* Lines 774-785: the range [xmin, xmax] of a group.
MinMax(vals) ==
  LET lo0 == Min({0} \cup ToSet(vals))
      hi0 == Max({0} \cup ToSet(vals))
      hi1 == IF sym THEN Max({Abs(lo0), hi0}) ELSE hi0
      lo1 == IF sym /\ lo0 < 0 THEN -hi1 ELSE lo0
  IN IF lo1 = 0 /\ hi1 = 0 THEN [lo |-> -1, hi |-> 1] ELSE [lo |-> lo1, hi |-> hi1]

\* Mutant: zero = round(xmin / scale), the minus sign dropped.
ParamsZeroSign(rg, i) ==
  [scale |-> Rat((Grid - i) * (rg.hi - rg.lo), Grid * maxq),
   zero  |-> IF sym THEN (maxq + 1) \div 2 ELSE RoundHE(rg.lo * maxq, rg.hi - rg.lo)]

\* Mutant: the range divided into maxq + 1 steps instead of maxq.
ParamsStepsOffByOne(rg, i) ==
  [scale |-> Rat((Grid - i) * (rg.hi - rg.lo), Grid * (maxq + 1)),
   zero  |-> IF sym THEN (maxq + 1) \div 2 ELSE RoundHE(-rg.lo * (maxq + 1), rg.hi - rg.lo)]

\* Lines 791-795 for the range shrunk by p = (Grid - i) / Grid (i = 0: no
\* shrink).  round(-xmin1 / scale1) does not depend on p.
Params(rg, i) ==
  [scale |-> Rat((Grid - i) * (rg.hi - rg.lo), Grid * maxq),
   zero  |-> IF sym THEN (maxq + 1) \div 2 ELSE RoundHE(-rg.lo * maxq, rg.hi - rg.lo)]

Iters == (MaxShrink.num * Grid) \div MaxShrink.den   \* int(maxshrink * grid)

\* Mutant: the grid starts at i = 1, so p = 1 is never tried.
MseSearchFrom1(vals, rg) ==
  LET RECURSIVE Best(_, _)
      Best(k, b) ==
        IF k >= Iters THEN b
        ELSE LET c == Params(rg, k)
                 e == Err(vals, c.scale, c.zero)
             IN Best(k + 1, IF ~b.found \/ RLess(e, b.err)
                              THEN [scale |-> c.scale, zero |-> c.zero, err |-> e, found |-> TRUE]
                              ELSE b)
  IN Best(1, [scale |-> Params(rg, 0).scale, zero |-> Params(rg, 0).zero,
              err |-> Rat(0, 1), found |-> FALSE])

\* Lines 797-814: keep the candidate with strictly smaller loss.
MseSearch(vals, rg) ==
  LET RECURSIVE Best(_, _)
      Best(k, b) ==
        IF k >= Iters THEN b
        ELSE LET c == Params(rg, k)
                 e == Err(vals, c.scale, c.zero)
             IN Best(k + 1, IF ~b.found \/ RLess(e, b.err)
                              THEN [scale |-> c.scale, zero |-> c.zero, err |-> e, found |-> TRUE]
                              ELSE b)
  IN Best(0, [scale |-> Params(rg, 0).scale, zero |-> Params(rg, 0).zero,
              err |-> Rat(0, 1), found |-> FALSE])

\* find_params on one group.
GroupParams(vals) ==
  LET rg == MinMax(vals)
  IN IF mse THEN LET b == MseSearch(vals, rg) IN [scale |-> b.scale, zero |-> b.zero]
     ELSE Params(rg, 0)

Init ==
  /\ \E c \in Configs : /\ maxq = Power(2, c.bits) - 1
                        /\ perchannel = c.perchannel
                        /\ sym = c.sym
                        /\ mse = c.mse
  /\ scale = [r \in {1} |-> Rat(0, 1)]   \* register_buffer("scale", zeros(1))
  /\ zero = [r \in {1} |-> 0]
  /\ fitted = <<>>

(* find_params(x, weight=True), lines 755-827: parameters per group, and   *)
(* without perchannel the single group's parameters repeated per row.     *)
FindParams(x) ==
  LET g   == Groups(x)
      gp  == [k \in DOMAIN g |-> GroupParams(g[k])]
      row == [r \in DOMAIN x |-> IF perchannel THEN gp[r] ELSE gp[1]]
  IN /\ scale' = [r \in DOMAIN x |-> row[r].scale]
     /\ zero' = [r \in DOMAIN x |-> row[r].zero]
     /\ fitted' = x
     /\ UNCHANGED <<maxq, perchannel, sym, mse>>

Next == \E x \in Weights : FindParams(x)

Spec == Init /\ [][Next]_vars

\* ready(), line 838-839.
Ready == \A r \in DOMAIN scale : scale[r].num # 0

-----------------------------------------------------------------------------
TypeOK ==
  /\ maxq \in Nat \ {0}
  /\ \A r \in DOMAIN scale : scale[r].num \in Nat /\ scale[r].den \in Nat \ {0}
  /\ zero \in [DOMAIN scale -> 0 .. maxq + 1]

\* The weights of row r that its (scale, zero) was fitted on.
RowVals(r) == IF perchannel THEN fitted[r] ELSE FlattenSeq(fitted)

(* Spec 4.1 and 8: after find_params without the MSE search the           *)
(* quantizer is ready (no zero scale, even for an all-zero slice), and    *)
(* every weight it was fitted on dequantizes to within half a step:       *)
(* |dequantize(quantize(x)) - x| <= scale / 2.  This needs the range to   *)
(* contain zero, the zero point to be rounded and clamping at both ends   *)
(* to cost at most that half step.                                        *)
RoundTripBound ==
  fitted # <<>> /\ ~mse =>
    /\ Ready
    /\ \A r \in DOMAIN fitted : \A k \in 1 .. Len(RowVals(r)) :
         LET x  == RowVals(r)[k]
             sc == scale[r]
             dq == Quantize(x, sc, zero[r])
         IN 2 * Abs(x * sc.den - dq.num) <= sc.num

(* With mse the grid search returns parameters whose loss on the fitted   *)
(* weights is no larger than the plain min/max parameters' (p = 1 is the  *)
(* first candidate), and the quantizer is still ready.                    *)
MseNoWorse ==
  fitted # <<>> /\ mse =>
    /\ Ready
    /\ \A r \in DOMAIN fitted :
         LET base == Params(MinMax(RowVals(r)), 0)
         IN RLeq(Err(RowVals(r), scale[r], zero[r]), Err(RowVals(r), base.scale, base.zero))
=============================================================================
