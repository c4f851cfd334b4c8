--------------------------- MODULE MC_GPTQHessian ---------------------------
(* Calibration batches as the forward hook hands them to add_batch: a     *)
(* Linear input of shape [s, 1] or [b, s, 1] with b, s in 1..2, and a sum *)
(* of squares of 0, 1 or 3.  Three calls let batches of different sizes   *)
(* follow each other.                                                     *)
EXTENDS GPTQHessian

MCInputs ==
  {x \in [rank : {2, 3}, b : 1 .. 2, s : 1 .. 2, sq : {0, 1, 3}] :
     x.rank = 2 => x.b = 1}
=============================================================================
