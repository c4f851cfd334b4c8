--------------------------- MODULE GPTQDataSelection ---------------------------
(***************************************************************************)
(* GPTQuantizer.prepare_dataloader (gptq/gptq.py): the calibration set    *)
(* self.dataloader is selected from the user's dataloader by              *)
(* obtain_first_n_samples_fulllength (use_max_length, the default) or     *)
(* obtain_first_n_samples.  A batch is abstracted to whether it is a dict *)
(* (with or without "input_ids") and its sequence length; list, tuple and *)
(* tensor batches differ only in which tensors are sliced.  A selected    *)
(* sample is the window [lo, hi) of tokens of batch src it keeps.          *)
(* random.randint over the seeded generator is a choice among the values  *)
(* it can return.                                                          *)
(***************************************************************************)
EXTENDS Integers, Sequences, FiniteSets, SequencesExt

CONSTANTS
  Loaders,     \* possible user dataloaders: sequences of [dict, ids, len]
  NSamples,    \* possible nsamples
  PadMaxLength \* pad_max_length

ASSUME PadMaxLength \in Nat \ {0}
ASSUME \A d \in Loaders : \A n \in DOMAIN d :
         d[n].dict \in BOOLEAN /\ d[n].ids \in BOOLEAN /\ d[n].len \in Nat \ {0}

VARIABLES
  useMaxLength, \* use_max_length
  nsamples,     \* self.nsamples
  original,     \* self.dataloader_original
  k,            \* index of the next batch of the for loop
  dataloader,   \* self.dataloader: selected samples [src, lo, hi]
  done          \* the loop has ended

vars == <<useMaxLength, nsamples, original, k, dataloader, done>>

\* Mutant: the window names the batch index after the loop's increment.
WindowNextIndex(n, lo) == [src |-> n + 1, lo |-> lo, hi |-> lo + PadMaxLength]
Window(n, lo) == [src |-> n, lo |-> lo, hi |-> lo + PadMaxLength]
Whole(n) == [src |-> n, lo |-> 0, hi |-> original[n].len]

\* A dict without "input_ids" is skipped with a warning (lines 133-140 and 197-203).
NoIds(b) == b.dict /\ ~b.ids

Init ==
  /\ useMaxLength \in BOOLEAN
  /\ nsamples \in NSamples
  /\ original \in Loaders
  /\ k = 1
  /\ dataloader = <<>>   \* self.dataloader.clear()
  /\ done = FALSE

(* obtain_first_n_samples, lines 109-168, one iteration: stop once       *)
(* nsamples are collected; crop a longer batch to a random window of     *)
(* pad_max_length tokens, keep a shorter one whole.                      *)
SelectAny ==
  /\ ~done /\ ~useMaxLength
  /\ k <= Len(original)
  /\ LET b == original[k] IN
     IF Len(dataloader) = nsamples THEN done' = TRUE /\ UNCHANGED <<k, dataloader>>
     ELSE /\ k' = k + 1
          /\ UNCHANGED done
          /\ IF NoIds(b) THEN UNCHANGED dataloader
             ELSE IF b.len > PadMaxLength
               THEN \E i \in 0 .. b.len - PadMaxLength - 1 :
                      dataloader' = Append(dataloader, Window(k, i))
             ELSE dataloader' = Append(dataloader, Whole(k))
  /\ UNCHANGED <<useMaxLength, nsamples, original>>

\* Mutant: only batches longer than pad_max_length are taken.
SelectFullLengthStrict ==
  /\ ~done /\ useMaxLength
  /\ k <= Len(original)
  /\ LET b == original[k] IN
     IF Len(dataloader) = nsamples THEN done' = TRUE /\ UNCHANGED <<k, dataloader>>
     ELSE /\ k' = k + 1
          /\ UNCHANGED done
          /\ IF NoIds(b) \/ b.len <= PadMaxLength THEN UNCHANGED dataloader
             ELSE \E i \in 0 .. b.len - PadMaxLength - 1 :
                    dataloader' = Append(dataloader, Window(k, i))
  /\ UNCHANGED <<useMaxLength, nsamples, original>>

(* obtain_first_n_samples_fulllength, lines 170-238, one iteration: a    *)
(* batch of exactly pad_max_length tokens is taken whole, a longer one    *)
(* cropped to a random window, a shorter one skipped.                     *)
SelectFullLength ==
  /\ ~done /\ useMaxLength
  /\ k <= Len(original)
  /\ LET b == original[k] IN
     IF Len(dataloader) = nsamples THEN done' = TRUE /\ UNCHANGED <<k, dataloader>>
     ELSE /\ k' = k + 1
          /\ UNCHANGED done
          /\ IF NoIds(b) \/ b.len < PadMaxLength THEN UNCHANGED dataloader
             ELSE IF b.len = PadMaxLength THEN dataloader' = Append(dataloader, Whole(k))
             ELSE \E i \in 0 .. b.len - PadMaxLength - 1 :
                    dataloader' = Append(dataloader, Window(k, i))
  /\ UNCHANGED <<useMaxLength, nsamples, original>>

(* The loop runs out of batches; a shortfall is only logged (lines       *)
(* 164-168 and 233-238).                                                   *)
Exhausted ==
  /\ ~done
  /\ k > Len(original)
  /\ done' = TRUE
  /\ UNCHANGED <<useMaxLength, nsamples, original, k, dataloader>>

Next == SelectAny \/ SelectFullLength \/ Exhausted

Spec == Init /\ [][Next]_vars

-----------------------------------------------------------------------------
TypeOK ==
  /\ k \in 1 .. Len(original) + 1 /\ done \in BOOLEAN
  /\ \A n \in DOMAIN dataloader : dataloader[n] \in [src : DOMAIN original, lo : Nat, hi : Nat]

\* The batches the chosen selection accepts, in loader order.
Eligible ==
  SelectSeq([n \in 1 .. Len(original) |-> n],
            LAMBDA n : ~NoIds(original[n]) /\ (useMaxLength => original[n].len >= PadMaxLength))

(* "Get first nsample data": once the loop ends, the calibration set is   *)
(* the first min(nsamples, #eligible) eligible batches in order, each a   *)
(* window inside its batch of exactly pad_max_length tokens under         *)
(* use_max_length, else of at most pad_max_length tokens, cut only when   *)
(* the batch is longer.                                                    *)
FirstNSamples ==
  done =>
    /\ [n \in DOMAIN dataloader |-> dataloader[n].src]
         = SubSeq(Eligible, 1, IF nsamples < Len(Eligible) THEN nsamples ELSE Len(Eligible))
    /\ \A n \in DOMAIN dataloader :
         LET s == dataloader[n]
             L == original[s.src].len
         IN /\ 0 <= s.lo /\ s.hi <= L
            /\ s.hi - s.lo = IF L > PadMaxLength THEN PadMaxLength ELSE L
=============================================================================
