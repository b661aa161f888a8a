---------------------------- MODULE MCCaptureRuns ----------------------------
(***************************************************************************)
(* Capture requests for TLC: how many parts each job has.  Two parts let a *)
(* job fail after it stored something; one part is enough for the jobs     *)
(* that insert a single batch.                                             *)
(***************************************************************************)
EXTENDS CaptureRuns, TLC

OneOrTwoParts ==
  [job \in JobNames |-> IF job \in Continues \cup {"binance-candles"} THEN 2 ELSE 1]
OnePart == [job \in JobNames |-> 1]

\* Requests are alike, and no safety property names one.
RequestSymmetry == Permutations(Requests)
=============================================================================
