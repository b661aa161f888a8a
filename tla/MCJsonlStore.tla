------------------------------ MODULE MCJsonlStore ------------------------------
(***************************************************************************)
(* A JSONL table for TLC.  A second process stands for the capture command *)
(* beside the gateway, or for the gateway started anew.  Three records let *)
(* one be there before a failed append and one come after it.              *)
(***************************************************************************)
EXTENDS JsonlStore, TLC

\* Processes are alike, and so are records.
JsonlSymmetry == Permutations(Processes) \cup Permutations(Records)
=============================================================================
