---------------------------- MODULE MCRealtimeCard ----------------------------
(***************************************************************************)
(* A card on one request for TLC.  An inbox of two holds an event overtaken *)
(* by a newer one, and the two events a failed start writes at once.       *)
(***************************************************************************)
EXTENDS RealtimeCard
=============================================================================
