--------------------------- MODULE MCRealtimeStream ---------------------------
(***************************************************************************)
(* One realtime request for TLC.  Two socket identities are enough to see  *)
(* a second socket beside the first, since a closed one is reused.         *)
(***************************************************************************)
EXTENDS RealtimeStream
=============================================================================
