----------------------------- MODULE ResearchStore -----------------------------
(***************************************************************************)
(* What a research store promises whoever inserts into it: a record that   *)
(* an insert answered for, inserted or skipped, is in the store or has its *)
(* like there, and nothing that is stored is lost.  The store may hold     *)
(* more: an insert that fails can leave some of its records behind.        *)
(***************************************************************************)
CONSTANT Like(_, _)  \* Like(r, s): with s stored, r counts as stored

VARIABLES stored,    \* the records in the store
          answered   \* the records of inserts that returned

storeVars == <<stored, answered>>

Covered(r) == \E s \in stored : Like(r, s)

StoreInit == stored = {} /\ answered = {}

Put == stored \subseteq stored' /\ UNCHANGED answered

Answer ==
  /\ answered \subseteq answered'
  /\ \A r \in answered' \ answered : Covered(r)
  /\ UNCHANGED stored

StoreNext == Put \/ Answer

StoreSpec == StoreInit /\ [][StoreNext]_storeVars
=============================================================================
