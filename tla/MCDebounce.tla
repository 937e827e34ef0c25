----------------------------- MODULE MCDebounce -----------------------------
(***************************************************************************)
(* Calls under one jobId with two delays or none.                          *)
(***************************************************************************)
EXTENDS Debounce

CONSTANT digest      \* a jobId

MCRequests == [id : {digest}, delay : {0, 1, 2}]
=============================================================================
