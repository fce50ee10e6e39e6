----------------------------- MODULE MCZdtmHeap -----------------------------
(***************************************************************************)
(* ZdtmHeap for TLC.                                                       *)
(***************************************************************************)
EXTENDS ZdtmHeap
=============================================================================
