----------------------------- MODULE MCZdtmEnv ------------------------------
(***************************************************************************)
(* ZdtmEnv for TLC.                                                        *)
(***************************************************************************)
EXTENDS ZdtmEnv

\* Every failure but that of an accept, which would end its wait.
Noticed == AnyFailure \ {"accept"}
=============================================================================
