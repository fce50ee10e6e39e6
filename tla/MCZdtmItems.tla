---------------------------- MODULE MCZdtmItems -----------------------------
(***************************************************************************)
(* ZdtmItems for TLC.                                                      *)
(***************************************************************************)
EXTENDS ZdtmItems

\* An abbreviation nobody compares with, and a known one under another type.
Strangers == {[type |-> "UTF8", abrev |-> "ALRM"], [type |-> "UTF8", abrev |-> "MARK"]}
=============================================================================
