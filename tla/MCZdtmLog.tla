----------------------------- MODULE MCZdtmLog ------------------------------
(***************************************************************************)
(* ZdtmLog for TLC: contents of up to three lines and a bit, and some that *)
(* need a wider offset.                                                    *)
(***************************************************************************)
EXTENDS ZdtmLog

SmallAndWide == 0..46 \cup {1004, 1006}
=============================================================================
