----------------------------- MODULE MCZdtmSend -----------------------------
(***************************************************************************)
(* ZdtmSend for TLC: what the library writes in a moment of a session.     *)
(***************************************************************************)
EXTENDS ZdtmSend

\* Messages without content.
Bodies == [t \in MsgTypes |-> MSG_TYPE_SIZE]

\* The Zaurus's RAY is acknowledged, its RQST answered with RIG, its reply
\* asked for.
Opening == <<Plain("ACK"), Plain("RIG"), Plain("RQST")>>
=============================================================================
