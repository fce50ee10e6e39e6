--------------------------- MODULE MCZdtmReceive ----------------------------
(***************************************************************************)
(* ZdtmReceive for TLC: what the Zaurus writes in a few moments of a       *)
(* session.                                                                *)
(***************************************************************************)
EXTENDS ZdtmReceive

\* The smallest and the second smallest body.
Bodies == [t \in MsgTypes |-> MSG_TYPE_SIZE + (IF t = "AEX" THEN 0 ELSE 1)]

\* A request that is refused: ABRT, then the reason, then the next turn.
Refusal == <<Plain("ABRT"), Plain("ANG"), Plain("RQST")>>

\* A request that is granted.
Grant == <<Plain("ACK"), Plain("AEX"), Plain("RQST")>>
=============================================================================
