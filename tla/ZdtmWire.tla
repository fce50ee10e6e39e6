------------------------------ MODULE ZdtmWire ------------------------------
(***************************************************************************)
(* How long a message is on connfd: seven bytes for a common message; for  *)
(* a general one the header, the body size, the body and the checksum.  A  *)
(* byte is the pair of its message's number and its place in the message,  *)
(* so that a lost, repeated or misplaced byte shows.                       *)
(***************************************************************************)
EXTENDS Integers, Sequences, ZdtmMessages

CONSTANTS
    BodySize,       \* body_size of the general messages, by type
    COM_MSG_SIZE, MSG_HDR_SIZE, MSG_TYPE_SIZE

BODY_SIZE_MAX == 65535  \* body_size is a uint16_t

ASSUME WireAssumption ==
    /\ MSG_TYPE_SIZE \in Nat \ {0}
    /\ MSG_HDR_SIZE \in Nat
    /\ COM_MSG_SIZE \in 1..MSG_HDR_SIZE
    /\ BodySize \in [MsgTypes -> MSG_TYPE_SIZE..BODY_SIZE_MAX]

SIZE_FIELD == 2     \* sizeof(uint16_t), for the body size and the checksum

WireSize(m) ==
    IF IsCommon(m) THEN COM_MSG_SIZE
    ELSE MSG_HDR_SIZE + SIZE_FIELD + BodySize[m.type] + SIZE_FIELD

WireBytes(k, m) == [i \in 1..WireSize(m) |-> <<k, i>>]
=============================================================================
