---------------------------- MODULE ZdtmMessages ----------------------------
(***************************************************************************)
(* The messages of the Zaurus DTM protocol as the library sees them: three *)
(* seven-byte common messages (ACK, RQST, ABRT) and the general messages,  *)
(* named by their three-letter type.  The content of a general message is  *)
(* kept only as far as the control flow of the two ends depends on it.     *)
(***************************************************************************)

CONSTANT SyncTypes      \* the sync types the program and the device know

ASSUME SyncTypesAssumption == SyncTypes \subseteq {"todo", "calendar", "address"}

\* cur_env->sync_type: 0x06, 0x01 and 0x07; "unset" is 0x00.
AnySyncType == SyncTypes \cup {"unset"}

CommonTypes == {"ACK", "RQST", "ABRT"}

RequestTypes == {"RAY", "RIG", "RRL", "RMG", "RTG", "RMS", "RTS", "RSS",
                 "RDI", "RSY", "RDR", "RDD", "RDS", "RQT"}

\* The requests with a sync_type byte.
TypedRequests == {"RMG", "RSS", "RDI", "RSY", "RDR", "RDD", "RDS"}

ReplyTypes == {"AAY", "AIG", "AMG", "ATG", "AEX", "ANG", "ADI", "ASY", "ADR"}

MsgTypes == CommonTypes \cup RequestTypes \cup ReplyTypes \cup {"none"}

(***************************************************************************)
(* One record for every message.                                           *)
(*   sync  the sync_type byte of the TypedRequests                         *)
(*   slow  in an AMG, the sync types whose bit of fullsync_flags is 0      *)
(*   flag  RMS: the log has its five bytes (log_size 5, not 0)             *)
(*         RRL: the passcode is the device's                               *)
(*         AIG: auth_state is 0x0b or 0x07 (a passcode is required)        *)
(*         ATG: the date is fourteen zeros (never synchronised)            *)
(***************************************************************************)
Message == [type: MsgTypes, sync: AnySyncType, slow: SUBSET SyncTypes,
            flag: BOOLEAN]

Msg(type, sync, slow, flag) ==
    [type |-> type, sync |-> sync, slow |-> slow, flag |-> flag]

Plain(type) == Msg(type, "unset", {}, FALSE)

NoMsg == Plain("none")

IsCommon(m) == m.type \in CommonTypes

(***************************************************************************)
(* The answer each request is meant to have: the type the protocol         *)
(* functions compare the reply with.                                       *)
(***************************************************************************)
ReplyTo == [RAY |-> "AAY", RIG |-> "AIG", RRL |-> "AEX", RMG |-> "AMG",
            RTG |-> "ATG", RMS |-> "AEX", RTS |-> "AEX", RSS |-> "AEX",
            RDI |-> "ADI", RSY |-> "ASY", RDR |-> "ADR", RDD |-> "AEX",
            RDS |-> "AEX", RQT |-> "AEX"]
=============================================================================
