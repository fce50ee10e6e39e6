---------------------------- MODULE SyncService -----------------------------
(***************************************************************************)
(* What a synchronisation is to the device: an order in which its services *)
(* are used.  Nothing here speaks of messages, acknowledgements, failures  *)
(* or return codes.  A session can end after any service, and the next one *)
(* starts from nothing.                                                    *)
(*                                                                         *)
(* The order that protects the user's data is the one around a slow sync:  *)
(* when the device asked for one, its log is reset before the sync anchor  *)
(* is moved, its items are marked as new after that, and only then is the  *)
(* item format, and with it any item, asked for.  All of it happens for    *)
(* one sync type, after the passcode.                                      *)
(***************************************************************************)
EXTENDS ZdtmMessages

VARIABLES
    open,       \* a session is in progress
    locked,     \* the device wants a passcode
    served,     \* the services used in this session
    wants,      \* the sync type of the session
    named,      \* the sync type of the last service that has one
    slow        \* the sync types that need a slow sync

vars == <<open, locked, served, wants, named, slow>>

Init ==
    /\ open = FALSE /\ locked \in BOOLEAN
    /\ served = {} /\ wants = "unset" /\ named = "unset" /\ slow = {}

SlowSync == wants \in slow

ItemRequests == {"RSY", "RDR", "RDD", "RDS"}

\* What must have been served before r.
Due(r) ==
    CASE r \in {"RAY", "RQT"} -> {}
      [] r \in {"RIG", "RRL"} -> {"RAY"}
      [] r = "RMG" -> {"RIG"} \cup (IF locked THEN {"RRL"} ELSE {})
      [] r = "RTG" -> {"RMG"}
      [] r = "RMS" -> {"RTG"}
      [] r = "RTS" -> {"RTG"} \cup (IF SlowSync THEN {"RMS"} ELSE {})
      [] r = "RSS" -> {"RMS", "RTS"}
      [] r = "RDI" -> {"RTS"} \cup (IF SlowSync THEN {"RSS"} ELSE {})
      [] r \in ItemRequests -> {"RDI"}

Open ==
    /\ open' = TRUE
    /\ served' = {} /\ wants' = "unset" /\ named' = "unset" /\ slow' = {}
    /\ UNCHANGED locked

Close == open' = FALSE /\ UNCHANGED <<locked, served, wants, named, slow>>

Relock ==
    /\ ~open /\ locked' = ~locked
    /\ UNCHANGED <<open, served, wants, named, slow>>

\* Service r, for sync type t where the service has one: the first, the RMG,
\* chooses the type of the session.
Serve(r, t) ==
    /\ open
    /\ "RQT" \notin served
    /\ Due(r) \subseteq served
    /\ served' = served \cup {r}
    /\ IF r = "RMG" THEN wants' = t /\ slow' \in SUBSET SyncTypes
                    ELSE UNCHANGED <<wants, slow>>
    /\ IF r \in TypedRequests THEN named' = t /\ t = wants'
                               ELSE UNCHANGED named
    /\ UNCHANGED <<open, locked>>

Next ==
    \/ Open \/ Close \/ Relock
    \/ \E r \in RequestTypes, t \in AnySyncType : Serve(r, t)

Spec == Init /\ [][Next]_vars
=============================================================================
