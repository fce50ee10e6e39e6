------------------------------- MODULE Zaurus -------------------------------
(***************************************************************************)
(* The Zaurus at the other end of the connection.  Its program is not part *)
(* of the repository: this module is the peer the library is written for,  *)
(* reconstructed from what the library sends, waits for and accepts, and   *)
(* from the message headers.  It acknowledges every general message, sends *)
(* one only when asked with RQST, and asks for the next request when its   *)
(* reply has been acknowledged.  For the requests in OddOn it may instead  *)
(* send ABRT, or a reply that does not belong there, in place of the ACK,  *)
(* the reply or the RQST that is due.                                      *)
(***************************************************************************)
EXTENDS ZdtmChannel

CONSTANTS
    OddOn,          \* requests it may answer out of turn
    UserMayLock     \* TRUE: the user may set or remove the device passcode

ASSUME ZaurusAssumption == OddOn \subseteq RequestTypes /\ UserMayLock \in BOOLEAN

VARIABLES
    zpc,        \* where it stands in the conversation
    zreq,       \* the request it is dealing with
    zaurus,     \* what it keeps across sessions
    ses         \* what it keeps during one session

zVars == <<zpc, zreq, zaurus, ses>>

\* Its turn to send, its turn to listen.
ZSendPcs == {"ack_send", "rep_send", "ang_send", "rqst_send"}
ZWaitPcs == {"req_wait", "rep_wait", "ang_wait", "ack_wait"}

ZStore == [locked: BOOLEAN,          \* a passcode is set
           slow: SUBSET SyncTypes,   \* never synchronised since the last state clearing
           anchored: BOOLEAN]        \* a last sync time is set

\* authed: the passcode was given.  wants: the type the RMG named, named: the
\* type the last typed request named, and reported: the types the AMG named.  served: the requests answered with what
\* was asked for.
ZSession == [authed: BOOLEAN, wants: AnySyncType, named: AnySyncType,
             reported: SUBSET SyncTypes, served: SUBSET RequestTypes]

NewSession == [authed |-> FALSE, wants |-> "unset", named |-> "unset",
               reported |-> {}, served |-> {}]

ZTypeOK ==
    /\ zpc \in {"off"} \cup ZSendPcs \cup ZWaitPcs
    /\ zreq \in Message
    /\ zaurus \in ZStore
    /\ ses \in ZSession

ZInit ==
    /\ zpc = "off" /\ zreq = NoMsg /\ ses = NewSession
    /\ zaurus \in [locked: {FALSE, UserMayLock}, slow: SUBSET SyncTypes,
                   anchored: BOOLEAN]
-----------------------------------------------------------------------------
\* A session needs the passcode for everything but these.
OpenRequests == {"RAY", "RIG", "RRL", "RQT"}

MustGiveUp(m) ==
    \/ m.type = "RRL" /\ zaurus.locked /\ ~m.flag
    \/ m.type = "RMS" /\ ~m.flag
    \/ m.type \notin OpenRequests /\ zaurus.locked /\ ~ses.authed

\* The replies it may give.  Whether a session that gave the passcode is still
\* reported as needing one is left open.
Replies(m) ==
    LET type == ReplyTo[m.type]
    IN  CASE type = "AIG" ->
               {Msg(type, "unset", {}, b) :
                   b \in IF ~zaurus.locked THEN {FALSE}
                         ELSE IF ses.authed THEN BOOLEAN ELSE {TRUE}}
          [] type = "AMG" -> {Msg(type, "unset", zaurus.slow, FALSE)}
          [] type = "ATG" -> {Msg(type, "unset", {}, ~zaurus.anchored)}
          [] OTHER        -> {Plain(type)}

Served(m) ==
    /\ ses' = [ses EXCEPT !.served = @ \cup {m.type},
                          !.authed = @ \/ m.type = "RRL",
                          !.wants = IF m.type = "RMG" THEN m.sync ELSE @,
                          !.named = IF m.type \in TypedRequests THEN m.sync ELSE @,
                          !.reported = IF m.type = "RMG" THEN zaurus.slow ELSE @]
    /\ zaurus' = [zaurus EXCEPT
                    !.anchored = @ \/ m.type = "RTS",
                    !.slow = IF m.type = "RDS" THEN @ \ {m.sync} ELSE @]

ZGoto(p) == zpc' = p /\ UNCHANGED <<zreq, zaurus, ses>>

\* The end of a session, by its own decision or because the connection broke.
ZHangUp == zpc' = "off" /\ zreq' = NoMsg /\ UNCHANGED <<zaurus, ses>>

ZRecvRequest ==
    /\ zpc = "req_wait" /\ zreq.type # "RQT"
    /\ RecvFromDesktop
    /\ Head(toZ).type \in RequestTypes
    /\ zreq' = Head(toZ) /\ zpc' = "ack_send"
    /\ UNCHANGED <<zaurus, ses>>

\* The RAY after an answered RQT ends the session, and it hangs up.
ZRecvBye ==
    /\ zpc = "req_wait" /\ zreq.type = "RQT"
    /\ conn = "up" /\ Arrived(toZ, "RAY")
    /\ conn' = "lost" /\ toZ' = Tail(toZ) /\ UNCHANGED toD
    /\ ZHangUp

ZSendAck ==
    zpc = "ack_send" /\ SendToDesktop(Plain("ACK")) /\ ZGoto("rep_wait")

ZRecvRqst ==
    /\ Arrived(toZ, "RQST") /\ RecvFromDesktop
    /\ \/ zpc = "rep_wait" /\ ZGoto("rep_send")
       \/ zpc = "ang_wait" /\ ZGoto("ang_send")

ZReply ==
    /\ zpc = "rep_send" /\ ~MustGiveUp(zreq)
    /\ \E m \in Replies(zreq) : SendToDesktop(m)
    /\ zpc' = "ack_wait" /\ UNCHANGED zreq
    /\ Served(zreq)

ZAbort ==
    /\ zpc = "rep_send" /\ MustGiveUp(zreq)
    /\ SendToDesktop(Plain("ABRT")) /\ ZGoto("ang_wait")

ZSendAng ==
    zpc = "ang_send" /\ SendToDesktop(Plain("ANG")) /\ ZGoto("ack_wait")

ZRecvAck ==
    /\ zpc = "ack_wait"
    /\ Arrived(toZ, "ACK") /\ RecvFromDesktop /\ ZGoto("rqst_send")

ZSendRqst ==
    zpc = "rqst_send" /\ SendToDesktop(Plain("RQST")) /\ ZGoto("req_wait")

\* In place of ACK and RQST any reply, also the one to the present request or
\* to the one before; in place of the reply, one of another type.
Misplaced == {t \in ReplyTypes : zpc = "rep_send" => t # ReplyTo[zreq.type]}

ZOdd ==
    /\ zpc \in {"ack_send", "rep_send", "rqst_send"}
    /\ zreq.type \in OddOn
    /\ \/ SendToDesktop(Plain("ABRT")) /\ ZGoto("ang_wait")
       \/ /\ \E t \in Misplaced : SendToDesktop(Plain(t))
          /\ ZGoto("ack_wait")

Device ==
    \/ ZRecvRequest \/ ZRecvBye \/ ZSendAck \/ ZRecvRqst \/ ZReply
    \/ ZAbort \/ ZSendAng \/ ZRecvAck \/ ZSendRqst \/ ZOdd
-----------------------------------------------------------------------------
\* Between sessions the user sets or removes the passcode, or clears the
\* synchronisation state, so that everything needs a slow sync.
UserLocks ==
    /\ UserMayLock /\ zpc = "off"
    /\ zaurus' = [zaurus EXCEPT !.locked = ~@]
    /\ UNCHANGED <<zpc, zreq, ses>>

UserClearsState ==
    /\ zpc = "off"
    /\ zaurus' = [zaurus EXCEPT !.slow = SyncTypes, !.anchored = FALSE]
    /\ UNCHANGED <<zpc, zreq, ses>>

\* A connection from the desktop starts a session.
ZAccept ==
    /\ zpc' = "req_wait" /\ zreq' = NoMsg /\ ses' = NewSession
    /\ UNCHANGED zaurus
=============================================================================
