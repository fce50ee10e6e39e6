---------------------------- MODULE ZdtmSession -----------------------------
(***************************************************************************)
(* A program using the library on one environment, the Zaurus, and the     *)
(* network between them: up to MaxSessions successful connections, of      *)
(* which the network breaks up to MaxDrops at any moment.                  *)
(***************************************************************************)
EXTENDS ZdtmDesktop, Zaurus

CONSTANTS
    MaxSessions,    \* bound on the successful _zdtm_connect calls
    MaxDrops        \* bound on the connections the network breaks

ASSUME BoundAssumption == MaxSessions \in Nat /\ MaxDrops \in Nat

VARIABLES sessions, drops

vars == <<deskVars, chanVars, zVars, sessions, drops>>

TypeOK ==
    /\ ChanTypeOK
    /\ DeskTypeOK
    /\ ZTypeOK
    /\ sessions \in 0..MaxSessions
    /\ drops \in 0..MaxDrops

Init ==
    /\ ChanInit /\ DeskInit /\ ZInit
    /\ sessions = 0 /\ drops = 0
-----------------------------------------------------------------------------
\* _zdtm_connect: the RAY on port 4244 makes the Zaurus connect to port 4245,
\* which starts a session whatever became of the one before.
StartSession ==
    /\ sessions < MaxSessions
    /\ Connect /\ ZAccept
    /\ sessions' = sessions + 1
    /\ UNCHANGED drops

\* With no usable connfd the Zaurus has nobody to talk to.
FailToConnect ==
    /\ ConnectFails
    /\ IF conn' = "up" THEN UNCHANGED zVars ELSE ZHangUp
    /\ UNCHANGED <<sessions, drops>>

\* The connection breaks.  What was sent to the Zaurus is gone; what was sent
\* to the desktop may have arrived.
Drop ==
    /\ conn = "up" /\ drops < MaxDrops
    /\ conn' = "lost" /\ toZ' = <<>>
    /\ \/ UNCHANGED toD
       \/ toD' = <<>>
    /\ ZHangUp
    /\ drops' = drops + 1
    /\ UNCHANGED <<deskVars, sessions>>

DesktopStep == (Program \/ Library) /\ UNCHANGED <<zVars, sessions, drops>>

LibraryStep == Library /\ UNCHANGED <<zVars, sessions, drops>>

DeviceStep == Device /\ UNCHANGED <<deskVars, sessions, drops>>

UserStep ==
    /\ UserLocks \/ UserClearsState
    /\ UNCHANGED <<deskVars, chanVars, sessions, drops>>

Next ==
    \/ StartSession \/ FailToConnect \/ Drop
    \/ DesktopStep \/ DeviceStep \/ UserStep

Spec == Init /\ [][Next]_vars

(***************************************************************************)
(* A call in progress is a thread that runs or sits in a blocking socket   *)
(* call that the kernel wakes when a message or the end of the connection  *)
(* arrives; the Zaurus takes its turns.  The program, the user and the     *)
(* network owe nothing.                                                    *)
(***************************************************************************)
FairSpec == Spec /\ WF_vars(LibraryStep) /\ WF_vars(DeviceStep)
-----------------------------------------------------------------------------
(***************************************************************************)
(* Safety.                                                                 *)
(***************************************************************************)
\* At most one message is in flight, in the two directions together: the two
\* ends alternate strictly, whatever is refused, lost or misread
\* (_zdtm_wrapped_send_message and _zdtm_wrapped_recv_message).
HalfDuplex == Len(toZ) + Len(toD) <= 1

\* What a Zaurus in control state zpc can make sense of.
Awaited(type) ==
    CASE zpc = "req_wait" -> IF zreq.type \in {"none", "RQT"}
                             THEN type = "RAY"
                             ELSE type \in RequestTypes \ {"RAY"}
      [] zpc \in {"rep_wait", "ang_wait"} -> type = "RQST"
      [] zpc = "ack_wait" -> type = "ACK"
      [] OTHER -> FALSE

\* The library never sends what the Zaurus is not waiting for, also after a
\* call that failed half way through an exchange was followed by another call.
DeviceNotSurprised == toZ # <<>> => Awaited(Head(toZ).type)

\* No item, list or notice is exchanged in a slow sync before the log was
\* reset, the anchor moved and the items marked as new for that sync type
\* (zdtm_initiate_sync, from the RMS to the RSS).
SlowSyncPrepared ==
    /\ zreq.type \in {"RSY", "RDR", "RDD", "RDS"}
    /\ zreq.sync \in ses.reported
    => {"RMS", "RTS", "RSS"} \subseteq ses.served

\* An item is parsed with the format of its own type, however often the
\* environment was used to connect and whatever types were set in between
\* (the params of _zdtm_obtain_param_format in zdtm_obtain_todo_item and its
\* siblings).
FormatOfItem == fn = "item" => env.params = env.type

\* A locked device sees nothing but the greeting, the device info, the
\* passcode and the goodbye until it has accepted the passcode
\* (zdtm_check_cur_auth_state and the branch on it).
AuthBeforeData ==
    zpc # "off" /\ zaurus.locked /\ ~ses.authed
        => zreq.type \in OpenRequests \cup {"none"}

\* Both ends wait for the other and nothing is in flight.
Deaf == pc \in {"greet_ack", "ws_rqst", "ws_ack", "wr_msg", "bye_rqst"}

MutualWait ==
    conn = "up" /\ Deaf /\ zpc \in ZWaitPcs /\ toZ = <<>> /\ toD = <<>>

\* With a Zaurus that follows the protocol the two ends never wait for each
\* other, at no point of any sequence of calls, unless the library went past
\* the passcode of a locked device (run stale_auth): a refusal later in the
\* session is one that the calls do not expect and leave unacknowledged.
NoMutualWait == MutualWait => ~AuthBeforeData

(***************************************************************************)
(* Action properties.                                                      *)
(***************************************************************************)
\* The requests that a successful call stands for.
Promised(c) ==
    CASE c = "initiate"  -> {"RAY", "RIG", "RMG", "RTG", "RTS", "RDI"}
      [] c = "none"      -> {}
      [] OTHER           -> {RequestOf[c]}

\* A call other than zdtm_terminate_sync that returns 0 has been answered by the
\* Zaurus, in this session, for every request it stands for: no refusal, no reply
\* to another request, and no reply that comes in place of an ACK or a RQST, the
\* present one or one the Zaurus repeats, is taken for an answer.
SuccessIsHonest ==
    [][ret' # ret /\ ret'.code = 0 /\ ret'.call # "terminate"
         => Promised(ret'.call) \subseteq ses.served]_vars

\* "-2 Failed to receive AEX message from the Zaurus." (zdtm_sync.h:268): a
\* zdtm_terminate_sync that returns 0 has had its RQT answered with AEX.
GoodbyeIsGranted ==
    [][ret' # ret /\ ret'.code = 0 /\ ret'.call = "terminate"
         => Promised("terminate") \subseteq ses.served]_vars

\* A last sync time of fourteen zeros, which says that the device was never
\* synchronised, is told apart from every other answer: initiate returns -11
\* (_zdtm_obtain_last_time_synced returns 1).
NeverSyncedReported ==
    [][/\ pc = "wr_ack" /\ fn = "last_time"
       /\ rmsg.type = "ATG" /\ rmsg.flag
       /\ conn = "up" /\ pc' # pc
       => ret'.code = -11]_vars

\* Everything the Zaurus sees of a synchronisation is one of the orders of
\* SyncService.
Service == INSTANCE SyncService WITH
    open <- zpc # "off", locked <- zaurus.locked, served <- ses.served,
    wants <- ses.wants, named <- ses.named, slow <- ses.reported

ImplementsService == Service!Spec

(***************************************************************************)
(* Liveness, under FairSpec.                                               *)
(***************************************************************************)
\* Every call returns, with the exception that NoMutualWait makes.
CallReturns == call # "none" ~> call = "none" \/ ~AuthBeforeData

\* A program that has initiated the synchronisation and got as far as the id
\* lists can end it whatever it was told of them: the terminate returns
\* (zdtm_terminate_sync, as zdtm_test_daemon.c calls it after
\* test_get_changeinfo).
TerminateReturns ==
    call = "terminate" /\ "RSY" \in ses.served ~> call = "none"

\* After a terminate that returned 0 the Zaurus gets its RAY and hangs up, or
\* the program connects again.
ZaurusReleased ==
    pc = "bye_send" /\ conn = "up" ~> zpc = "off" \/ call = "initiate"
                                       \/ ret.code # 0
=============================================================================
