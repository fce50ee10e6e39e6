---------------------------- MODULE ZdtmDesktop -----------------------------
(***************************************************************************)
(* The library side of one synchronisation: the public calls of            *)
(* zdtm_sync.c, the protocol functions of zdtm_proto.c they are made of,   *)
(* and the two wrapped exchanges of zdtm_net.c every protocol function is  *)
(* made of.  The library is single-threaded and every socket call blocks,  *)
(* so a call in progress is one control point:                             *)
(*    call  the public function the program is inside of                   *)
(*    fn    the protocol function that call is inside of                   *)
(*    pc    the next send or receive of that function                      *)
(* What the code does between two socket calls is part of the step that    *)
(* ends with the first of them.                                            *)
(*                                                                         *)
(* Return codes are those of the public functions; the codes of the        *)
(* protocol functions are kept only where a caller tells them apart.       *)
(***************************************************************************)
EXTENDS Integers, ZdtmChannel

CONSTANT
    AllocMayFail    \* TRUE: malloc may return NULL (and a message may not parse)

ASSUME AllocAssumption == AllocMayFail \in BOOLEAN

VARIABLES
    env,        \* the zdtm_lib_env
    call, fn, pc,
    rmsg,       \* the general message received and not yet acknowledged
    refused,    \* fn has received ABRT and waits for the ANG behind it
    ret,        \* between calls: the call that returned last, and its code
    synced      \* the program may use the data calls: initiate returned 0

deskVars == <<env, call, fn, pc, rmsg, refused, ret, synced>>

-----------------------------------------------------------------------------
(***************************************************************************)
(* Calls, protocol functions, control points.                              *)
(***************************************************************************)
DataCalls == {"id_lists", "item", "delete", "sync_done"}
Calls     == {"initiate", "terminate"} \cup DataCalls

\* zdtm_initiate_sync in the order of its code.  device_info is called from
\* two places: zdtm_check_cur_auth_state (check_auth) and initiate itself.
\* _zdtm_reset_sync_log is two exchanges, the empty log and the full one.
InitiateFns ==
    {"greet", "check_auth", "auth", "device_info", "sync_state", "last_time",
     "reset_log_0", "reset_log_5", "set_last_time", "reset_state",
     "param_format"}

Fns == InitiateFns \cup DataCalls \cup {"terminate"}

RequestOf ==
    [greet |-> "RAY", check_auth |-> "RIG", auth |-> "RRL",
     device_info |-> "RIG", sync_state |-> "RMG", last_time |-> "RTG",
     reset_log_0 |-> "RMS", reset_log_5 |-> "RMS", set_last_time |-> "RTS",
     reset_state |-> "RSS", param_format |-> "RDI", id_lists |-> "RSY",
     item |-> "RDR", delete |-> "RDD", sync_done |-> "RDS",
     terminate |-> "RQT"]

\* Mutant: _zdtm_state_sync_done forgets the sync type.
TypedFnsWithoutDone ==
    {"sync_state", "reset_state", "param_format", "id_lists", "item", "delete"}

\* The functions that put cur_env->sync_type in their request.
TypedFns == {"sync_state", "reset_state", "param_format"} \cup DataCalls

\* The functions that take ABRT followed by ANG as an answer.
RefusableFns == {"auth", "reset_log_0"}

GreetPcs == {"greet_send", "greet_ack"}
SendPcs  == {"ws_rqst", "ws_send", "ws_ack"}    \* _zdtm_wrapped_send_message
RecvPcs  == {"wr_rqst", "wr_msg", "wr_ack"}     \* _zdtm_wrapped_recv_message
ByePcs   == {"bye_rqst", "bye_send"}
Pcs      == {"idle"} \cup GreetPcs \cup SendPcs \cup RecvPcs \cup ByePcs

Passcodes == {"none", "right", "wrong"}

Env == [type: AnySyncType,          \* sync_type
        ip: BOOLEAN,                \* zaurus_ip is not all nulls
        pass: Passcodes,            \* passcode; "none" is NULL
        gotInfo: BOOLEAN,           \* retreived_device_info
        needPass: BOOLEAN,          \* cur_auth_state is 0x0b or 0x07
        gotState: BOOLEAN,          \* retrieved_sync_state
        slow: SUBSET SyncTypes,     \* the three *_slow_sync_required flags
        params: AnySyncType]        \* whose format params holds; "unset" is NULL

RetCodes == -16 .. 1

\* ret while a call is in progress, and before the first.
NoReturn == [call |-> "none", code |-> 0]

DeskTypeOK ==
    /\ env \in Env
    /\ call \in Calls \cup {"none"}
    /\ fn \in Fns \cup {"none"}
    /\ pc \in Pcs
    /\ rmsg \in Message
    /\ refused \in BOOLEAN
    /\ ret \in [call: Calls \cup {"none"}, code: RetCodes]
    /\ synced \in BOOLEAN

\* zdtm_initialize has returned 0.
DeskInit ==
    /\ env = [type |-> "unset", ip |-> FALSE, pass |-> "none",
              gotInfo |-> FALSE, needPass |-> FALSE, gotState |-> FALSE,
              slow |-> {}, params |-> "unset"]
    /\ call = "none" /\ fn = "none" /\ pc = "idle"
    /\ rmsg = NoMsg /\ refused = FALSE
    /\ ret = NoReturn
    /\ synced = FALSE
-----------------------------------------------------------------------------
(***************************************************************************)
(* Local computation: the request a function sends, whether it accepts the *)
(* reply, what it stores in the environment, and what initiate does next.  *)
(***************************************************************************)
RequestMsg(f, e) ==
    Msg(RequestOf[f],
        IF f \in TypedFns THEN e.type ELSE "unset",
        {},
        \/ f = "reset_log_5"
        \/ f = "auth" /\ e.pass = "right")

\* Mutant: the type of a reply is not checked.
TypeUnchecked(f, m) == TRUE

\* The comparison of a reply with the type its request is meant to have.
TypeChecked(f, m) == m.type = ReplyTo[RequestOf[f]]

\* The reply the function goes on with.  terminate never looks at the type.
Accepts(f, afterAbrt, m) ==
    CASE f = "terminate"   -> TRUE
      [] f = "reset_log_0" -> afterAbrt /\ m.type = "ANG"
      [] f = "auth"        -> ~afterAbrt /\ TypeChecked(f, m)
      [] OTHER             -> TypeChecked(f, m)

\* The flags _zdtm_reset_sync_state sets: its switch has cases 0, 1 and
\* default, which fall through, while sync_type is 0x06, 0x01 or 0x07.
ResetStateFlags(type) ==
    SyncTypes \cap
    (IF type = "calendar" THEN {"calendar", "address"} ELSE {"address"})

\* Mutant: a sync state that is already there is not read again.
SlowFlagsOnce(e, m) == IF e.gotState THEN e.slow ELSE e.slow \cup m.slow

\* The slow flags are only ever set, from the zero bits of fullsync_flags.
SlowFlags(e, m) == e.slow \cup m.slow

\* What a function stores in the environment.
Learn(e, f, m) ==
    CASE f \in {"check_auth", "device_info"} ->
           [e EXCEPT !.gotInfo = TRUE, !.needPass = m.flag]
      [] f = "sync_state"   -> [e EXCEPT !.gotState = TRUE,
                                         !.slow = SlowFlags(e, m)]
      [] f = "reset_state"  -> [e EXCEPT !.slow = @ \cup ResetStateFlags(e.type)]
      [] f = "param_format" -> [e EXCEPT !.params = e.type]
      [] OTHER              -> e

\* zdtm_requires_slow_sync = 1, once the sync state has been retrieved.
RequiresSlowSync(e) == e.type \in e.slow

\* Mutant: without a passcode initiate tries its luck.
AfterAuthStateLenient(e) ==
    IF e.needPass /\ e.pass # "none" THEN "auth" ELSE "device_info"

\* The tail of zdtm_check_cur_auth_state and the branch on its result.
AfterAuthState(e) ==
    CASE ~e.needPass                       -> "device_info"
      [] e.needPass /\ e.pass # "none"     -> "auth"
      [] e.needPass /\ e.pass = "none"     -> "no_passcode"

\* Mutant: a format that is already there is good enough.
ParamFormatKept(e) == IF e.params = "unset" THEN "param_format" ELSE "done"

\* _zdtm_obtain_param_format refuses to run twice on one environment.
ParamFormat(e) == IF e.params = "unset" THEN "param_format" ELSE "params_taken"

\* Mutants: the log is not reset; the items are not marked as new.
BeforeAnchorNoLog(e) == "set_last_time"

AfterAnchorNoState(e) == ParamFormat(e)

\* What surrounds the RTS when a slow sync is required.
BeforeAnchor(e) ==
    IF RequiresSlowSync(e) THEN "reset_log_0" ELSE "set_last_time"

AfterAnchor(e) ==
    IF RequiresSlowSync(e) THEN "reset_state" ELSE ParamFormat(e)

\* The next protocol function of zdtm_initiate_sync after f succeeded, or the
\* name of the outcome that ends it.
NextStep(f, e) ==
    CASE f = "greet"         -> IF e.gotInfo THEN AfterAuthState(e)
                                             ELSE "check_auth"
      [] f = "check_auth"    -> AfterAuthState(e)
      [] f = "auth"          -> "device_info"
      [] f = "device_info"   -> "sync_state"
      [] f = "sync_state"    -> "last_time"
      [] f = "last_time"     -> BeforeAnchor(e)
      [] f = "reset_log_0"   -> "reset_log_5"
      [] f = "reset_log_5"   -> "set_last_time"
      [] f = "set_last_time" -> AfterAnchor(e)
      [] f = "reset_state"   -> ParamFormat(e)
      [] OTHER               -> "done"

OutcomeCode == [done |-> 0, no_passcode |-> -8, params_taken |-> -16]

\* The code a public call returns when its function f fails in the wrapped
\* send ("send"), the wrapped receive ("recv") or the type check ("type").
InitiateCode ==
    [check_auth |-> -6, auth |-> -7, device_info |-> -9, sync_state |-> -10,
     last_time |-> -12, reset_log_0 |-> -13, reset_log_5 |-> -13,
     set_last_time |-> -14, reset_state |-> -15, param_format |-> -16]

FailCode(f, stage) ==
    CASE f = "greet"       -> IF stage = "recv" THEN -3 ELSE -4
      [] f \in InitiateFns \ {"greet"} -> InitiateCode[f]
      [] f = "item"        -> -2
      [] OTHER             -> IF stage = "send" THEN -1
                              ELSE IF stage = "recv" THEN -2 ELSE -3

\* Mutant: the positive code of a common message is handed on.
FailCodeAtRaw(f, p) == IF p \in RecvPcs THEN 3 ELSE -1

\* The code for a send or receive that fails at control point p.
FailCodeAt(f, p) ==
    CASE p = "greet_send" -> -1
      [] p = "greet_ack"  -> -2
      [] p = "bye_rqst"   -> -3
      [] p = "bye_send"   -> -4
      [] p \in SendPcs    -> FailCode(f, "send")
      [] OTHER            -> FailCode(f, "recv")

-----------------------------------------------------------------------------
(***************************************************************************)
(* Control transfer.                                                       *)
(***************************************************************************)
ReturnFrom(c, code) ==
    /\ ret' = [call |-> c, code |-> code]
    /\ synced' = (synced \/ (c = "initiate" /\ code = 0))
    /\ call' = "none" /\ fn' = "none" /\ pc' = "idle"
    /\ rmsg' = NoMsg /\ refused' = FALSE

Return(code) == ReturnFrom(call, code)

\* Mutant: a request is sent without waiting for the RQST.
EnterHasty(f) ==
    /\ fn' = f /\ pc' = "ws_send"
    /\ rmsg' = NoMsg /\ refused' = FALSE
    /\ UNCHANGED <<call, ret, synced>>

Enter(f) ==
    /\ fn' = f /\ pc' = "ws_rqst"
    /\ rmsg' = NoMsg /\ refused' = FALSE
    /\ UNCHANGED <<call, ret, synced>>

Goto(p) ==
    /\ pc' = p
    /\ UNCHANGED <<env, call, fn, rmsg, refused, ret, synced>>

\* Between two public calls.
Idle == pc = "idle"
-----------------------------------------------------------------------------
(***************************************************************************)
(* The setters.  The sync type is "to be used throughout the rest of the   *)
(* synchronization", so a program does not change it while it syncs.       *)
(***************************************************************************)
SetSyncType(t) ==
    /\ Idle /\ ~synced
    /\ env' = [env EXCEPT !.type = t]
    /\ UNCHANGED <<call, fn, pc, rmsg, refused, ret, synced, chanVars>>

SetZaurusIp ==
    /\ Idle
    /\ env' = [env EXCEPT !.ip = TRUE]
    /\ UNCHANGED <<call, fn, pc, rmsg, refused, ret, synced, chanVars>>

\* The old passcode is gone even when the new one cannot be stored.
SetPasscode(p) ==
    /\ Idle
    /\ p # "none" \/ AllocMayFail
    /\ env' = [env EXCEPT !.pass = p]
    /\ UNCHANGED <<call, fn, pc, rmsg, refused, ret, synced, chanVars>>
-----------------------------------------------------------------------------
(***************************************************************************)
(* Entering a public call.                                                 *)
(***************************************************************************)
\* initiate returns before it touches the network.
InitiateUnset ==
    /\ Idle
    /\ \/ env.type = "unset" /\ ReturnFrom("initiate", -7)
       \/ env.type # "unset" /\ ~env.ip /\ ReturnFrom("initiate", -5)
    /\ UNCHANGED <<env, chanVars>>

InitiateReady == Idle /\ env.type # "unset" /\ env.ip

\* _zdtm_connect fails.  Up to the accept, connfd is still the old one; a
\* failed accept overwrites it.
ConnectFails ==
    /\ InitiateReady
    /\ ReturnFrom("initiate", -6)
    /\ UNCHANGED env
    /\ \/ UNCHANGED chanVars
       \/ conn' = "lost" /\ toZ' = <<>> /\ toD' = <<>>

\* _zdtm_connect succeeds: connfd is a connection nothing was sent on yet.
\* The connection it may have held before is not closed, only forgotten.
Connect ==
    /\ InitiateReady
    /\ conn' = "up" /\ toZ' = <<>> /\ toD' = <<>>
    /\ call' = "initiate" /\ fn' = "greet" /\ pc' = "greet_send"
    /\ synced' = FALSE /\ ret' = NoReturn
    /\ UNCHANGED <<env, rmsg, refused>>

\* The calls that are one protocol function.  A program makes the data calls
\* after a successful initiate, and terminate on any connection.
BeginCall(c) ==
    /\ Idle
    /\ conn # "none"
    /\ c \in DataCalls => synced
    /\ call' = c /\ fn' = c /\ pc' = "ws_rqst"
    /\ synced' = (synced /\ c # "terminate") /\ ret' = NoReturn
    /\ UNCHANGED <<env, rmsg, refused, chanVars>>

\* zdtm_obtain_{todo,calendar,address}_item for another type than the one set.
ItemOfOtherType ==
    /\ Idle /\ synced
    /\ ReturnFrom("item", -1)
    /\ UNCHANGED <<env, chanVars>>
-----------------------------------------------------------------------------
(***************************************************************************)
(* The greeting: RAY, ACK, then a wrapped receive of AAY.                  *)
(***************************************************************************)
GreetSend ==
    /\ pc = "greet_send"
    /\ SendToZaurus(Plain("RAY"))
    /\ Goto("greet_ack")

GreetAck ==
    /\ pc = "greet_ack"
    /\ Arrived(toD, "ACK") /\ RecvFromZaurus
    /\ Goto("wr_rqst")

(***************************************************************************)
(* _zdtm_wrapped_send_message: RQST in, the request out, ACK in.           *)
(***************************************************************************)
WsRqst ==
    /\ pc = "ws_rqst"
    /\ Arrived(toD, "RQST") /\ RecvFromZaurus
    /\ Goto("ws_send")

\* Mutant: the reply is asked for before the request is acknowledged.
WsSendNoAck ==
    /\ pc = "ws_send"
    /\ SendToZaurus(RequestMsg(fn, env))
    /\ Goto("wr_rqst")

WsSend ==
    /\ pc = "ws_send"
    /\ SendToZaurus(RequestMsg(fn, env))
    /\ Goto("ws_ack")

WsAck ==
    /\ pc = "ws_ack"
    /\ Arrived(toD, "ACK") /\ RecvFromZaurus
    /\ Goto("wr_rqst")

(***************************************************************************)
(* _zdtm_wrapped_recv_message: RQST out, a general message in, ACK out.    *)
(***************************************************************************)
WrRqst ==
    /\ pc = "wr_rqst"
    /\ SendToZaurus(Plain("RQST"))
    /\ Goto("wr_msg")

WrMsg ==
    /\ pc = "wr_msg"
    /\ RecvFromZaurus
    /\ ~IsCommon(Head(toD))
    /\ rmsg' = Head(toD)
    /\ pc' = "wr_ack"
    /\ UNCHANGED <<env, call, fn, refused, ret, synced>>

\* Mutant: the message behind an ABRT is awaited without asking for it.
WrAbrtNoRqst ==
    /\ pc = "wr_msg"
    /\ fn \in RefusableFns /\ ~refused
    /\ Arrived(toD, "ABRT") /\ RecvFromZaurus
    /\ pc' = "wr_msg" /\ refused' = TRUE
    /\ UNCHANGED <<env, call, fn, rmsg, ret, synced>>

\* It returns 3 on ABRT, without an ACK; _zdtm_authenticate_passcode and
\* _zdtm_reset_sync_log then receive once more.
WrAbrt ==
    /\ pc = "wr_msg"
    /\ fn \in RefusableFns /\ ~refused
    /\ Arrived(toD, "ABRT") /\ RecvFromZaurus
    /\ pc' = "wr_rqst" /\ refused' = TRUE
    /\ UNCHANGED <<env, call, fn, rmsg, ret, synced>>
\* The ACK goes out before the reply is looked at.  What follows up to the
\* next receive is local: the type check, the environment, the next function.
WrAckAccepted ==
    /\ pc = "wr_ack"
    /\ Accepts(fn, refused, rmsg)
    /\ SendToZaurus(Plain("ACK"))
    /\ env' = Learn(env, fn, rmsg)
    /\ \/ /\ call = "initiate"
          /\ LET next == NextStep(fn, Learn(env, fn, rmsg))
             IN  IF next \in Fns THEN Enter(next) ELSE Return(OutcomeCode[next])
       \/ call \in DataCalls /\ Return(0)
       \/ call = "terminate" /\ pc' = "bye_rqst" /\ rmsg' = NoMsg
          /\ UNCHANGED <<call, fn, refused, ret, synced>>

\* Mutant: a reply of another type is not acknowledged.
WrAckRejectedSilently ==
    /\ pc = "wr_ack"
    /\ ~Accepts(fn, refused, rmsg)
    /\ IF fn = "auth" /\ refused /\ rmsg.type = "ANG"
       THEN Return(1)
       ELSE Return(FailCode(fn, "type"))
    /\ UNCHANGED <<env, chanVars>>

\* Another type than the one expected.  Passcode denied is ABRT and then ANG.
WrAckRejected ==
    /\ pc = "wr_ack"
    /\ ~Accepts(fn, refused, rmsg)
    /\ SendToZaurus(Plain("ACK"))
    /\ IF fn = "auth" /\ refused /\ rmsg.type = "ANG"
       THEN Return(1)
       ELSE Return(FailCode(fn, "type"))
    /\ UNCHANGED env

\* The reply is of the right type and cannot be used: an all-zero date that
\* mktime cannot convert (a 32-bit time_t), or no memory for the id lists or
\* for the fields of the item, or fields that do not match the format.
WrAckUnusable ==
    /\ pc = "wr_ack"
    /\ Accepts(fn, refused, rmsg)
    /\ SendToZaurus(Plain("ACK"))
    /\ \/ fn = "last_time" /\ rmsg.flag /\ Return(-12)
       \/ fn = "id_lists" /\ AllocMayFail /\ Return(-4)
       \/ fn = "item" /\ AllocMayFail /\ Return(-3)
    /\ UNCHANGED env

(***************************************************************************)
(* The farewell of zdtm_terminate_sync: RQST in, RAY out, reqfd closed.    *)
(* connfd stays open.                                                      *)
(***************************************************************************)
ByeRqst ==
    /\ pc = "bye_rqst"
    /\ Arrived(toD, "RQST") /\ RecvFromZaurus
    /\ Goto("bye_send")

\* Mutant: reqfd is closed and the RAY forgotten.
ByeSendNoRay ==
    /\ pc = "bye_send"
    /\ \E code \in {0, -5} : Return(code)
    /\ UNCHANGED <<env, chanVars>>

ByeSend ==
    /\ pc = "bye_send"
    /\ SendToZaurus(Plain("RAY"))
    /\ \E code \in {0, -5} : Return(code)
    /\ UNCHANGED env
-----------------------------------------------------------------------------
(***************************************************************************)
(* The error returns.                                                      *)
(***************************************************************************)
\* The type each receive goes on with; wr_msg goes on with general messages.
Awaits(p) == CASE p \in {"greet_ack", "ws_ack"} -> "ACK"
               [] p \in {"ws_rqst", "bye_rqst"} -> "RQST"
               [] OTHER                         -> "none"

\* _zdtm_recv_message returns another positive value than the one wanted.
UnexpectedCommon ==
    /\ pc \in {"greet_ack", "ws_rqst", "ws_ack", "wr_msg", "bye_rqst"}
    /\ RecvFromZaurus
    /\ IsCommon(Head(toD))
    /\ Head(toD).type # Awaits(pc)
    /\ ~(pc = "wr_msg" /\ fn \in RefusableFns /\ ~refused
         /\ Head(toD).type = "ABRT")
    /\ Return(FailCodeAt(fn, pc))
    /\ UNCHANGED env

\* It returns 0, a general message where a common one was wanted.
UnexpectedGeneral ==
    /\ pc \in {"greet_ack", "ws_rqst", "ws_ack", "bye_rqst"}
    /\ RecvFromZaurus
    /\ ~IsCommon(Head(toD))
    /\ Return(IF pc = "greet_ack" THEN -1 ELSE FailCodeAt(fn, pc))
    /\ UNCHANGED env

\* It returns a negative value: the connection is closed or broken.
RecvBroken ==
    /\ pc \in {"greet_ack", "ws_rqst", "ws_ack", "wr_msg", "bye_rqst"}
    /\ conn = "lost"
    /\ Return(FailCodeAt(fn, pc))
    /\ UNCHANGED <<env, chanVars>>

\* It returns a negative value: a general message was read off the stream and
\* no memory was left for it, or its content did not parse.
RecvDiscards ==
    /\ AllocMayFail
    /\ pc \in {"greet_ack", "ws_rqst", "ws_ack", "wr_msg", "bye_rqst"}
    /\ RecvFromZaurus
    /\ ~IsCommon(Head(toD))
    /\ Return(FailCodeAt(fn, pc))
    /\ UNCHANGED env

\* send fails on a broken connection; before that, _zdtm_prepare_message may
\* find no memory for a general message.
SendFails ==
    /\ \/ pc \in {"greet_send", "ws_send", "bye_send"}
          /\ (conn = "lost" \/ AllocMayFail)
       \/ pc \in {"wr_rqst", "wr_ack"} /\ conn = "lost"
    /\ Return(FailCodeAt(fn, pc))
    /\ UNCHANGED <<env, chanVars>>

\* _zdtm_authenticate_passcode finds no memory for the RRL message.
AuthNoMemory ==
    /\ AllocMayFail
    /\ pc = "ws_rqst" /\ fn = "auth"
    /\ Return(FailCode("auth", "send"))
    /\ UNCHANGED <<env, chanVars>>
-----------------------------------------------------------------------------
\* What the program decides between two calls.
Program ==
    \/ \E t \in AnySyncType : SetSyncType(t)
    \/ SetZaurusIp
    \/ \E p \in Passcodes : SetPasscode(p)
    \/ InitiateUnset
    \/ \E c \in DataCalls \cup {"terminate"} : BeginCall(c)
    \/ ItemOfOtherType

\* What the library does inside a call.
Library ==
    \/ GreetSend \/ GreetAck
    \/ WsRqst \/ WsSend \/ WsAck
    \/ WrRqst \/ WrMsg \/ WrAbrt
    \/ WrAckAccepted \/ WrAckRejected \/ WrAckUnusable
    \/ ByeRqst \/ ByeSend
    \/ UnexpectedCommon \/ UnexpectedGeneral
    \/ RecvBroken \/ RecvDiscards \/ SendFails \/ AuthNoMemory
=============================================================================
