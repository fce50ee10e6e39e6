------------------------- MODULE ZdtmSession_proofs -------------------------
(***************************************************************************)
(* Theorems about ZdtmSession, for every set of sync types, every set of   *)
(* requests the Zaurus answers out of turn, and every number of sessions   *)
(* and broken connections.                                                 *)
(***************************************************************************)
EXTENDS ZdtmSession, SequenceTheorems, TLAPS

-----------------------------------------------------------------------------
(***************************************************************************)
(* The inductive invariant: the types, what the control points of the two  *)
(* ends say about their other variables, and whose turn it is to send.     *)
(***************************************************************************)
DeskShape ==
    /\ pc = "idle" <=> call = "none"
    /\ call = "none" <=> fn = "none"
    /\ call = "initiate" => fn \in InitiateFns
    /\ call \in DataCalls \cup {"terminate"} => fn = call
    /\ call # "none" => conn # "none"
    /\ pc \in ByePcs => call = "terminate"

ZShape == zpc \in {"ack_send", "rep_wait", "rep_send"} => zreq.type \in RequestTypes

DeskTurn == pc \in {"greet_send", "ws_send", "wr_rqst", "wr_ack", "bye_send"}

ZTurn == zpc \in ZSendPcs

\* The right to send is in one place at most: with an end whose turn it is, or
\* on its way with a message.
Turns ==
    /\ Len(toZ) <= 1 /\ Len(toD) <= 1
    /\ conn # "up" => toZ = <<>> /\ zpc = "off"
    /\ conn = "up" =>
         /\ toZ # <<>> => toD = <<>> /\ ~DeskTurn /\ ~ZTurn
         /\ toD # <<>> => ~DeskTurn /\ ~ZTurn
         /\ ~(DeskTurn /\ ZTurn)

\* What each end has to be waiting for when the other is about to send, or has
\* sent.
SendPartner ==
    /\ pc = "greet_send" => zpc = "req_wait" /\ zreq.type = "none"
    /\ pc = "ws_send"    => zpc = "req_wait" /\ zreq.type \notin {"none", "RQT"}
    /\ pc = "wr_rqst"    => zpc \in {"rep_wait", "ang_wait"}
    /\ pc = "wr_ack"     => zpc = "ack_wait"
    /\ pc = "bye_send"   => zpc = "req_wait" /\ zreq.type = "RQT"

StreamPartner ==
    toD # <<>> =>
        CASE Head(toD).type = "ACK"  -> zpc = "rep_wait"
          [] Head(toD).type = "RQST" -> zpc = "req_wait" /\ zreq.type # "none"
          [] Head(toD).type = "ABRT" -> zpc = "ang_wait"
          [] OTHER                   -> zpc = "ack_wait"

\* The goodbye: a RQT is sent by terminate and by nothing else.  As long as
\* terminate gets on, the Zaurus deals with that RQT; when it has returned, the
\* Zaurus waits for the RAY, or for something that will never come.
AfterRqt ==
    /\ toZ # <<>> /\ Head(toZ).type = "RQT" => call = "terminate" /\ pc = "ws_ack"
    /\ zreq.type = "RQT" =>
         \/ call = "terminate" /\ pc \notin {"idle", "ws_rqst"}
         \/ /\ pc \in {"idle", "ws_rqst"} /\ toD = <<>> /\ ~ZTurn
            /\ toZ # <<>> => zpc = "req_wait"

InTerminate ==
    call = "terminate" /\ pc \notin {"ws_rqst", "ws_send"} =>
        IF pc = "ws_ack" /\ toZ # <<>> THEN Head(toZ).type = "RQT"
                                       ELSE zreq.type = "RQT"

\* The two ends in step, on an open connection.
InStep ==
    /\ SendPartner /\ StreamPartner /\ AfterRqt /\ InTerminate
    /\ DeviceNotSurprised
    /\ pc \in SendPcs => fn # "greet"
    /\ zpc \notin {"off", "req_wait"} => zreq.type \in RequestTypes

Paired == conn = "up" => InStep

\* The environment holds the format of its sync type from the moment initiate
\* returns 0 until the program may set another type.
FormatKept ==
    /\ synced \/ call \in DataCalls => env.params = env.type
    /\ call \in {"initiate", "terminate"} => ~synced

Typed == TypeOK /\ DeskShape /\ ZShape

\* Typed is inductive; Turns and FormatKept are inductive in Typed states.
-----------------------------------------------------------------------------
(***************************************************************************)
(* Types of the operators.                                                 *)
(***************************************************************************)
\* A message built from members of the four sets is a message.
LEMMA MsgType ==
    ASSUME NEW t \in MsgTypes, NEW y \in AnySyncType,
           NEW s \in SUBSET SyncTypes, NEW b \in BOOLEAN
    PROVE  Msg(t, y, s, b) \in Message
BY DEF Msg, Message

LEMMA PlainType == ASSUME NEW t \in MsgTypes PROVE Plain(t) \in Message
BY DEF Plain, Msg, Message, AnySyncType

LEMMA NoMsgType == NoMsg \in Message
BY PlainType DEF NoMsg, MsgTypes

\* The request of every protocol function is a message.
LEMMA RequestMsgType ==
    ASSUME NEW f \in Fns, NEW e \in Env
    PROVE  RequestMsg(f, e) \in Message
<1>1. RequestOf[f] \in RequestTypes
  BY DEF RequestOf, Fns, InitiateFns, DataCalls, RequestTypes
<1>2. e.type \in AnySyncType
  BY DEF Env
<1> QED
  BY <1>1, <1>2 DEF RequestMsg, Msg, Message, MsgTypes, AnySyncType

\* What a function learns from a reply keeps the environment well formed.
LEMMA LearnType ==
    ASSUME NEW e \in Env, NEW f \in Fns, NEW m \in Message
    PROVE  Learn(e, f, m) \in Env
BY DEF Learn, SlowFlags, ResetStateFlags, Env, Message, AnySyncType

\* initiate goes on with a protocol function of its own or ends with one of
\* three outcomes.
LEMMA NextStepType ==
    ASSUME NEW e \in Env, NEW f \in InitiateFns
    PROVE  NextStep(f, e) \in InitiateFns \cup
               {"done", "no_passcode", "params_taken"}
BY DEF NextStep, AfterAuthState, BeforeAnchor, AfterAnchor, ParamFormat,
       InitiateFns, Env

\* Every failure is reported with a code of the public functions.
LEMMA FailCodeType ==
    ASSUME NEW f \in Fns, NEW stage
    PROVE  FailCode(f, stage) \in RetCodes
BY DEF FailCode, InitiateCode, Fns, InitiateFns, DataCalls, RetCodes

LEMMA FailCodeAtType ==
    ASSUME NEW f \in Fns, NEW p
    PROVE  FailCodeAt(f, p) \in RetCodes
BY FailCodeType DEF FailCodeAt, RetCodes
-----------------------------------------------------------------------------
(***************************************************************************)
(* Streams.                                                                *)
(***************************************************************************)
\* A send of either end keeps the streams typed.
LEMMA SendType ==
    ASSUME ChanTypeOK, NEW m \in Message,
           SendToZaurus(m) \/ SendToDesktop(m)
    PROVE  ChanTypeOK'
BY SMTT(30) DEF ChanTypeOK, SendToZaurus, SendToDesktop

\* What is received is a message, and the streams stay typed.
LEMMA RecvType ==
    ASSUME ChanTypeOK
    PROVE  /\ RecvFromZaurus => ChanTypeOK' /\ Head(toD) \in Message
           /\ RecvFromDesktop => ChanTypeOK' /\ Head(toZ) \in Message
<1>1. ASSUME NEW s \in Seq(Message), s # <<>>
      PROVE  Head(s) \in Message /\ Tail(s) \in Seq(Message)
  BY <1>1, HeadTailProperties
<1> QED
  BY <1>1 DEF ChanTypeOK, RecvFromZaurus, RecvFromDesktop

-----------------------------------------------------------------------------
(***************************************************************************)
(* The library keeps its variables typed and its control point in shape.   *)
(***************************************************************************)
DeskInv == ChanTypeOK /\ DeskTypeOK /\ DeskShape

\* A return from any call.
LEMMA ReturnStep ==
    ASSUME DeskTypeOK, NEW c \in Calls, NEW code \in RetCodes,
           ReturnFrom(c, code), env' \in Env
    PROVE  DeskTypeOK' /\ DeskShape'
BY NoMsgType DEF DeskTypeOK, DeskShape, ReturnFrom, Pcs, ByePcs, Calls, DataCalls

LEMMA ProgramStep ==
    ASSUME DeskInv, Program
    PROVE  DeskInv'
<1> USE DEF DeskInv
<1>1. ASSUME NEW t \in AnySyncType, SetSyncType(t) PROVE DeskInv'
  BY <1>1 DEF SetSyncType, DeskTypeOK, Env, DeskShape, ChanTypeOK, chanVars
<1>2. CASE SetZaurusIp
  BY <1>2 DEF SetZaurusIp, DeskTypeOK, Env, DeskShape, ChanTypeOK, chanVars
<1>3. ASSUME NEW p \in Passcodes, SetPasscode(p) PROVE DeskInv'
  BY <1>3 DEF SetPasscode, DeskTypeOK, Env, DeskShape, ChanTypeOK, chanVars
<1>4. CASE InitiateUnset
  <2>1. /\ env' = env /\ ChanTypeOK'
        /\ ReturnFrom("initiate", -7) \/ ReturnFrom("initiate", -5)
    BY <1>4 DEF InitiateUnset, ChanTypeOK, chanVars
  <2> QED
    BY <2>1, ReturnStep DEF DeskTypeOK, Calls, RetCodes
<1>5. ASSUME NEW c \in DataCalls \cup {"terminate"}, BeginCall(c)
      PROVE DeskInv'
  BY <1>5 DEF BeginCall, DeskTypeOK, DeskShape, ChanTypeOK, chanVars, NoReturn,
              Calls, DataCalls, Fns, Pcs, SendPcs, ByePcs, RetCodes
<1>6. CASE ItemOfOtherType
  <2>1. env' = env /\ ChanTypeOK' /\ ReturnFrom("item", -1)
    BY <1>6 DEF ItemOfOtherType, ChanTypeOK, chanVars
  <2>2. "item" \in Calls /\ -1 \in RetCodes /\ env' \in Env
    BY <2>1 DEF Calls, DataCalls, RetCodes, DeskTypeOK
  <2> QED
    BY <2>1, <2>2, ReturnStep
<1> QED
  BY <1>1, <1>2, <1>3, <1>4, <1>5, <1>6 DEF Program

\* A step inside a call that goes to the next control point.
LEMMA GotoStep ==
    ASSUME DeskInv, pc # "idle", ChanTypeOK', conn' # "none",
           NEW p \in Pcs \ {"idle"}, Goto(p), p \in ByePcs => pc \in ByePcs
    PROVE  DeskInv'
BY DEF DeskInv, DeskTypeOK, DeskShape, Goto

\* Inside a call there is a call, a function of it, and a connection.
LEMMA InCall ==
    ASSUME DeskInv, pc # "idle"
    PROVE  /\ call \in Calls /\ fn \in Fns /\ conn # "none"
           /\ env \in Env /\ rmsg \in Message
BY DEF DeskInv, DeskTypeOK, DeskShape

LEMMA LibraryKeepsType ==
    ASSUME DeskInv, Library
    PROVE  DeskInv'
<1>0. pc # "idle"
  BY DEF Library, GreetSend, GreetAck, WsRqst, WsSend, WsAck, WrRqst, WrMsg,
         WrAbrt, WrAckAccepted, WrAckRejected, WrAckUnusable, ByeRqst, ByeSend,
         UnexpectedCommon, UnexpectedGeneral, RecvBroken, RecvDiscards,
         SendFails, AuthNoMemory, SendPcs, RecvPcs, GreetPcs, ByePcs
<1>a. /\ call \in Calls /\ fn \in Fns /\ conn # "none"
      /\ env \in Env /\ rmsg \in Message /\ ChanTypeOK
  BY <1>0, InCall DEF DeskInv
<1>b. \A p \in Pcs : FailCodeAt(fn, p) \in RetCodes
  BY <1>a, FailCodeAtType
\* The steps that go on to the next control point.
<1>1. CASE GreetSend \/ WsSend \/ WrRqst
  <2>1. PICK m \in Message : SendToZaurus(m)
    BY <1>1, <1>a, RequestMsgType, PlainType
       DEF GreetSend, WsSend, WrRqst, MsgTypes, RequestTypes, CommonTypes
  <2>2. ChanTypeOK' /\ conn' # "none"
    BY <2>1, <1>a, SendType DEF SendToZaurus
  <2>3. \E p \in Pcs \ {"idle"} : Goto(p) /\ p \notin ByePcs
    BY <1>1 DEF GreetSend, WsSend, WrRqst, Pcs, GreetPcs, SendPcs, RecvPcs, ByePcs
  <2> QED
    BY <2>2, <2>3, <1>0, GotoStep
<1>2. CASE GreetAck \/ WsRqst \/ WsAck \/ ByeRqst
  <2>1. RecvFromZaurus
    BY <1>2 DEF GreetAck, WsRqst, WsAck, ByeRqst
  <2>2. ChanTypeOK' /\ conn' # "none"
    BY <2>1, <1>a, RecvType DEF RecvFromZaurus
  <2>3. \E p \in Pcs \ {"idle"} : Goto(p) /\ (p \in ByePcs => pc \in ByePcs)
    BY <1>2 DEF GreetAck, WsRqst, WsAck, ByeRqst, Pcs, SendPcs, RecvPcs, ByePcs
  <2> QED
    BY <2>2, <2>3, <1>0, GotoStep
<1>3. CASE WrMsg \/ WrAbrt
  <2>1. RecvFromZaurus
    BY <1>3 DEF WrMsg, WrAbrt
  <2>2. ChanTypeOK' /\ Head(toD) \in Message /\ conn' = conn
    BY <2>1, <1>a, RecvType DEF RecvFromZaurus
  <2> QED
    BY <1>3, <2>2, <1>a
       DEF WrMsg, WrAbrt, DeskInv, DeskTypeOK, DeskShape, Pcs, RecvPcs, ByePcs
\* The steps that end a function or a call after an ACK.
<1>4. CASE WrAckAccepted
  <2>1. SendToZaurus(Plain("ACK")) /\ env' = Learn(env, fn, rmsg)
    BY <1>4 DEF WrAckAccepted
  <2>2. Plain("ACK") \in Message
    BY PlainType DEF MsgTypes, CommonTypes
  <2>3. ChanTypeOK' /\ conn' # "none" /\ env' \in Env
    BY <2>1, <2>2, <1>a, SendType, LearnType DEF SendToZaurus
  <2> DEFINE next == NextStep(fn, Learn(env, fn, rmsg))
  <2>4. CASE /\ call = "initiate"
             /\ IF next \in Fns THEN Enter(next) ELSE Return(OutcomeCode[next])
    <3>1. fn \in InitiateFns
      BY <2>4 DEF DeskInv, DeskShape
    <3>2. next \in InitiateFns \cup {"done", "no_passcode", "params_taken"}
      BY <3>1, <2>1, <2>3, NextStepType
    <3> HIDE DEF next
    <3>3. CASE next \in Fns
      <4>1. next \in InitiateFns /\ Enter(next)
        BY <3>2, <3>3, <2>4 DEF Fns, InitiateFns, DataCalls
      <4> QED
        BY <4>1, <3>3, <2>3, <2>4, NoMsgType
           DEF Enter, DeskInv, DeskTypeOK, DeskShape, Pcs, SendPcs, ByePcs,
               DataCalls, InitiateFns
    <3>4. CASE next \notin Fns
      <4>1. next \in {"done", "no_passcode", "params_taken"}
        BY <3>2, <3>4 DEF Fns
      <4>2. OutcomeCode[next] \in RetCodes
        BY <4>1 DEF OutcomeCode, RetCodes
      <4>3. ReturnFrom(call, OutcomeCode[next])
        BY <2>4, <3>4 DEF Return
      <4> QED
        BY <4>2, <4>3, <2>3, <1>a, ReturnStep DEF DeskInv
    <3> QED
      BY <3>3, <3>4
  <2>5. CASE call \in DataCalls /\ Return(0)
    <3>1. ReturnFrom(call, 0)
      BY <2>5 DEF Return
    <3> QED
      BY <3>1, <2>3, <1>a, ReturnStep DEF DeskInv, RetCodes
  <2>6. CASE /\ call = "terminate" /\ pc' = "bye_rqst" /\ rmsg' = NoMsg
             /\ UNCHANGED <<call, fn, refused, ret, synced>>
    BY <2>6, <2>3, NoMsgType
       DEF DeskInv, DeskTypeOK, DeskShape, Pcs, ByePcs
  <2> QED
    BY <1>4, <2>4, <2>5, <2>6 DEF WrAckAccepted
<1>5. CASE WrAckRejected \/ WrAckUnusable
  <2>1. Plain("ACK") \in Message
    BY PlainType DEF MsgTypes, CommonTypes
  <2>2. SendToZaurus(Plain("ACK")) /\ env' = env
    BY <1>5 DEF WrAckRejected, WrAckUnusable
  <2>3. ChanTypeOK'
    BY <2>1, <2>2, <1>a, SendType
  <2>4. FailCode(fn, "type") \in RetCodes
    BY <1>a, FailCodeType
  <2>5. \E code \in RetCodes : ReturnFrom(call, code)
    BY <1>5, <2>4 DEF WrAckRejected, WrAckUnusable, Return, RetCodes
  <2> QED
    BY <2>2, <2>3, <2>5, <1>a, ReturnStep DEF DeskInv
<1>6. CASE ByeSend
  <2>1. Plain("RAY") \in Message
    BY PlainType DEF MsgTypes, RequestTypes
  <2>2. ChanTypeOK' /\ env' = env
    BY <2>1, <1>6, <1>a, SendType DEF ByeSend
  <2>3. \E code \in RetCodes : ReturnFrom(call, code)
    BY <1>6 DEF ByeSend, Return, RetCodes
  <2> QED
    BY <2>2, <2>3, <1>a, ReturnStep DEF DeskInv
\* The error returns.
<1>7. CASE UnexpectedCommon \/ UnexpectedGeneral \/ RecvDiscards
  <2>1. ChanTypeOK' /\ env' = env
    BY <1>7, <1>a, RecvType DEF UnexpectedCommon, UnexpectedGeneral, RecvDiscards
  <2>2. \E code \in RetCodes : ReturnFrom(call, code)
    BY <1>7, <1>b
       DEF UnexpectedCommon, UnexpectedGeneral, RecvDiscards, Return, RetCodes,
           Pcs, GreetPcs, SendPcs, RecvPcs, ByePcs
  <2> QED
    BY <2>1, <2>2, <1>a, ReturnStep DEF DeskInv
<1>8. CASE RecvBroken \/ SendFails \/ AuthNoMemory
  <2>1. ChanTypeOK' /\ env' = env
    BY <1>8, <1>a DEF RecvBroken, SendFails, AuthNoMemory, ChanTypeOK, chanVars
  <2>2. FailCode("auth", "send") \in RetCodes
    BY FailCodeType DEF Fns, InitiateFns
  <2>3. \E code \in RetCodes : ReturnFrom(call, code)
    BY <1>8, <1>b, <2>2
       DEF RecvBroken, SendFails, AuthNoMemory, Return,
           Pcs, GreetPcs, SendPcs, RecvPcs, ByePcs
  <2> QED
    BY <2>1, <2>3, <1>a, ReturnStep DEF DeskInv
<1> QED
  BY <1>1, <1>2, <1>3, <1>4, <1>5, <1>6, <1>7, <1>8 DEF Library

-----------------------------------------------------------------------------
(***************************************************************************)
(* The Zaurus keeps its variables typed.                                   *)
(***************************************************************************)
ZInv == ChanTypeOK /\ ZTypeOK /\ ZShape

\* Its replies are messages.
LEMMA RepliesType ==
    ASSUME ZTypeOK, NEW m \in Message, m.type \in RequestTypes
    PROVE  Replies(m) \subseteq Message
<1>1. ReplyTo[m.type] \in MsgTypes
  BY DEF ReplyTo, RequestTypes, MsgTypes, ReplyTypes
<1>2. zaurus.slow \in SUBSET SyncTypes /\ zaurus.anchored \in BOOLEAN
  BY DEF ZTypeOK, ZStore
<1>3. \A s \in SUBSET SyncTypes, b \in BOOLEAN :
        Msg(ReplyTo[m.type], "unset", s, b) \in Message
  BY <1>1, MsgType DEF AnySyncType
<1>4. Plain(ReplyTo[m.type]) \in Message
  BY <1>1, PlainType
<1> QED
  BY <1>2, <1>3, <1>4 DEF Replies

\* A step of the Zaurus that only moves it to another place.
LEMMA ZGotoStep ==
    ASSUME ZInv, ChanTypeOK', NEW p \in ZSendPcs \cup ZWaitPcs, ZGoto(p),
           p \in {"rep_wait", "rep_send"} => zreq.type \in RequestTypes,
           p # "ack_send"
    PROVE  ZInv'
BY DEF ZInv, ZTypeOK, ZShape, ZGoto, ZSendPcs, ZWaitPcs

LEMMA ZHangUpStep == ASSUME ZTypeOK, ZHangUp PROVE ZTypeOK' /\ ZShape'
BY NoMsgType DEF ZTypeOK, ZShape, ZHangUp

LEMMA DeviceKeepsType ==
    ASSUME ZInv, Device
    PROVE  ZInv'
<1> USE DEF ZInv
<1>a. {"ACK", "RQST", "ABRT", "ANG"} \subseteq MsgTypes /\ Misplaced \subseteq MsgTypes
  BY DEF MsgTypes, CommonTypes, ReplyTypes, Misplaced
<1>b. \A t \in {"ACK", "RQST", "ABRT", "ANG"} \cup Misplaced : Plain(t) \in Message
  BY <1>a, PlainType
<1>1. CASE ZRecvRequest
  <2>1. ChanTypeOK' /\ Head(toZ) \in Message
    BY <1>1, RecvType DEF ZRecvRequest
  <2> QED
    BY <1>1, <2>1 DEF ZRecvRequest, ZTypeOK, ZShape, ZSendPcs
<1>2. CASE ZRecvBye
  <2>1. toZ # <<>> /\ conn' = "lost" /\ toZ' = Tail(toZ) /\ toD' = toD
    BY <1>2 DEF ZRecvBye, Arrived
  <2>2. ChanTypeOK'
    BY <2>1, HeadTailProperties DEF ChanTypeOK, ConnStates
  <2> QED
    BY <1>2, <2>2, ZHangUpStep DEF ZRecvBye
<1>3. CASE ZSendAck
  <2>1. ChanTypeOK'
    BY <1>3, <1>b, SendType DEF ZSendAck
  <2>2. zreq.type \in RequestTypes /\ ZGoto("rep_wait")
    BY <1>3 DEF ZSendAck, ZShape
  <2> QED
    BY <2>1, <2>2, ZGotoStep DEF ZWaitPcs
<1>4. CASE ZRecvRqst
  <2>1. ChanTypeOK'
    BY <1>4, RecvType DEF ZRecvRqst
  <2>2. CASE zpc = "rep_wait" /\ ZGoto("rep_send")
    BY <2>1, <2>2, ZGotoStep DEF ZShape, ZSendPcs
  <2>3. CASE zpc = "ang_wait" /\ ZGoto("ang_send")
    BY <2>1, <2>3, ZGotoStep DEF ZSendPcs
  <2> QED
    BY <1>4, <2>2, <2>3 DEF ZRecvRqst
<1>5. CASE ZReply
  <2>1. zreq \in Message /\ zreq.type \in RequestTypes /\ zreq.sync \in AnySyncType
    BY <1>5 DEF ZReply, ZTypeOK, ZShape, Message
  <2>2. ChanTypeOK'
    BY <1>5, <2>1, RepliesType, SendType DEF ZReply
  <2>3. ses' \in ZSession
    BY <1>5, <2>1 DEF ZReply, Served, ZTypeOK, ZSession, ZStore
  <2>4. zaurus' \in ZStore
    BY <1>5, <2>1 DEF ZReply, Served, ZTypeOK, ZStore
  <2> QED
    BY <1>5, <2>2, <2>3, <2>4 DEF ZReply, ZTypeOK, ZShape, ZWaitPcs
<1>6. CASE ZAbort
  <2>1. ChanTypeOK' /\ ZGoto("ang_wait")
    BY <1>6, <1>b, SendType DEF ZAbort
  <2> QED
    BY <2>1, ZGotoStep DEF ZWaitPcs
<1>7. CASE ZSendAng
  <2>1. ChanTypeOK' /\ ZGoto("ack_wait")
    BY <1>7, <1>b, SendType DEF ZSendAng
  <2> QED
    BY <2>1, ZGotoStep DEF ZWaitPcs
<1>8. CASE ZRecvAck
  <2>1. ChanTypeOK' /\ ZGoto("rqst_send")
    BY <1>8, RecvType DEF ZRecvAck
  <2> QED
    BY <2>1, ZGotoStep DEF ZSendPcs
<1>9. CASE ZSendRqst
  <2>1. ChanTypeOK' /\ ZGoto("req_wait")
    BY <1>9, <1>b, SendType DEF ZSendRqst
  <2> QED
    BY <2>1, ZGotoStep DEF ZWaitPcs
<1>10. CASE ZOdd
  <2>1. ChanTypeOK' /\ (ZGoto("ang_wait") \/ ZGoto("ack_wait"))
    BY <1>10, <1>b, SendType DEF ZOdd
  <2> QED
    BY <2>1, ZGotoStep DEF ZWaitPcs
<1> QED
  BY <1>1, <1>2, <1>3, <1>4, <1>5, <1>6, <1>7, <1>8, <1>9, <1>10 DEF Device

-----------------------------------------------------------------------------
(***************************************************************************)
(* Type correctness of the whole.                                          *)
(***************************************************************************)
LEMMA TypedInit == Init => Typed
<1> SUFFICES ASSUME Init PROVE Typed
  OBVIOUS
<1> USE DEF Init
<1>1. ChanTypeOK
  BY DEF ChanInit, ChanTypeOK, ConnStates
<1>2. DeskTypeOK /\ DeskShape
  <2>1. env \in Env
    BY DEF DeskInit, Env, AnySyncType, Passcodes
  <2>2. ret \in [call: Calls \cup {"none"}, code: RetCodes]
    BY DEF DeskInit, NoReturn, RetCodes
  <2> QED
    BY <2>1, <2>2, NoMsgType DEF DeskInit, DeskTypeOK, DeskShape, Pcs, ByePcs, DataCalls
<1>3. ZTypeOK /\ ZShape
  BY NoMsgType, ZaurusAssumption
     DEF ZInit, ZTypeOK, ZShape, ZStore, ZSession, NewSession, AnySyncType
<1>4. sessions \in 0..MaxSessions /\ drops \in 0..MaxDrops
  BY BoundAssumption
<1> QED
  BY <1>1, <1>2, <1>3, <1>4 DEF Typed, TypeOK

LEMMA TypedStep ==
    ASSUME Typed, [Next]_vars
    PROVE  Typed'
<1> USE DEF Typed, TypeOK
<1>e. <<>> \in Seq(Message)
  BY EmptySeq
<1>1. CASE StartSession
  <2>0. ChanTypeOK'
    BY <1>1, <1>e DEF StartSession, Connect, ChanTypeOK, ConnStates
  <2>1. DeskTypeOK' /\ DeskShape'
    <3>1. ret' \in [call: Calls \cup {"none"}, code: RetCodes]
      BY <1>1 DEF StartSession, Connect, NoReturn, RetCodes
    <3> QED
      BY <1>1, <3>1 DEF StartSession, Connect, InitiateReady, Idle, DeskTypeOK,
           DeskShape, Calls, DataCalls, Fns, InitiateFns, Pcs, GreetPcs, ByePcs
  <2>2. ZTypeOK' /\ ZShape'
    BY <1>1, NoMsgType
       DEF StartSession, ZAccept, ZTypeOK, ZShape, ZWaitPcs, NewSession, ZSession,
           AnySyncType
  <2>3. sessions' \in 0..MaxSessions /\ drops' \in 0..MaxDrops
    BY <1>1, BoundAssumption DEF StartSession
  <2> QED
    BY <2>0, <2>1, <2>2, <2>3
<1>2. CASE FailToConnect
  <2>1. ChanTypeOK'
    BY <1>2, <1>e DEF FailToConnect, ConnectFails, ChanTypeOK, ConnStates, chanVars
  <2>2. DeskTypeOK' /\ DeskShape'
    BY <1>2, ReturnStep
       DEF FailToConnect, ConnectFails, DeskTypeOK, Calls, RetCodes
  <2>3. ZTypeOK' /\ ZShape'
    BY <1>2, ZHangUpStep DEF FailToConnect, ZTypeOK, ZShape, zVars
  <2> QED
    BY <1>2, <2>1, <2>2, <2>3 DEF FailToConnect
<1>3. CASE Drop
  <2>1. ChanTypeOK'
    BY <1>3, <1>e DEF Drop, ChanTypeOK, ConnStates
  <2>2. DeskTypeOK' /\ DeskShape'
    BY <1>3 DEF Drop, deskVars, DeskTypeOK, DeskShape
  <2>3. ZTypeOK' /\ ZShape'
    BY <1>3, ZHangUpStep DEF Drop
  <2>4. sessions' \in 0..MaxSessions /\ drops' \in 0..MaxDrops
    BY <1>3, BoundAssumption DEF Drop
  <2> QED
    BY <2>1, <2>2, <2>3, <2>4
<1>4. CASE DesktopStep
  <2>1. DeskInv'
    BY <1>4, ProgramStep, LibraryKeepsType DEF DesktopStep, DeskInv
  <2> QED
    BY <1>4, <2>1 DEF DesktopStep, DeskInv, zVars, ZTypeOK, ZShape
<1>5. CASE DeviceStep
  <2>1. ZInv'
    BY <1>5, DeviceKeepsType DEF DeviceStep, ZInv
  <2>2. conn # "none" => conn' # "none"
    BY <1>5 DEF DeviceStep, Device, ZRecvRequest, ZRecvBye, ZSendAck, ZRecvRqst,
         ZReply, ZAbort, ZSendAng, ZRecvAck, ZSendRqst, ZOdd, SendToDesktop,
         RecvFromDesktop
  <2>3. DeskTypeOK' /\ DeskShape'
    BY <1>5, <2>2 DEF DeviceStep, deskVars, DeskTypeOK, DeskShape
  <2> QED
    BY <1>5, <2>1, <2>3 DEF DeviceStep, ZInv
<1>6. CASE UserStep
  BY <1>6 DEF UserStep, UserLocks, UserClearsState, deskVars, chanVars, ChanTypeOK,
       DeskTypeOK, DeskShape, ZTypeOK, ZShape, ZStore
<1>7. CASE UNCHANGED vars
  BY <1>7 DEF vars, deskVars, chanVars, zVars, ChanTypeOK, DeskTypeOK, DeskShape,
       ZTypeOK, ZShape
<1> QED
  BY <1>1, <1>2, <1>3, <1>4, <1>5, <1>6, <1>7 DEF Next

\* Every variable keeps its type, and the control points of both ends agree
\* with the variables around them, through any sequence of calls, failures and
\* reconnections.
THEOREM TypeCorrect == Spec => []TypeOK
<1>1. Init => Typed
  BY TypedInit
<1>2. Typed /\ [Next]_vars => Typed'
  BY TypedStep
<1>3. Typed => TypeOK
  BY DEF Typed
<1> QED
  BY <1>1, <1>2, <1>3, PTL DEF Spec

-----------------------------------------------------------------------------
(***************************************************************************)
(* The right to send.                                                      *)
(***************************************************************************)
\* A stream of at most one message is empty after a receive, and an empty one
\* holds one message after a send.
LEMMA ShortStream ==
    ASSUME NEW s \in Seq(Message)
    PROVE  /\ Len(s) = 0 <=> s = <<>>
           /\ s # <<>> /\ Len(s) <= 1 => Tail(s) = <<>>
           /\ \A m \in Message : s = <<>> => Len(Append(s, m)) = 1
           /\ Len(<<>>) = 0
<1>1. s # <<>> => Len(s) \in Nat \ {0}
  BY EmptySeq
<1>2. ASSUME s # <<>>, Len(s) <= 1 PROVE Tail(s) = <<>>
  <2>1. Tail(s) \in Seq(Message) /\ Len(Tail(s)) = Len(s) - 1
    BY <1>2, HeadTailProperties
  <2>2. Len(Tail(s)) = 0
    BY <1>1, <1>2, <2>1
  <2> QED
    BY <2>1, <2>2, EmptySeq
<1>3. ASSUME NEW m \in Message, s = <<>> PROVE Len(Append(s, m)) = 1
  BY <1>3, AppendProperties, EmptySeq
<1> QED
  BY <1>1, <1>2, <1>3, EmptySeq

\* An end that sends in its turn gives it away.
LEMMA DeskSends ==
    ASSUME Turns, ChanTypeOK, DeskTurn, NEW m \in Message, SendToZaurus(m),
           ~DeskTurn', zpc' = zpc
    PROVE  Turns'
BY ShortStream DEF Turns, ChanTypeOK, SendToZaurus, ZTurn

LEMMA ZSends ==
    ASSUME Turns, ChanTypeOK, ZTurn, NEW m \in Message, SendToDesktop(m),
           ~ZTurn', pc' = pc
    PROVE  Turns'
BY ShortStream DEF Turns, ChanTypeOK, SendToDesktop, DeskTurn

\* An end that receives may take the turn that came with the message.
LEMMA DeskReceives ==
    ASSUME Turns, ChanTypeOK, RecvFromZaurus, zpc' = zpc
    PROVE  Turns'
BY ShortStream DEF Turns, ChanTypeOK, RecvFromZaurus, ZTurn

LEMMA ZReceives ==
    ASSUME Turns, ChanTypeOK, RecvFromDesktop, pc' = pc
    PROVE  Turns'
BY ShortStream DEF Turns, ChanTypeOK, RecvFromDesktop, DeskTurn

\* An end that does neither may only lose its turn.
LEMMA DeskIsQuiet ==
    ASSUME Turns, UNCHANGED chanVars, ~DeskTurn', zpc' = zpc
    PROVE  Turns'
BY DEF Turns, chanVars, ZTurn

LEMMA DesktopKeepsTurns ==
    ASSUME Typed, Turns, Program \/ Library, zpc' = zpc
    PROVE  Turns'
<1>a. ChanTypeOK /\ DeskInv
  BY DEF Typed, TypeOK, DeskInv
<1>b. Plain("RAY") \in Message /\ Plain("RQST") \in Message /\ Plain("ACK") \in Message
  BY PlainType DEF MsgTypes, CommonTypes, RequestTypes
<1>1. CASE Program
  <2>1. pc = "idle" /\ UNCHANGED chanVars /\ pc' \in {"idle", "ws_rqst"}
    BY <1>1 DEF Program, SetSyncType, SetZaurusIp, SetPasscode, InitiateUnset,
         BeginCall, ItemOfOtherType, Idle, ReturnFrom
  <2> QED
    BY <2>1, DeskIsQuiet DEF DeskTurn
<1>2. CASE GreetSend \/ WsSend \/ WrRqst
  <2>1. \E m \in Message : SendToZaurus(m)
    <3>1. CASE WsSend
      BY <3>1, <1>a, InCall, RequestMsgType DEF WsSend
    <3> QED
      BY <1>2, <1>b, <3>1 DEF GreetSend, WrRqst
  <2>2. DeskTurn /\ ~DeskTurn'
    BY <1>2 DEF GreetSend, WsSend, WrRqst, Goto, DeskTurn
  <2> QED
    BY <1>a, <2>1, <2>2, DeskSends
<1>3. CASE GreetAck \/ WsRqst \/ WsAck \/ ByeRqst \/ WrMsg \/ WrAbrt
           \/ UnexpectedCommon \/ UnexpectedGeneral \/ RecvDiscards
  <2>1. RecvFromZaurus
    BY <1>3 DEF GreetAck, WsRqst, WsAck, ByeRqst, WrMsg, WrAbrt,
         UnexpectedCommon, UnexpectedGeneral, RecvDiscards
  <2> QED
    BY <1>a, <2>1, DeskReceives
<1>4. CASE WrAckAccepted \/ WrAckRejected \/ WrAckUnusable \/ ByeSend
  <2>1. SendToZaurus(Plain("ACK")) \/ SendToZaurus(Plain("RAY"))
    BY <1>4 DEF WrAckAccepted, WrAckRejected, WrAckUnusable, ByeSend
  <2>2. DeskTurn
    BY <1>4 DEF WrAckAccepted, WrAckRejected, WrAckUnusable, ByeSend, DeskTurn
  <2>3. pc' \in {"idle", "ws_rqst", "bye_rqst"}
    BY <1>4 DEF WrAckAccepted, WrAckRejected, WrAckUnusable, ByeSend, Return,
         ReturnFrom, Enter
  <2> QED
    BY <1>a, <1>b, <2>1, <2>2, <2>3, DeskSends DEF DeskTurn
<1>5. CASE RecvBroken \/ SendFails \/ AuthNoMemory
  <2>1. UNCHANGED chanVars /\ pc' = "idle"
    BY <1>5 DEF RecvBroken, SendFails, AuthNoMemory, Return, ReturnFrom
  <2> QED
    BY <2>1, DeskIsQuiet DEF DeskTurn
<1> QED
  BY <1>1, <1>2, <1>3, <1>4, <1>5 DEF Library

LEMMA DeviceKeepsTurns ==
    ASSUME Typed, Turns, Device, pc' = pc
    PROVE  Turns'
<1>a. ChanTypeOK /\ ZTypeOK /\ ZShape
  BY DEF Typed, TypeOK
<1>b. \A t \in {"ACK", "RQST", "ABRT", "ANG"} \cup Misplaced : Plain(t) \in Message
  BY PlainType DEF MsgTypes, CommonTypes, ReplyTypes, Misplaced
<1>1. CASE ZRecvRequest \/ ZRecvRqst \/ ZRecvAck
  BY <1>1, <1>a, ZReceives DEF ZRecvRequest, ZRecvRqst, ZRecvAck
<1>2. CASE ZRecvBye
  <2>1. toZ # <<>> /\ toZ' = Tail(toZ) /\ toD' = toD /\ conn = "up"
        /\ conn' = "lost" /\ zpc' = "off"
    BY <1>2 DEF ZRecvBye, Arrived, ZHangUp
  <2> QED
    BY <2>1, <1>a, ShortStream DEF Turns, ChanTypeOK
<1>3. CASE ZSendAck \/ ZAbort \/ ZSendAng \/ ZSendRqst \/ ZOdd
  <2>1. \E m \in Message : SendToDesktop(m)
    BY <1>3, <1>b DEF ZSendAck, ZAbort, ZSendAng, ZSendRqst, ZOdd
  <2>2. ZTurn /\ ~ZTurn'
    BY <1>3 DEF ZSendAck, ZAbort, ZSendAng, ZSendRqst, ZOdd, ZGoto, ZTurn, ZSendPcs
  <2> QED
    BY <1>a, <2>1, <2>2, ZSends
<1>4. CASE ZReply
  <2>1. \E m \in Message : SendToDesktop(m)
    BY <1>4, <1>a, RepliesType DEF ZReply, ZTypeOK, ZShape
  <2>2. ZTurn /\ ~ZTurn'
    BY <1>4 DEF ZReply, ZTurn, ZSendPcs
  <2> QED
    BY <1>a, <2>1, <2>2, ZSends
<1> QED
  BY <1>1, <1>2, <1>3, <1>4 DEF Device

LEMMA TurnsStep ==
    ASSUME Typed, Turns, [Next]_vars
    PROVE  Turns'
<1>e. Len(<<>>) = 0
  BY EmptySeq
<1>1. CASE StartSession
  BY <1>1, <1>e DEF StartSession, Connect, ZAccept, Turns, ZTurn, ZSendPcs
<1>2. CASE FailToConnect
  <2>1. CASE UNCHANGED chanVars
    <3>1. ~DeskTurn' /\ zpc' = zpc
      BY <1>2, <2>1
         DEF FailToConnect, ConnectFails, ReturnFrom, DeskTurn, chanVars, zVars,
             ZHangUp, Turns
    <3> QED
      BY <2>1, <3>1, DeskIsQuiet
  <2>2. CASE conn' = "lost" /\ toZ' = <<>> /\ toD' = <<>>
    BY <1>2, <2>2, <1>e DEF FailToConnect, ZHangUp, Turns
  <2> QED
    BY <1>2, <2>1, <2>2 DEF FailToConnect, ConnectFails
<1>3. CASE Drop
  BY <1>3, <1>e DEF Drop, ZHangUp, Turns
<1>4. CASE DesktopStep
  BY <1>4, DesktopKeepsTurns DEF DesktopStep, zVars
<1>5. CASE DeviceStep
  BY <1>5, DeviceKeepsTurns DEF DeviceStep, deskVars
<1>6. CASE UserStep
  BY <1>6 DEF UserStep, UserLocks, UserClearsState, Turns, DeskTurn, ZTurn, deskVars,
       chanVars
<1>7. CASE UNCHANGED vars
  BY <1>7 DEF vars, deskVars, chanVars, zVars, Turns, DeskTurn, ZTurn
<1> QED
  BY <1>1, <1>2, <1>3, <1>4, <1>5, <1>6, <1>7 DEF Next

\* At most one message is in flight, in the two directions together.
THEOREM Alternation == Spec => []HalfDuplex
<1>1. Init => Typed /\ Turns
  <2>1. Init => Turns
    BY EmptySeq DEF Init, ChanInit, ZInit, Turns
  <2> QED
    BY <2>1, TypedInit
<1>2. Typed /\ Turns /\ [Next]_vars => Typed' /\ Turns'
  BY TypedStep, TurnsStep
<1>3. Typed /\ Turns => HalfDuplex
  <2> SUFFICES ASSUME Typed, Turns PROVE HalfDuplex
    OBVIOUS
  <2>1. toZ \in Seq(Message) /\ toD \in Seq(Message)
    BY DEF Typed, TypeOK, ChanTypeOK
  <2>2. toZ = <<>> \/ toD = <<>>
    BY DEF Turns
  <2>3. Len(toZ) \in Nat /\ Len(toD) \in Nat
    BY <2>1, LenProperties
  <2> QED
    BY <2>2, <2>3, EmptySeq DEF Turns, HalfDuplex
<1> QED
  BY <1>1, <1>2, <1>3, PTL DEF Spec

-----------------------------------------------------------------------------
(***************************************************************************)
(* The two ends in step.                                                   *)
(***************************************************************************)
\* The greeting is the only RAY and terminate the only RQT.
LEMMA RequestNames ==
    ASSUME NEW f \in Fns, NEW e \in Env
    PROVE  /\ RequestMsg(f, e).type = RequestOf[f]
           /\ RequestOf[f] \in RequestTypes
           /\ RequestOf[f] = "RAY" <=> f = "greet"
           /\ RequestOf[f] = "RQT" <=> f = "terminate"
BY DEF RequestMsg, Msg, RequestOf, Fns, InitiateFns, DataCalls, RequestTypes

\* A message the desktop sends in its turn is alone in the streams.
LEMMA DeskSent ==
    ASSUME Typed, Turns, conn = "up", DeskTurn, NEW m \in Message, SendToZaurus(m)
    PROVE  /\ toZ = <<>> /\ toD = <<>> /\ ~ZTurn
           /\ toZ' # <<>> /\ Head(toZ') = m /\ toD' = <<>> /\ conn' = "up"
<1>1. toZ = <<>> /\ toD = <<>> /\ ~ZTurn
  BY DEF Turns
<1>2. toZ' = Append(<<>>, m) /\ toD' = <<>> /\ conn' = "up"
  BY <1>1 DEF SendToZaurus
<1> QED
  BY <1>1, <1>2

LEMMA ZSent ==
    ASSUME Typed, Turns, ZTurn, NEW m \in Message, SendToDesktop(m)
    PROVE  /\ toZ = <<>> /\ toD = <<>> /\ ~DeskTurn /\ conn = "up"
           /\ toD' # <<>> /\ Head(toD') = m /\ toZ' = <<>> /\ conn' = "up"
<1>1. toZ = <<>> /\ toD = <<>> /\ ~DeskTurn /\ conn = "up"
  BY DEF Turns, SendToDesktop
<1>2. toD' = Append(<<>>, m) /\ toZ' = <<>> /\ conn' = "up"
  BY <1>1 DEF SendToDesktop
<1> QED
  BY <1>1, <1>2

\* A message that is received was alone in the streams.
LEMMA DeskGot ==
    ASSUME Typed, Turns, conn = "up", RecvFromZaurus
    PROVE  /\ toD # <<>> /\ toZ = <<>> /\ ~ZTurn
           /\ toD' = <<>> /\ toZ' = <<>> /\ conn' = "up"
BY ShortStream DEF Typed, TypeOK, ChanTypeOK, Turns, RecvFromZaurus

LEMMA ZGot ==
    ASSUME Typed, Turns, RecvFromDesktop
    PROVE  /\ toZ # <<>> /\ toD = <<>> /\ ~DeskTurn /\ ~ZTurn /\ conn = "up"
           /\ toZ' = <<>> /\ toD' = <<>> /\ conn' = "up"
BY ShortStream DEF Typed, TypeOK, ChanTypeOK, Turns, RecvFromDesktop

\* A call that ends without another message from the desktop: after a receive,
\* or with the streams as they were.
LEMMA ReturnInStep ==
    ASSUME Typed, Turns, InStep, conn = "up", pc # "idle", NEW code, Return(code),
           UNCHANGED zVars,
           RecvFromZaurus \/ (UNCHANGED chanVars /\ (DeskTurn \/ pc = "ws_rqst"))
    PROVE  InStep'
<1>1. /\ pc' = "idle" /\ call' = "none" /\ fn' = "none"
      /\ zpc' = zpc /\ zreq' = zreq /\ ~DeskTurn'
  BY DEF Return, ReturnFrom, zVars, DeskTurn
<1>2. toZ' = toZ /\ (toD' = <<>> \/ toD' = toD) /\ ZTurn' = ZTurn
  BY <1>1, DeskGot DEF chanVars, ZTurn
<1>3. pc # "ws_rqst" \/ RecvFromZaurus => toZ' = <<>> /\ toD' = <<>> /\ ~ZTurn
  BY <1>2, DeskGot DEF Turns, chanVars
<1>4. SendPartner' /\ InTerminate' /\ (pc' \in SendPcs => fn' # "greet")
  BY <1>1 DEF SendPartner, InTerminate, SendPcs
<1>5. StreamPartner' /\ DeviceNotSurprised'
  BY <1>1, <1>2 DEF InStep, StreamPartner, DeviceNotSurprised, Awaited
<1>6. AfterRqt'
  <2>1. CASE pc # "ws_rqst" \/ RecvFromZaurus
    BY <2>1, <1>1, <1>2, <1>3 DEF AfterRqt
  <2>2. CASE pc = "ws_rqst" /\ UNCHANGED chanVars
    BY <2>2, <1>1, <1>2 DEF InStep, AfterRqt, chanVars
  <2> QED
    BY <2>1, <2>2
<1> QED
  BY <1>1, <1>4, <1>5, <1>6 DEF InStep

\* A message the desktop sends arrives where it is awaited, and the desktop
\* goes on to a receive.
LEMMA LibraryInStep ==
    ASSUME Typed, Turns, InStep, conn = "up", Library, UNCHANGED zVars
    PROVE  InStep'
<1>0. pc # "idle"
  BY DEF Library, GreetSend, GreetAck, WsRqst, WsSend, WsAck, WrRqst, WrMsg,
         WrAbrt, WrAckAccepted, WrAckRejected, WrAckUnusable, ByeRqst, ByeSend,
         UnexpectedCommon, UnexpectedGeneral, RecvBroken, RecvDiscards,
         SendFails, AuthNoMemory, SendPcs, RecvPcs, GreetPcs, ByePcs
<1>a. call \in Calls /\ fn \in Fns /\ env \in Env
  BY <1>0, InCall DEF Typed, TypeOK, DeskInv
<1>b. /\ Plain("RAY") \in Message /\ Plain("RAY").type = "RAY"
      /\ Plain("RQST") \in Message /\ Plain("RQST").type = "RQST"
      /\ Plain("ACK") \in Message /\ Plain("ACK").type = "ACK"
  BY PlainType DEF MsgTypes, CommonTypes, RequestTypes, Plain, Msg
<1>c. zpc' = zpc /\ zreq' = zreq /\ ZTurn' = ZTurn
  BY DEF zVars, ZTurn
<1>d. fn = "terminate" <=> call = "terminate"
  BY <1>0 DEF Typed, DeskShape, InitiateFns, TypeOK, DeskTypeOK, Calls, DataCalls
<1>1. CASE GreetSend
  <2>1. /\ pc = "greet_send" /\ pc' = "greet_ack" /\ call' = call /\ DeskTurn
        /\ SendToZaurus(Plain("RAY"))
    BY <1>1 DEF GreetSend, Goto, DeskTurn
  <2>2. toZ' # <<>> /\ Head(toZ').type = "RAY" /\ toD' = <<>>
    BY <2>1, <1>b, DeskSent
  <2>3. zpc = "req_wait" /\ zreq.type = "none" /\ call # "terminate"
    BY <2>1, <1>c DEF InStep, SendPartner, InTerminate
  <2> QED
    BY <2>1, <2>2, <2>3, <1>c
       DEF InStep, SendPartner, StreamPartner, AfterRqt, InTerminate,
           DeviceNotSurprised, Awaited, SendPcs
<1>2. CASE WsSend
  <2>1. /\ pc = "ws_send" /\ pc' = "ws_ack" /\ call' = call /\ fn' = fn /\ DeskTurn
        /\ SendToZaurus(RequestMsg(fn, env))
    BY <1>2 DEF WsSend, Goto, DeskTurn
  <2>2. /\ toZ' # <<>> /\ Head(toZ').type = RequestOf[fn] /\ toD' = <<>>
    BY <2>1, <1>a, RequestMsgType, RequestNames, DeskSent
  <2>3. zpc = "req_wait" /\ zreq.type \notin {"none", "RQT"} /\ fn # "greet"
    BY <2>1 DEF InStep, SendPartner, SendPcs
  <2>4. /\ RequestOf[fn] \in RequestTypes \ {"RAY"}
        /\ RequestOf[fn] = "RQT" <=> call = "terminate"
    BY <2>3, <1>a, <1>d, RequestNames
  <2> QED
    BY <2>1, <2>2, <2>3, <2>4, <1>c
       DEF InStep, SendPartner, StreamPartner, AfterRqt, InTerminate,
           DeviceNotSurprised, Awaited, SendPcs
<1>3. CASE WrRqst
  <2>1. /\ pc = "wr_rqst" /\ pc' = "wr_msg" /\ call' = call /\ DeskTurn
        /\ SendToZaurus(Plain("RQST"))
    BY <1>3 DEF WrRqst, Goto, DeskTurn
  <2>2. toZ = <<>> /\ toZ' # <<>> /\ Head(toZ').type = "RQST" /\ toD' = <<>>
    BY <2>1, <1>b, DeskSent
  <2>3. zpc \in {"rep_wait", "ang_wait"}
    BY <2>1 DEF InStep, SendPartner
  <2> QED
    BY <2>1, <2>2, <2>3, <1>c
       DEF InStep, SendPartner, StreamPartner, AfterRqt, InTerminate,
           DeviceNotSurprised, Awaited, SendPcs
<1>4. CASE GreetAck \/ WsAck
  <2>1. /\ pc \in {"greet_ack", "ws_ack"} /\ pc' = "wr_rqst" /\ call' = call
        /\ Head(toD).type = "ACK" /\ RecvFromZaurus
    BY <1>4 DEF GreetAck, WsAck, Goto, Arrived
  <2>2. toZ = <<>> /\ toD # <<>> /\ toD' = <<>> /\ toZ' = <<>>
    BY <2>1, DeskGot
  <2>3. zpc = "rep_wait"
    BY <2>1, <2>2 DEF InStep, StreamPartner
  <2> QED
    BY <2>1, <2>2, <2>3, <1>c
       DEF InStep, SendPartner, StreamPartner, AfterRqt, InTerminate,
           DeviceNotSurprised, SendPcs
<1>5. CASE WsRqst
  <2>1. /\ pc = "ws_rqst" /\ pc' = "ws_send" /\ call' = call /\ fn' = fn
        /\ Head(toD).type = "RQST" /\ RecvFromZaurus
    BY <1>5 DEF WsRqst, Goto, Arrived
  <2>2. toZ = <<>> /\ toD # <<>> /\ toD' = <<>> /\ toZ' = <<>>
    BY <2>1, DeskGot
  <2>3. zpc = "req_wait" /\ zreq.type \notin {"none", "RQT"}
    BY <2>1, <2>2 DEF InStep, StreamPartner, AfterRqt
  <2> QED
    BY <2>1, <2>2, <2>3, <1>c
       DEF InStep, SendPartner, StreamPartner, AfterRqt, InTerminate,
           DeviceNotSurprised, SendPcs
<1>6. CASE ByeRqst
  <2>1. /\ pc = "bye_rqst" /\ pc' = "bye_send" /\ call' = call
        /\ Head(toD).type = "RQST" /\ RecvFromZaurus /\ call = "terminate"
    BY <1>6 DEF ByeRqst, Goto, Arrived, Typed, DeskShape, ByePcs
  <2>2. toZ = <<>> /\ toD # <<>> /\ toD' = <<>> /\ toZ' = <<>>
    BY <2>1, DeskGot
  <2>3. zpc = "req_wait" /\ zreq.type = "RQT"
    BY <2>1, <2>2 DEF InStep, StreamPartner, InTerminate
  <2> QED
    BY <2>1, <2>2, <2>3, <1>c
       DEF InStep, SendPartner, StreamPartner, AfterRqt, InTerminate,
           DeviceNotSurprised, SendPcs
<1>7. CASE WrMsg
  <2>1. /\ pc = "wr_msg" /\ pc' = "wr_ack" /\ call' = call
        /\ Head(toD).type \notin CommonTypes /\ RecvFromZaurus
    BY <1>7 DEF WrMsg, IsCommon
  <2>2. toZ = <<>> /\ toD # <<>> /\ toD' = <<>> /\ toZ' = <<>>
    BY <2>1, DeskGot
  <2>3. zpc = "ack_wait"
    BY <2>1, <2>2 DEF InStep, StreamPartner, CommonTypes
  <2> QED
    BY <2>1, <2>2, <2>3, <1>c
       DEF InStep, SendPartner, StreamPartner, AfterRqt, InTerminate,
           DeviceNotSurprised, SendPcs
<1>8. CASE WrAbrt
  <2>1. /\ pc = "wr_msg" /\ pc' = "wr_rqst" /\ call' = call
        /\ Head(toD).type = "ABRT" /\ RecvFromZaurus
    BY <1>8 DEF WrAbrt, Arrived
  <2>2. toZ = <<>> /\ toD # <<>> /\ toD' = <<>> /\ toZ' = <<>>
    BY <2>1, DeskGot
  <2>3. zpc = "ang_wait"
    BY <2>1, <2>2 DEF InStep, StreamPartner
  <2> QED
    BY <2>1, <2>2, <2>3, <1>c
       DEF InStep, SendPartner, StreamPartner, AfterRqt, InTerminate,
           DeviceNotSurprised, SendPcs
\* The ACK of a reply: the next function, the goodbye, or a return.
<1>9. CASE WrAckAccepted \/ WrAckRejected \/ WrAckUnusable
  <2>1. pc = "wr_ack" /\ DeskTurn /\ SendToZaurus(Plain("ACK"))
    BY <1>9 DEF WrAckAccepted, WrAckRejected, WrAckUnusable, DeskTurn
  <2>2. /\ toZ = <<>> /\ toZ' # <<>> /\ Head(toZ').type = "ACK" /\ toD' = <<>>
    BY <2>1, <1>b, DeskSent
  <2>3. zpc = "ack_wait"
    BY <2>1 DEF InStep, SendPartner
  <2>4. \/ /\ call = "terminate" /\ call' = call /\ pc' = "bye_rqst"
        \/ /\ call # "terminate" /\ pc' \in {"idle", "ws_rqst"}
           /\ call' # "terminate" /\ fn' # "greet"
    <3>1. CASE WrAckAccepted /\ call = "initiate"
      <4>1. fn \in InitiateFns /\ Learn(env, fn, rmsg) \in Env
        BY <3>1, <1>a, LearnType DEF Typed, TypeOK, DeskTypeOK, DeskShape
      <4> DEFINE next == NextStep(fn, Learn(env, fn, rmsg))
      <4>2. next # "greet"
        BY <4>1 DEF NextStep, AfterAuthState, BeforeAnchor, AfterAnchor,
             ParamFormat, InitiateFns
      <4>3. Enter(next) \/ \E code : Return(code)
        BY <3>1 DEF WrAckAccepted, DataCalls
      <4> HIDE DEF next
      <4> QED
        BY <3>1, <4>2, <4>3 DEF Enter, Return, ReturnFrom
    <3>2. CASE WrAckAccepted /\ call # "initiate"
      BY <3>2 DEF WrAckAccepted, Return, ReturnFrom, DataCalls
    <3>3. CASE WrAckRejected \/ WrAckUnusable
      <4>1. fn # "terminate"
        BY <3>3 DEF WrAckRejected, WrAckUnusable, Accepts
      <4> QED
        BY <3>3, <4>1, <1>d DEF WrAckRejected, WrAckUnusable, Return, ReturnFrom
    <3> QED
      BY <1>9, <3>1, <3>2, <3>3
  <2>5. zreq.type = "RQT" <=> call = "terminate"
    BY <2>1 DEF InStep, AfterRqt, InTerminate
  <2> QED
    BY <2>2, <2>3, <2>4, <2>5, <1>c
       DEF InStep, SendPartner, StreamPartner, AfterRqt, InTerminate,
           DeviceNotSurprised, Awaited, SendPcs
<1>10. CASE ByeSend
  <2>1. /\ pc = "bye_send" /\ DeskTurn /\ SendToZaurus(Plain("RAY"))
        /\ pc' = "idle" /\ call' = "none" /\ fn' = "none"
    BY <1>10 DEF ByeSend, DeskTurn, Return, ReturnFrom
  <2>2. toZ' # <<>> /\ Head(toZ').type = "RAY" /\ toD' = <<>> /\ ~ZTurn
    BY <2>1, <1>b, DeskSent
  <2>3. zpc = "req_wait" /\ zreq.type = "RQT"
    BY <2>1 DEF InStep, SendPartner
  <2> QED
    BY <2>1, <2>2, <2>3, <1>c
       DEF InStep, SendPartner, StreamPartner, AfterRqt, InTerminate,
           DeviceNotSurprised, Awaited, SendPcs
\* The error returns.
<1>11. CASE UnexpectedCommon \/ UnexpectedGeneral \/ RecvDiscards
  <2>1. RecvFromZaurus /\ \E code : Return(code)
    BY <1>11 DEF UnexpectedCommon, UnexpectedGeneral, RecvDiscards
  <2> QED
    BY <2>1, <1>0, ReturnInStep
<1>12. CASE SendFails \/ AuthNoMemory
  <2>1. /\ UNCHANGED chanVars /\ \E code : Return(code)
        /\ DeskTurn \/ pc = "ws_rqst"
    BY <1>12 DEF SendFails, AuthNoMemory, DeskTurn
  <2> QED
    BY <2>1, <1>0, ReturnInStep
<1>13. ~RecvBroken
  BY DEF RecvBroken
<1> QED
  BY <1>1, <1>2, <1>3, <1>4, <1>5, <1>6, <1>7, <1>8, <1>9, <1>10, <1>11, <1>12,
     <1>13 DEF Library

\* A reply has the type its request is meant to have.
LEMMA ReplyName ==
    ASSUME NEW q, NEW m \in Replies(q)
    PROVE  m.type = ReplyTo[q.type]
<1>1. \A t, y, s, b : Msg(t, y, s, b).type = t
  BY DEF Msg
<1>2. \A t : Plain(t).type = t
  BY <1>1 DEF Plain
<1>3. CASE ReplyTo[q.type] = "AIG"
  <2>1. PICK b : m = Msg(ReplyTo[q.type], "unset", {}, b)
    BY <1>3 DEF Replies
  <2> QED
    BY <2>1, <1>1
<1>4. CASE ReplyTo[q.type] = "AMG"
  <2>1. m = Msg(ReplyTo[q.type], "unset", zaurus.slow, FALSE)
    BY <1>4 DEF Replies
  <2> QED
    BY <2>1 DEF Msg
<1>5. CASE ReplyTo[q.type] = "ATG"
  <2>1. m = Msg(ReplyTo[q.type], "unset", {}, ~zaurus.anchored)
    BY <1>5 DEF Replies
  <2> QED
    BY <2>1, <1>1
<1>6. CASE ReplyTo[q.type] \notin {"AIG", "AMG", "ATG"}
  <2>1. m = Plain(ReplyTo[q.type])
    BY <1>6 DEF Replies
  <2> QED
    BY <2>1, <1>2
<1> QED
  BY <1>3, <1>4, <1>5, <1>6

\* The Zaurus's messages find the desktop with the right partner state, and
\* what it receives moves it to the next one.
LEMMA DeviceInStep ==
    ASSUME Typed, Turns, InStep, Device, conn' = "up", UNCHANGED deskVars
    PROVE  InStep'
<1>a. ZTypeOK /\ ZShape
  BY DEF Typed, TypeOK
<1>b. \A t \in {"ACK", "RQST", "ABRT", "ANG"} \cup Misplaced :
        Plain(t) \in Message /\ Plain(t).type = t
  BY PlainType DEF MsgTypes, CommonTypes, ReplyTypes, Plain, Msg, Misplaced
<1>c. pc' = pc /\ call' = call /\ fn' = fn
  BY DEF deskVars
\* What it receives.
<1>1. CASE ZRecvRequest
  <2>1. /\ toZ # <<>> /\ ~DeskTurn /\ toZ' = <<>> /\ toD' = <<>>
    BY <1>1, ZGot DEF ZRecvRequest
  <2>2. /\ zpc' = "ack_send" /\ zreq' = Head(toZ)
        /\ Head(toZ).type \in RequestTypes /\ Head(toZ).type # "none"
    BY <1>1 DEF ZRecvRequest, RequestTypes
  <2>3. zreq.type # "RQT"
    BY <1>1 DEF ZRecvRequest
  <2>4. Head(toZ).type = "RQT" <=> call = "terminate" /\ pc \notin {"ws_rqst", "ws_send"}
    BY <2>1, <2>3 DEF InStep, AfterRqt, InTerminate
  <2>5. Head(toZ).type = "RQT" => call = "terminate" /\ pc = "ws_ack"
    BY <2>1 DEF InStep, AfterRqt
  <2>6. SendPartner'
    BY <2>1, <1>c DEF SendPartner, DeskTurn
  <2>7. AfterRqt' /\ InTerminate'
    BY <2>1, <2>2, <2>4, <2>5, <1>c DEF AfterRqt, InTerminate
  <2> QED
    BY <2>1, <2>2, <2>6, <2>7, <1>c
       DEF InStep, StreamPartner, DeviceNotSurprised
<1>2. CASE ZRecvRqst \/ ZRecvAck
  <2>1. /\ toZ # <<>> /\ ~DeskTurn /\ toZ' = <<>> /\ toD' = <<>>
    BY <1>2, ZGot DEF ZRecvRqst, ZRecvAck
  <2>2. /\ zreq' = zreq /\ zpc \in {"rep_wait", "ang_wait", "ack_wait"}
        /\ zpc' \in {"rep_send", "ang_send", "rqst_send"}
        /\ Head(toZ).type \in {"RQST", "ACK"}
    BY <1>2 DEF ZRecvRqst, ZRecvAck, ZGoto, Arrived
  <2>3. SendPartner'
    BY <2>1, <1>c DEF SendPartner, DeskTurn
  <2>4. AfterRqt' /\ InTerminate'
    BY <2>1, <2>2, <1>c DEF InStep, AfterRqt, InTerminate
  <2> QED
    BY <2>1, <2>2, <2>3, <2>4, <1>c
       DEF InStep, StreamPartner, DeviceNotSurprised
<1>3. ~ZRecvBye
  BY DEF ZRecvBye
\* What it sends.
<1>4. ASSUME ZTurn, NEW m \in Message, SendToDesktop(m), zreq' = zreq,
             zreq.type \in RequestTypes,
             CASE m.type = "ACK"  -> zpc' = "rep_wait"
               [] m.type = "RQST" -> zpc' = "req_wait"
               [] m.type = "ABRT" -> zpc' = "ang_wait"
               [] OTHER           -> zpc' = "ack_wait"
      PROVE  InStep'
  <2>1. /\ toZ = <<>> /\ toD = <<>> /\ ~DeskTurn
        /\ toD' # <<>> /\ Head(toD') = m /\ toZ' = <<>>
    BY <1>4, ZSent
  <2>2. zreq.type # "none"
    BY <1>4 DEF RequestTypes
  <2>3. SendPartner' /\ DeviceNotSurprised'
    BY <2>1, <1>c DEF SendPartner, DeskTurn, DeviceNotSurprised
  <2>4. StreamPartner'
    BY <2>1, <2>2, <1>4 DEF StreamPartner
  <2>5. AfterRqt' /\ InTerminate'
    BY <2>1, <1>4, <1>c DEF InStep, AfterRqt, InTerminate
  <2> QED
    BY <2>3, <2>4, <2>5, <1>4, <1>c DEF InStep
<1>5. CASE ZSendAck \/ ZAbort \/ ZSendAng \/ ZSendRqst \/ ZOdd
  <2>1. ZTurn /\ zreq' = zreq /\ zreq.type \in RequestTypes
    BY <1>5 DEF ZSendAck, ZAbort, ZSendAng, ZSendRqst, ZOdd, ZGoto, ZTurn, ZSendPcs,
         InStep
  <2>2. \/ SendToDesktop(Plain("ACK")) /\ zpc' = "rep_wait"
        \/ SendToDesktop(Plain("RQST")) /\ zpc' = "req_wait"
        \/ SendToDesktop(Plain("ABRT")) /\ zpc' = "ang_wait"
        \/ SendToDesktop(Plain("ANG")) /\ zpc' = "ack_wait"
        \/ /\ \E t \in Misplaced : SendToDesktop(Plain(t))
           /\ zpc' = "ack_wait"
    BY <1>5 DEF ZSendAck, ZAbort, ZSendAng, ZSendRqst, ZOdd, ZGoto
  <2>3. Misplaced \cap {"ACK", "RQST", "ABRT"} = {}
    BY DEF Misplaced, ReplyTypes
  <2>4. ASSUME NEW t \in Misplaced, SendToDesktop(Plain(t)), zpc' = "ack_wait"
        PROVE  InStep'
    BY <2>1, <2>3, <2>4, <1>b, <1>4
  <2> QED
    BY <2>1, <2>2, <2>4, <1>b, <1>4
<1>6. CASE ZReply
  <2>1. /\ ZTurn /\ zreq' = zreq /\ zreq.type \in RequestTypes /\ zreq \in Message
        /\ zpc' = "ack_wait"
    BY <1>6, <1>a DEF ZReply, ZTurn, ZSendPcs, InStep, ZTypeOK
  <2>2. PICK m \in Replies(zreq) : SendToDesktop(m)
    BY <1>6 DEF ZReply
  <2>3. m \in Message
    BY <2>1, <1>a, RepliesType
  <2>4. m.type \notin CommonTypes
    <3>1. ReplyTo[zreq.type] \notin CommonTypes
      BY <2>1 DEF ReplyTo, RequestTypes, CommonTypes
    <3>2. m.type = ReplyTo[zreq.type]
      BY ReplyName
    <3> QED
      BY <3>1, <3>2
  <2> QED
    BY <2>1, <2>2, <2>3, <2>4, <1>4 DEF CommonTypes
<1> QED
  BY <1>1, <1>2, <1>3, <1>5, <1>6 DEF Device

LEMMA PairedStep ==
    ASSUME Typed, Turns, Paired, [Next]_vars
    PROVE  Paired'
<1> SUFFICES ASSUME conn' = "up" PROVE InStep'
  BY DEF Paired
<1>1. CASE StartSession
  BY <1>1 DEF StartSession, Connect, ZAccept, NoMsg, Plain, Msg, InStep, SendPartner,
       StreamPartner, AfterRqt, InTerminate, DeviceNotSurprised, SendPcs
<1>2. CASE FailToConnect
  <2>1. /\ UNCHANGED <<chanVars, zVars>> /\ pc = "idle" /\ pc' = "idle"
        /\ call' = "none" /\ fn' = "none" /\ conn = "up"
    BY <1>2 DEF FailToConnect, ConnectFails, InitiateReady, Idle, ReturnFrom, chanVars
  <2> QED
    BY <2>1 DEF Paired, InStep, SendPartner, StreamPartner, AfterRqt, InTerminate,
         DeviceNotSurprised, Awaited, SendPcs, ZTurn, chanVars, zVars
<1>3. CASE Drop
  BY <1>3 DEF Drop
<1>4. CASE DesktopStep
  <2>1. conn = "up"
    BY <1>4 DEF DesktopStep, Program, SetSyncType, SetZaurusIp, SetPasscode,
         InitiateUnset, BeginCall, ItemOfOtherType, chanVars, Library, GreetSend,
         GreetAck, WsRqst, WsSend, WsAck, WrRqst, WrMsg, WrAbrt, WrAckAccepted,
         WrAckRejected, WrAckUnusable, ByeRqst, ByeSend, UnexpectedCommon,
         UnexpectedGeneral, RecvBroken, RecvDiscards, SendFails, AuthNoMemory,
         SendToZaurus, RecvFromZaurus
  <2>2. CASE Library
    BY <1>4, <2>1, <2>2, LibraryInStep DEF DesktopStep, Paired
  <2>3. CASE Program
    <3>1. /\ UNCHANGED <<chanVars, zVars>> /\ pc = "idle"
          /\ \/ pc' = "idle" /\ call' = "none"
             \/ pc' = "ws_rqst" /\ fn' # "greet"
      BY <1>4, <2>3
         DEF DesktopStep, Program, SetSyncType, SetZaurusIp, SetPasscode,
             InitiateUnset, BeginCall, ItemOfOtherType, Idle, ReturnFrom, DataCalls,
             Typed, DeskShape
    <3> QED
      BY <2>1, <3>1
         DEF Paired, InStep, SendPartner, StreamPartner, AfterRqt, InTerminate,
             DeviceNotSurprised, Awaited, SendPcs, ZTurn, chanVars, zVars
  <2> QED
    BY <1>4, <2>2, <2>3 DEF DesktopStep
<1>5. CASE DeviceStep
  <2>1. conn = "up"
    BY <1>5 DEF DeviceStep, Device, ZRecvRequest, ZRecvBye, ZSendAck, ZRecvRqst,
         ZReply, ZAbort, ZSendAng, ZRecvAck, ZSendRqst, ZOdd, SendToDesktop,
         RecvFromDesktop
  <2> QED
    BY <1>5, <2>1, DeviceInStep DEF DeviceStep, Paired
<1>6. CASE UserStep
  BY <1>6 DEF UserStep, UserLocks, UserClearsState, Paired, InStep, SendPartner,
       StreamPartner, AfterRqt, InTerminate, DeviceNotSurprised, Awaited, ZTurn,
       deskVars, chanVars
<1>7. CASE UNCHANGED vars
  BY <1>7 DEF vars, deskVars, chanVars, zVars, Paired, InStep, SendPartner,
       StreamPartner, AfterRqt, InTerminate, DeviceNotSurprised, Awaited, ZTurn
<1> QED
  BY <1>1, <1>2, <1>3, <1>4, <1>5, <1>6, <1>7 DEF Next

\* The library never sends what the Zaurus is not waiting for, after any
\* failure in the middle of an exchange and whatever call follows it.
THEOREM NeverSurprised == Spec => []DeviceNotSurprised
<1>1. Init => Typed /\ Turns /\ Paired
  <2>1. Init => Turns /\ Paired
    BY EmptySeq DEF Init, ChanInit, ZInit, Turns, Paired
  <2> QED
    BY <2>1, TypedInit
<1>2. Typed /\ Turns /\ Paired /\ [Next]_vars => Typed' /\ Turns' /\ Paired'
  BY TypedStep, TurnsStep, PairedStep
<1>3. Turns /\ Paired => DeviceNotSurprised
  BY DEF Turns, Paired, InStep, DeviceNotSurprised
<1> QED
  BY <1>1, <1>2, <1>3, PTL DEF Spec

-----------------------------------------------------------------------------
(***************************************************************************)
(* The format of the items.                                                *)
(***************************************************************************)
\* A failure is never reported with the code of a success.
LEMMA FailureIsNotSuccess ==
    ASSUME NEW f \in Fns, NEW p
    PROVE  FailCode(f, "type") # 0 /\ FailCode(f, "send") # 0 /\ FailCodeAt(f, p) # 0
<1>1. \A stage : FailCode(f, stage) # 0
  BY DEF FailCode, InitiateCode, Fns, InitiateFns, DataCalls
<1> QED
  BY <1>1 DEF FailCodeAt

\* A call that ends without a new format, and not with the 0 of initiate.
LEMMA ReturnKeepsFormat ==
    ASSUME DeskInv, FormatKept, pc # "idle", UNCHANGED env, NEW code,
           code # 0, Return(code)
    PROVE  FormatKept'
BY DEF DeskInv, DeskTypeOK, DeskShape, FormatKept, Return, ReturnFrom, DataCalls

LEMMA LibraryKeepsFormat ==
    ASSUME DeskInv, FormatKept, Library
    PROVE  FormatKept'
<1>1. CASE GreetSend \/ GreetAck \/ WsRqst \/ WsSend \/ WsAck \/ WrRqst \/ ByeRqst
  BY <1>1 DEF GreetSend, GreetAck, WsRqst, WsSend, WsAck, WrRqst, ByeRqst, Goto,
       FormatKept
<1>2. CASE WrMsg \/ WrAbrt
  BY <1>2 DEF WrMsg, WrAbrt, FormatKept
<1>3. CASE WrAckAccepted
  <2>0. /\ pc # "idle" /\ env \in Env /\ rmsg \in Message
        /\ env' = Learn(env, fn, rmsg)
    BY <1>3, InCall DEF WrAckAccepted
  <2>1. CASE call = "initiate"
    <3>0. ~synced /\ fn \in InitiateFns
      BY <2>1 DEF FormatKept, DeskInv, DeskShape
    <3> DEFINE next == NextStep(fn, Learn(env, fn, rmsg))
    <3>1. next = "done" => fn = "param_format"
      BY <3>0, <2>0, LearnType
         DEF NextStep, AfterAuthState, BeforeAnchor, AfterAnchor, ParamFormat,
             InitiateFns
    <3>2. next \in InitiateFns \cup {"done", "no_passcode", "params_taken"}
      BY <3>0, <2>0, LearnType, NextStepType DEF Fns
    <3>3. fn = "param_format" => env'.params = env'.type
      BY <2>0 DEF Learn, Env
    <3>4. IF next \in Fns THEN Enter(next) ELSE Return(OutcomeCode[next])
      BY <1>3, <2>1 DEF WrAckAccepted, DataCalls
    <3> HIDE DEF next
    <3>5. CASE next \in Fns
      BY <3>5, <3>4, <3>0, <2>1 DEF Enter, FormatKept, DataCalls
    <3>6. CASE next \notin Fns
      <4>1. next \in {"done", "no_passcode", "params_taken"}
        BY <3>2, <3>6 DEF Fns
      <4>2. OutcomeCode[next] = 0 => next = "done"
        BY <4>1 DEF OutcomeCode
      <4> QED
        BY <4>2, <3>0, <3>1, <3>3, <3>4, <3>6
           DEF Return, ReturnFrom, FormatKept, DataCalls
    <3> QED
      BY <3>5, <3>6
  <2>2. CASE call \in DataCalls /\ Return(0)
    <3>1. env' = env
      BY <2>0, <2>2 DEF Learn, DeskInv, DeskShape, DataCalls
    <3> QED
      BY <2>2, <3>1 DEF Return, ReturnFrom, FormatKept, DataCalls
  <2>3. CASE call = "terminate" /\ UNCHANGED <<call, synced>>
    BY <2>3 DEF FormatKept, DataCalls
  <2> QED
    BY <1>3, <2>1, <2>2, <2>3 DEF WrAckAccepted
<1>4. CASE ByeSend
  <2>1. call = "terminate"
    BY <1>4 DEF ByeSend, DeskInv, DeskShape, ByePcs
  <2> QED
    BY <1>4, <2>1 DEF ByeSend, Return, ReturnFrom, FormatKept, DataCalls
<1>5. CASE \/ WrAckRejected \/ WrAckUnusable \/ UnexpectedCommon
           \/ UnexpectedGeneral \/ RecvBroken \/ RecvDiscards
           \/ SendFails \/ AuthNoMemory
  <2>1. pc # "idle" /\ UNCHANGED env
    BY <1>5 DEF WrAckRejected, WrAckUnusable, UnexpectedCommon, UnexpectedGeneral,
         RecvBroken, RecvDiscards, SendFails, AuthNoMemory
  <2>2. fn \in Fns
    BY <2>1, InCall
  <2>3. FailCode("auth", "send") # 0
    BY FailureIsNotSuccess DEF Fns, InitiateFns
  <2>4. \E code : code # 0 /\ Return(code)
    BY <1>5, <2>2, <2>3, FailureIsNotSuccess
       DEF WrAckRejected, WrAckUnusable, UnexpectedCommon, UnexpectedGeneral,
           RecvBroken, RecvDiscards, SendFails, AuthNoMemory
  <2> QED
    BY <2>1, <2>4, ReturnKeepsFormat
<1> QED
  BY <1>1, <1>2, <1>3, <1>4, <1>5 DEF Library

LEMMA FormatStep ==
    ASSUME Typed, FormatKept, [Next]_vars
    PROVE  FormatKept'
<1>a. DeskInv
  BY DEF Typed, TypeOK, DeskInv
<1>1. CASE StartSession
  BY <1>1 DEF StartSession, Connect, FormatKept, DataCalls
<1>2. CASE FailToConnect
  BY <1>a, <1>2
     DEF FailToConnect, ConnectFails, ReturnFrom, FormatKept, DataCalls, DeskInv,
         DeskTypeOK
<1>3. CASE DesktopStep
  <2>1. CASE Library
    BY <1>a, <2>1, LibraryKeepsFormat
  <2>2. CASE Program
    <3>1. ASSUME NEW t \in AnySyncType, SetSyncType(t) PROVE FormatKept'
      BY <1>a, <3>1 DEF SetSyncType, Idle, FormatKept, DeskInv, DeskShape, DataCalls
    <3>2. CASE SetZaurusIp
      BY <1>a, <3>2 DEF SetZaurusIp, FormatKept, DeskInv, DeskTypeOK, Env
    <3>3. ASSUME NEW p \in Passcodes, SetPasscode(p) PROVE FormatKept'
      BY <1>a, <3>3 DEF SetPasscode, FormatKept, DeskInv, DeskTypeOK, Env
    <3>4. CASE InitiateUnset \/ ItemOfOtherType
      BY <1>a, <3>4
         DEF InitiateUnset, ItemOfOtherType, ReturnFrom, FormatKept, DataCalls,
             DeskInv, DeskTypeOK
    <3>5. ASSUME NEW c \in DataCalls \cup {"terminate"}, BeginCall(c)
          PROVE  FormatKept'
      BY <1>a, <3>5 DEF BeginCall, FormatKept, DeskInv, DeskTypeOK, DataCalls
    <3> QED
      BY <2>2, <3>1, <3>2, <3>3, <3>4, <3>5 DEF Program
  <2> QED
    BY <1>3, <2>1, <2>2 DEF DesktopStep
<1>4. CASE Drop \/ DeviceStep \/ UserStep \/ UNCHANGED vars
  BY <1>4 DEF Drop, DeviceStep, UserStep, vars, deskVars, FormatKept
<1> QED
  BY <1>1, <1>2, <1>3, <1>4 DEF Next

\* An item is parsed with the format of its own type.
THEOREM ItemsHaveTheirFormat == Spec => []FormatOfItem
<1>1. Init => Typed /\ FormatKept
  BY TypedInit DEF Init, DeskInit, FormatKept, DataCalls
<1>2. Typed /\ FormatKept /\ [Next]_vars => Typed' /\ FormatKept'
  BY TypedStep, FormatStep
<1>3. Typed /\ FormatKept => FormatOfItem
  BY DEF Typed, TypeOK, DeskTypeOK, DeskShape, FormatKept, FormatOfItem, Calls,
         DataCalls, InitiateFns
<1> QED
  BY <1>1, <1>2, <1>3, PTL DEF Spec
-----------------------------------------------------------------------------
(***************************************************************************)
(* The order of the requests.  What the Zaurus has served follows from     *)
(* where the library is in its calls.                                      *)
(***************************************************************************)
AckPcs == {"greet_ack", "ws_ack"}

\* The request the Zaurus deals with is the one of the function the library is
\* inside of, from the moment it is sent until its answer is acknowledged.
Dealing ==
    /\ DeskTurn => toD = <<>>
    /\ conn = "up" =>
         /\ zpc # "off"
         /\ pc \in AckPcs /\ toZ # <<>> => Head(toZ) = RequestMsg(fn, env)
         /\ pc \in AckPcs /\ toZ = <<>> => zreq = RequestMsg(fn, env)
         /\ pc \in RecvPcs => zreq = RequestMsg(fn, env)
         /\ toZ # <<>> /\ zpc = "req_wait" /\ zreq.type # "RQT" => pc \in AckPcs
         /\ toZ # <<>> /\ Head(toZ).type = "RQST" => pc = "wr_msg"
         /\ pc = "wr_msg" => /\ toZ # <<>> => Head(toZ).type = "RQST"
                            /\ zpc # "rqst_send"
         /\ zpc = "ack_send" => pc \in AckPcs
         /\ zpc = "rep_send" => pc = "wr_msg"
         /\ pc \in GreetPcs => fn = "greet"

\* A message of the type that fn asked for says that the request was served, and
\* an AMG names every sync type whose slow sync the Zaurus asks for.
Told(m) ==
    m.type = ReplyTo[RequestOf[fn]] =>
        /\ RequestOf[fn] \in ses.served
        /\ fn = "sync_state" => ses.wants = env.type /\ ses.reported \subseteq m.slow

Answered ==
    /\ pc = "wr_msg" /\ toD # <<>> => Told(Head(toD))
    /\ pc = "wr_ack" => Told(rmsg)

\* What initiate has had answered when it is inside f.
Before(f) ==
    CASE f = "greet" -> {}
      [] f \in {"check_auth", "auth", "device_info"} -> {"RAY"}
      [] f = "sync_state"    -> {"RAY", "RIG"}
      [] f = "last_time"     -> {"RAY", "RIG", "RMG"}
      [] f \in {"reset_log_0", "reset_log_5", "set_last_time"} ->
           {"RAY", "RIG", "RMG", "RTG"}
      [] f = "reset_state"   -> {"RAY", "RIG", "RMG", "RTG", "RTS", "RMS"}
      [] f = "param_format"  -> {"RAY", "RIG", "RMG", "RTG", "RTS"}

\* The functions that follow the AMG.
AfterState == {"last_time", "reset_log_0", "reset_log_5", "set_last_time",
               "reset_state", "param_format"}

\* Inside initiate: the log is reset before the anchor is moved, and the items
\* are marked as new before their format is asked for.
Initiated ==
    call = "initiate" =>
        /\ Before(fn) \subseteq ses.served
        /\ fn \in AfterState => ses.wants = env.type /\ ses.reported \subseteq env.slow
        /\ fn = "set_last_time" /\ RequiresSlowSync(env) => "RMS" \in ses.served
        /\ fn = "param_format" /\ env.type \in ses.reported
             => {"RMS", "RSS"} \subseteq ses.served

\* From the 0 of initiate to the terminate.
Ready ==
    synced \/ call \in DataCalls =>
        /\ Promised("initiate") \subseteq ses.served
        /\ ses.wants = env.type
        /\ env.type \in ses.reported => {"RMS", "RSS"} \subseteq ses.served

\* After the RQT the Zaurus takes no request; a passcode it has taken is served.
Ending ==
    /\ "RQT" \in ses.served =>
         /\ zpc \notin {"ack_send", "rep_wait", "rep_send"}
         /\ zpc # "off" => zreq.type = "RQT"
    /\ ses.authed <=> "RRL" \in ses.served

Ordered == Dealing /\ Answered /\ Initiated /\ Ready /\ Ending /\ SlowSyncPrepared

OrderInv == Typed /\ Turns /\ Paired /\ FormatKept /\ Ordered

-----------------------------------------------------------------------------
\* The library's steps inside a call leave the environment, the function and
\* the call alone, or end an exchange.
GoesOn ==
    \/ GreetSend \/ GreetAck \/ WsRqst \/ WsSend \/ WsAck
    \/ WrRqst \/ WrMsg \/ WrAbrt \/ ByeRqst

Gives ==
    \/ WrAckRejected \/ WrAckUnusable \/ ByeSend
    \/ UnexpectedCommon \/ UnexpectedGeneral
    \/ RecvBroken \/ RecvDiscards \/ SendFails \/ AuthNoMemory

LEMMA LibrarySplit == Library <=> GoesOn \/ WrAckAccepted \/ Gives
BY DEF Library, GoesOn, Gives

LEMMA GoesOnFrame ==
    ASSUME GoesOn
    PROVE  /\ UNCHANGED <<env, call, fn, ret, synced>> /\ conn' = conn
           /\ pc # "idle" /\ pc' # "idle"
BY DEF GoesOn, GreetSend, GreetAck, WsRqst, WsSend, WsAck, WrRqst, WrMsg, WrAbrt,
       ByeRqst, Goto, SendToZaurus, RecvFromZaurus

LEMMA GivesFrame ==
    ASSUME Typed, Gives
    PROVE  /\ UNCHANGED env /\ conn' = conn /\ pc # "idle" /\ pc' = "idle"
           /\ call' = "none" /\ fn' = "none" /\ call \in Calls
           /\ ret'.call = call /\ (ret'.code = 0 => call = "terminate")
           /\ synced' = synced
<1>0. pc # "idle"
  BY DEF Gives, WrAckRejected, WrAckUnusable, ByeSend, UnexpectedCommon,
         UnexpectedGeneral, RecvBroken, RecvDiscards, SendFails, AuthNoMemory
<1>a. call \in Calls /\ fn \in Fns
  BY <1>0, InCall DEF Typed, TypeOK, DeskInv
<1>1. UNCHANGED env /\ conn' = conn
  BY DEF Gives, WrAckRejected, WrAckUnusable, ByeSend, UnexpectedCommon,
         UnexpectedGeneral, RecvBroken, RecvDiscards, SendFails, AuthNoMemory,
         SendToZaurus, RecvFromZaurus, chanVars
<1>2. \E code : Return(code) /\ (code = 0 => call = "terminate")
  <2>1. CASE ByeSend
    BY <2>1 DEF ByeSend, Typed, DeskShape, ByePcs
  <2>2. CASE WrAckRejected \/ WrAckUnusable
    BY <2>2, <1>a, FailureIsNotSuccess DEF WrAckRejected, WrAckUnusable
  <2>3. FailCode("auth", "send") # 0
    BY FailureIsNotSuccess DEF Fns, InitiateFns
  <2>4. CASE \/ UnexpectedCommon \/ UnexpectedGeneral \/ RecvBroken
             \/ RecvDiscards \/ SendFails \/ AuthNoMemory
    BY <2>4, <2>3, <1>a, FailureIsNotSuccess
       DEF UnexpectedCommon, UnexpectedGeneral, RecvBroken, RecvDiscards, SendFails,
           AuthNoMemory
  <2> QED
    BY <2>1, <2>2, <2>4 DEF Gives
<1>3. PICK code : Return(code) /\ (code = 0 => call = "terminate")
  BY <1>2
<1>4. synced' = synced
  BY <1>3, <1>a DEF Return, ReturnFrom, Typed, TypeOK, DeskTypeOK
<1> QED
  BY <1>0, <1>a, <1>1, <1>3, <1>4 DEF Return, ReturnFrom

\* What initiate enters next is a function of its own that was not greet.
LEMMA AcceptedFrame ==
    ASSUME Typed, WrAckAccepted
    PROVE  /\ pc = "wr_ack" /\ fn \in Fns /\ env \in Env /\ rmsg \in Message
           /\ env' = Learn(env, fn, rmsg) /\ Accepts(fn, refused, rmsg)
           /\ SendToZaurus(Plain("ACK")) /\ conn' = conn
           /\ pc' \in {"idle", "ws_rqst", "bye_rqst"}
           /\ \/ /\ call = "initiate" /\ call' = "initiate" /\ fn \in InitiateFns
                 /\ fn' = NextStep(fn, env') /\ fn' \in InitiateFns
                 /\ ret' = ret /\ synced' = synced /\ ~refused'
              \/ /\ call = "initiate" /\ call' = "none" /\ fn' = "none"
                 /\ ret'.call = call /\ fn \in InitiateFns
                 /\ ret'.code = 0 => fn = "param_format"
                 /\ synced' => synced \/ fn = "param_format"
              \/ /\ call \in DataCalls /\ fn = call /\ call' = "none" /\ fn' = "none"
                 /\ ret'.call = call /\ synced' = synced
              \/ /\ call = "terminate" /\ fn = call /\ call' = call /\ fn' = fn
                 /\ ret' = ret /\ synced' = synced
<1>0. /\ pc = "wr_ack" /\ env' = Learn(env, fn, rmsg) /\ Accepts(fn, refused, rmsg)
      /\ SendToZaurus(Plain("ACK")) /\ conn' = conn
      /\ pc' \in {"idle", "ws_rqst", "bye_rqst"}
  BY DEF WrAckAccepted, SendToZaurus, Enter, Return, ReturnFrom
<1>a. /\ call \in Calls /\ fn \in Fns /\ env \in Env /\ rmsg \in Message
      /\ synced \in BOOLEAN
  BY <1>0, InCall DEF Typed, TypeOK, DeskInv, DeskTypeOK
<1>1. CASE call = "initiate"
  <2>0. fn \in InitiateFns /\ env' \in Env
    BY <1>0, <1>1, <1>a, LearnType DEF Typed, DeskShape
  <2> DEFINE next == NextStep(fn, env')
  <2>1. next \in InitiateFns \cup {"done", "no_passcode", "params_taken"}
    BY <2>0, NextStepType
  <2>2. next = "done" => fn = "param_format"
    BY <2>0 DEF NextStep, AfterAuthState, BeforeAnchor, AfterAnchor, ParamFormat,
         InitiateFns
  <2>3. IF next \in Fns THEN Enter(next) ELSE Return(OutcomeCode[next])
    BY <1>1, <1>0 DEF WrAckAccepted, DataCalls
  <2> HIDE DEF next
  <2>4. CASE next \in Fns
    <3>1. next \in InitiateFns
      BY <2>1, <2>4 DEF Fns, DataCalls
    <3> QED
      BY <3>1, <2>0, <2>3, <2>4, <1>0, <1>1, <1>a DEF Enter, next
  <2>5. CASE next \notin Fns
    <3>1. next \in {"done", "no_passcode", "params_taken"}
      BY <2>1, <2>5 DEF Fns
    <3>2. OutcomeCode[next] = 0 => next = "done"
      BY <3>1 DEF OutcomeCode
    <3> QED
      BY <3>2, <2>0, <2>2, <2>3, <2>5, <1>0, <1>1, <1>a DEF Return, ReturnFrom
  <2> QED
    BY <2>4, <2>5
<1>2. CASE call \in DataCalls
  <2>1. fn = call /\ Return(0)
    BY <1>2 DEF WrAckAccepted, Typed, DeskShape, DataCalls
  <2> QED
    BY <2>1, <1>0, <1>2, <1>a DEF Return, ReturnFrom, DataCalls
<1>3. CASE call = "terminate"
  BY <1>3, <1>0, <1>a DEF WrAckAccepted, Typed, DeskShape, DataCalls
<1> QED
  BY <1>1, <1>2, <1>3, <1>a DEF Calls

\* The steps inside an exchange keep the two ends on the same request.
LEMMA GoesOnDealing ==
    ASSUME Typed, Turns, Paired, Dealing, GoesOn, UNCHANGED zVars
    PROVE  Dealing'
<1>a. /\ UNCHANGED <<env, call, fn>> /\ conn' = conn /\ env \in Env /\ fn \in Fns
      /\ zpc' = zpc /\ zreq' = zreq
  BY GoesOnFrame, InCall DEF Typed, TypeOK, DeskInv, zVars
<1>b. RequestMsg(fn, env)' = RequestMsg(fn, env)
  BY <1>a DEF RequestMsg
<1>c. /\ Plain("RAY") \in Message /\ Plain("RQST") \in Message
      /\ Plain("RQST").type = "RQST" /\ Plain("RAY").type = "RAY"
      /\ RequestMsg(fn, env) \in Message /\ RequestMsg(fn, env).type # "RQST"
  <2>1. RequestMsg(fn, env).type \in RequestTypes /\ RequestMsg(fn, env) \in Message
    BY <1>a, RequestNames, RequestMsgType
  <2> QED
    BY <2>1, PlainType DEF MsgTypes, CommonTypes, RequestTypes, Plain, Msg
<1>d. fn = "greet" => RequestMsg(fn, env) = Plain("RAY")
  BY DEF RequestMsg, Plain, RequestOf, TypedFns, DataCalls
<1>s. ASSUME toD = <<>>, SendToZaurus(Plain("RAY")) \/ SendToZaurus(Plain("RQST"))
              \/ SendToZaurus(RequestMsg(fn, env))
      PROVE toD' = <<>>
  BY <1>s DEF SendToZaurus
<1>r. ASSUME RecvFromZaurus PROVE toD' = <<>>
  BY <1>r, ShortStream DEF RecvFromZaurus, Turns, Typed, TypeOK, ChanTypeOK
<1>1. CASE GreetSend \/ WsSend
  <2>1. /\ pc \in {"greet_send", "ws_send"} /\ pc' \in AckPcs /\ DeskTurn
        /\ SendToZaurus(RequestMsg(fn, env)) \/ conn # "up"
        /\ pc' = "greet_ack" => pc = "greet_send"
        /\ SendToZaurus(Plain("RAY")) \/ SendToZaurus(RequestMsg(fn, env))
    BY <1>1, <1>d DEF GreetSend, WsSend, Goto, AckPcs, DeskTurn, Dealing, GreetPcs
  <2>2. conn = "up" => toZ' # <<>> /\ Head(toZ') = RequestMsg(fn, env)
    BY <2>1, <1>c, DeskSent
  <2>3. toD' = <<>>
    BY <2>1, <1>s DEF Dealing
  <2> QED
    BY <2>1, <2>2, <2>3, <1>a, <1>b, <1>c
       DEF Dealing, AckPcs, DeskTurn, GreetPcs, RecvPcs
<1>2. CASE WrRqst
  <2>1. /\ pc = "wr_rqst" /\ pc' = "wr_msg" /\ DeskTurn /\ SendToZaurus(Plain("RQST"))
    BY <1>2 DEF WrRqst, Goto, DeskTurn
  <2>2. conn = "up" => /\ toZ' # <<>> /\ Head(toZ').type = "RQST"
                       /\ zpc \in {"rep_wait", "ang_wait"}
    BY <2>1, <1>c, DeskSent DEF Paired, InStep, SendPartner
  <2>3. toD' = <<>>
    BY <2>1, <1>s DEF Dealing
  <2> QED
    BY <2>1, <2>2, <2>3, <1>a, <1>b
       DEF Dealing, AckPcs, DeskTurn, GreetPcs, RecvPcs
<1>3. CASE GreetAck \/ WsAck \/ WsRqst \/ WrMsg \/ WrAbrt \/ ByeRqst
  <2>1. /\ RecvFromZaurus
        /\ \/ pc \in AckPcs /\ pc' = "wr_rqst"
           \/ pc = "ws_rqst" /\ pc' = "ws_send"
           \/ pc = "wr_msg" /\ pc' \in {"wr_ack", "wr_rqst"}
           \/ pc = "bye_rqst" /\ pc' = "bye_send"
    BY <1>3 DEF GreetAck, WsAck, WsRqst, WrMsg, WrAbrt, ByeRqst, Goto, AckPcs
  <2>2. conn = "up" => toZ = <<>> /\ toZ' = <<>> /\ ~ZTurn
    BY <2>1, DeskGot
  <2>3. toD' = <<>>
    BY <2>1, <1>r
  <2> QED
    BY <2>1, <2>2, <2>3, <1>a, <1>b
       DEF Dealing, AckPcs, DeskTurn, GreetPcs, RecvPcs, ZTurn, ZSendPcs
<1> QED
  BY <1>1, <1>2, <1>3 DEF GoesOn

\* A step that ends an exchange leaves the Zaurus with an ACK, or without
\* anything it did not have.
LEMMA EndDealing ==
    ASSUME Typed, Turns, Paired, Dealing, WrAckAccepted \/ Gives, UNCHANGED zVars
    PROVE  Dealing'
<1>a. zpc' = zpc /\ zreq' = zreq /\ conn' = conn
  BY AcceptedFrame, GivesFrame DEF zVars
<1>b. pc' \in {"idle", "ws_rqst", "bye_rqst"}
  BY AcceptedFrame, GivesFrame
<1>c. /\ Plain("ACK") \in Message /\ Plain("ACK").type = "ACK"
      /\ Plain("RAY") \in Message /\ Plain("RAY").type = "RAY"
  BY PlainType DEF MsgTypes, CommonTypes, RequestTypes, Plain, Msg
<1>d. ~DeskTurn' /\ pc' \notin AckPcs \cup RecvPcs \cup GreetPcs /\ pc' # "wr_msg"
  BY <1>b DEF DeskTurn, AckPcs, RecvPcs, GreetPcs
<1> SUFFICES ASSUME conn = "up"
             PROVE  /\ toZ' # <<>> => \/ zpc = "ack_wait" /\ Head(toZ').type = "ACK"
                                      \/ zreq.type = "RQT" /\ Head(toZ').type = "RAY"
                                      \/ toZ' = toZ /\ pc \notin AckPcs
                                           /\ (Head(toZ).type = "RQST" => pc # "wr_msg")
                    /\ zpc \notin {"ack_send", "rep_send"}
                       \/ pc \notin AckPcs \cup {"wr_msg"}
  BY <1>a, <1>d DEF Dealing
<1>1. CASE WrAckAccepted \/ WrAckRejected \/ WrAckUnusable
  <2>1. pc = "wr_ack" /\ DeskTurn /\ SendToZaurus(Plain("ACK"))
    BY <1>1 DEF WrAckAccepted, WrAckRejected, WrAckUnusable, DeskTurn
  <2> QED
    BY <2>1, <1>c, DeskSent DEF Paired, InStep, SendPartner
<1>2. CASE ByeSend
  <2>1. pc = "bye_send" /\ DeskTurn /\ SendToZaurus(Plain("RAY"))
    BY <1>2 DEF ByeSend, DeskTurn
  <2> QED
    BY <2>1, <1>c, DeskSent DEF Paired, InStep, SendPartner
<1>3. CASE UnexpectedCommon \/ UnexpectedGeneral \/ RecvDiscards
  <2>1. RecvFromZaurus
    BY <1>3 DEF UnexpectedCommon, UnexpectedGeneral, RecvDiscards
  <2> QED
    BY <2>1, DeskGot DEF ZTurn, ZSendPcs
<1>4. CASE SendFails \/ AuthNoMemory
  <2>1. /\ toZ' = toZ /\ pc \notin AckPcs \cup {"wr_msg"}
    BY <1>4 DEF SendFails, AuthNoMemory, chanVars, AckPcs
  <2> QED
    BY <2>1
<1>5. ~RecvBroken
  BY DEF RecvBroken
<1> QED
  BY <1>1, <1>2, <1>3, <1>4, <1>5 DEF Gives

\* The library reads only answers that were on their way to it.
LEMMA LibraryAnswered ==
    ASSUME Typed, Turns, Dealing, Answered, Library, UNCHANGED zVars
    PROVE  Answered'
<1>a. ses' = ses
  BY DEF zVars
<1>1. CASE GoesOn
  <2>1. UNCHANGED <<env, fn>>
    BY <1>1, GoesOnFrame
  <2>2. \A m : Told(m)' <=> Told(m)
    BY <2>1, <1>a DEF Told
  <2>3. CASE WrRqst
    <3>1. toD' = <<>> /\ pc' = "wr_msg"
      BY <2>3 DEF WrRqst, Goto, SendToZaurus, Dealing, DeskTurn
    <3> QED
      BY <3>1 DEF Answered
  <2>4. CASE WrMsg
    BY <2>2, <2>4 DEF WrMsg, RecvFromZaurus, Answered, Told
  <2>5. CASE GreetSend \/ GreetAck \/ WsRqst \/ WsSend \/ WsAck \/ WrAbrt \/ ByeRqst
    BY <2>5 DEF GreetSend, GreetAck, WsRqst, WsSend, WsAck, WrAbrt, ByeRqst, Goto,
         Answered
  <2> QED
    BY <1>1, <2>3, <2>4, <2>5 DEF GoesOn
<1>2. CASE WrAckAccepted \/ Gives
  <2>1. pc' \in {"idle", "ws_rqst", "bye_rqst"}
    BY <1>2, AcceptedFrame, GivesFrame
  <2> QED
    BY <2>1 DEF Answered
<1> QED
  BY <1>1, <1>2, LibrarySplit

\* What initiate goes on to is due: each of its functions is entered with what
\* must come before it served.
LEMMA NextIsDue ==
    ASSUME Typed, WrAckAccepted, Answered, Initiated,
           call = "initiate", fn' \in InitiateFns, fn' = NextStep(fn, env'),
           call' = call, ses' = ses
    PROVE  Initiated'
<1>a. /\ fn \in InitiateFns /\ env \in Env /\ rmsg \in Message
      /\ env' = Learn(env, fn, rmsg) /\ Accepts(fn, refused, rmsg) /\ pc = "wr_ack"
  BY AcceptedFrame DEF DataCalls
<1>b. /\ env'.type = env.type /\ env.slow \subseteq env'.slow
      /\ fn = "sync_state" => rmsg.slow \subseteq env'.slow
      /\ fn \in {"last_time", "reset_log_0", "reset_log_5", "set_last_time"}
           => env' = env
  BY <1>a DEF Learn, SlowFlags, Env, ResetStateFlags
<1>c. fn # "reset_log_0" => rmsg.type = ReplyTo[RequestOf[fn]]
  BY <1>a DEF Accepts, TypeChecked, InitiateFns
<1>d. fn # "reset_log_0" =>
        /\ RequestOf[fn] \in ses.served
        /\ fn = "sync_state" => ses.wants = env.type /\ ses.reported \subseteq rmsg.slow
  BY <1>a, <1>c DEF Answered, Told
<1>e. /\ Before(fn) \subseteq ses.served
      /\ fn \in AfterState => ses.wants = env.type /\ ses.reported \subseteq env.slow
      /\ fn = "set_last_time" /\ RequiresSlowSync(env) => "RMS" \in ses.served
  BY DEF Initiated
<1>n. \/ fn = "greet" /\ fn' \in {"check_auth", "auth", "device_info"}
      \/ fn = "check_auth" /\ fn' \in {"auth", "device_info"}
      \/ fn = "auth" /\ fn' = "device_info"
      \/ fn = "device_info" /\ fn' = "sync_state"
      \/ fn = "sync_state" /\ fn' = "last_time"
      \/ fn = "last_time" /\ fn' = "reset_log_0"
      \/ fn = "last_time" /\ fn' = "set_last_time" /\ ~RequiresSlowSync(env')
      \/ fn = "reset_log_0" /\ fn' = "reset_log_5"
      \/ fn = "reset_log_5" /\ fn' = "set_last_time"
      \/ fn = "set_last_time" /\ fn' = "reset_state" /\ RequiresSlowSync(env')
      \/ fn = "set_last_time" /\ fn' = "param_format" /\ ~RequiresSlowSync(env')
      \/ fn = "reset_state" /\ fn' = "param_format"
  <2>1. env'.needPass \in BOOLEAN
    BY <1>a, LearnType DEF Env, Fns
  <2> QED
    BY <1>a, <2>1 DEF NextStep, AfterAuthState, BeforeAnchor, AfterAnchor,
         ParamFormat, InitiateFns
<1>1. Before(fn') \subseteq ses.served
  <2>1. fn # "reset_log_0" => Before(fn') \subseteq Before(fn) \cup {RequestOf[fn]}
                                \/ fn' = "reset_state"
    BY <1>n DEF Before, RequestOf
  <2>2. fn = "reset_log_0" => Before(fn') = Before(fn)
    BY <1>n DEF Before
  <2>3. fn' = "reset_state" => Before(fn') \subseteq Before(fn) \cup {"RTS", "RMS"}
    BY <1>n DEF Before
  <2>4. fn' = "reset_state" => {"RTS", "RMS"} \subseteq ses.served
    <3>1. env' = env /\ fn = "set_last_time" => RequiresSlowSync(env)' = RequiresSlowSync(env)
      BY DEF RequiresSlowSync
    <3> QED
      BY <3>1, <1>b, <1>d, <1>e, <1>n DEF RequestOf
  <2> QED
    BY <2>1, <2>2, <2>3, <2>4, <1>d, <1>e
<1>2. fn' \in AfterState => ses.wants = env'.type /\ ses.reported \subseteq env'.slow
  BY <1>b, <1>d, <1>e, <1>n DEF AfterState
<1>3. fn' = "set_last_time" /\ RequiresSlowSync(env') => "RMS" \in ses.served
  BY <1>d, <1>n DEF RequestOf
<1>4. fn' = "param_format" /\ env'.type \in ses.reported
        => {"RMS", "RSS"} \subseteq ses.served
  <2>1. CASE fn = "reset_state"
    BY <2>1, <1>d, <1>e DEF RequestOf, Before
  <2>2. CASE fn = "set_last_time" /\ ~RequiresSlowSync(env')
    BY <2>2, <1>b, <1>e DEF RequiresSlowSync, AfterState
  <2> QED
    BY <2>1, <2>2, <1>n
<1> QED
  BY <1>1, <1>2, <1>3, <1>4 DEF Initiated, Before

\* When initiate returns 0, everything it stands for was served.
LEMMA LibraryInitiated ==
    ASSUME Typed, Answered, Initiated, Ready, FormatKept, Library, UNCHANGED zVars
    PROVE  Initiated' /\ Ready'
<1>a. ses' = ses
  BY DEF zVars
<1>1. CASE GoesOn
  <2>1. UNCHANGED <<env, call, fn, synced>>
    BY <1>1, GoesOnFrame
  <2>2. Before(fn)' = Before(fn)
    BY <2>1
  <2>3. Initiated'
    BY <2>1, <2>2, <1>a DEF Initiated, RequiresSlowSync
  <2>4. Ready'
    BY <2>1, <1>a DEF Ready
  <2> QED
    BY <2>3, <2>4
<1>2. CASE Gives
  <2>1. UNCHANGED <<env, synced>> /\ call' = "none"
    BY <1>2, GivesFrame
  <2> QED
    BY <2>1, <1>a DEF Initiated, Ready, Promised, DataCalls
<1>3. CASE WrAckAccepted
  <2>0. /\ pc = "wr_ack" /\ env \in Env /\ rmsg \in Message
        /\ env' = Learn(env, fn, rmsg) /\ Accepts(fn, refused, rmsg)
    BY <1>3, AcceptedFrame
  <2>1. CASE call = "initiate" /\ call' = "initiate"
    <3>1. synced' = synced /\ ~synced /\ fn' = NextStep(fn, env') /\ fn' \in InitiateFns
      BY <2>1, <1>3, AcceptedFrame DEF FormatKept, DataCalls
    <3>2. Initiated'
      BY <2>1, <3>1, <1>3, <1>a, NextIsDue
    <3> QED
      BY <3>1, <3>2, <2>1 DEF Ready, DataCalls
  <2>2. CASE call = "initiate" /\ call' = "none"
    <3>1. ~synced /\ (synced' => fn = "param_format")
      BY <2>2, <1>3, AcceptedFrame DEF FormatKept, DataCalls
    <3>2. ASSUME fn = "param_format"
          PROVE  /\ Promised("initiate") \subseteq ses.served
                 /\ ses.wants = env'.type
                 /\ env'.type \in ses.reported => {"RMS", "RSS"} \subseteq ses.served
      <4>1. rmsg.type = "ADI"
        BY <3>2, <2>0 DEF Accepts, TypeChecked, ReplyTo, RequestOf
      <4>2. "RDI" \in ses.served
        BY <3>2, <4>1, <2>0 DEF Answered, Told, RequestOf, ReplyTo
      <4>3. env'.type = env.type
        BY <2>0 DEF Learn, Env
      <4>4. /\ {"RAY", "RIG", "RMG", "RTG", "RTS"} \subseteq ses.served
            /\ ses.wants = env.type
            /\ env.type \in ses.reported => {"RMS", "RSS"} \subseteq ses.served
        BY <3>2, <2>2 DEF Initiated, Before, AfterState
      <4> QED
        BY <4>2, <4>3, <4>4 DEF Promised
    <3> QED
      BY <3>1, <3>2, <2>2, <1>a DEF Initiated, Ready, DataCalls, Promised
  <2>3. CASE call \in DataCalls \cup {"terminate"}
    <3>1. synced' = synced /\ call' \in {"none", call} /\ fn = call
      BY <2>3, <1>3, AcceptedFrame DEF DataCalls
    <3>2. env' = env
      BY <2>0, <2>3, <3>1 DEF Learn, DataCalls
    <3> QED
      BY <3>1, <3>2, <2>3, <1>a DEF Initiated, Ready, DataCalls, Promised
  <2> QED
    BY <1>3, <2>1, <2>2, <2>3, AcceptedFrame
<1> QED
  BY <1>1, <1>2, <1>3, LibrarySplit
-----------------------------------------------------------------------------
\* What is in a request.
LEMMA RequestParts ==
    ASSUME NEW f \in Fns, NEW e \in Env
    PROVE  /\ f \in TypedFns => RequestMsg(f, e).sync = e.type
           /\ RequestOf[f] \in TypedRequests <=> f \in TypedFns
           /\ RequestOf[f] \in {"RSY", "RDR", "RDD", "RDS"} <=> f \in DataCalls
           /\ RequestOf[f] = "RMG" <=> f = "sync_state"
BY DEF RequestMsg, Msg, RequestOf, Fns, InitiateFns, DataCalls, TypedFns, TypedRequests

\* A step of the Zaurus that receives: the stream to it is empty after it.
ZReceiving == ZRecvRequest \/ ZRecvRqst \/ ZRecvAck

\* One that sends, other than a reply.
ZSending == ZSendAck \/ ZAbort \/ ZSendAng \/ ZSendRqst \/ ZOdd

LEMMA DeviceSplit == Device <=> ZReceiving \/ ZSending \/ ZReply \/ ZRecvBye
BY DEF Device, ZReceiving, ZSending

LEMMA ZReceivingFrame ==
    ASSUME Typed, Turns, Paired, Dealing, ZReceiving
    PROVE  /\ conn = "up" /\ conn' = "up" /\ toZ # <<>> /\ toZ' = <<>>
           /\ toD = <<>> /\ toD' = <<>>
           /\ UNCHANGED <<zaurus, ses>>
           /\ \/ /\ ZRecvRequest /\ pc \in AckPcs /\ zreq' = RequestMsg(fn, env)
                 /\ zpc' = "ack_send" /\ zreq.type # "RQT"
              \/ /\ ZRecvRqst /\ pc = "wr_msg" /\ zreq' = zreq
                 /\ \/ zpc = "rep_wait" /\ zpc' = "rep_send"
                    \/ zpc = "ang_wait" /\ zpc' = "ang_send"
              \/ /\ ZRecvAck /\ zreq' = zreq /\ pc \notin AckPcs
                 /\ zpc = "ack_wait" /\ zpc' = "rqst_send"
<1>1. /\ conn = "up" /\ conn' = "up" /\ toZ # <<>> /\ toZ' = <<>>
      /\ toD = <<>> /\ toD' = <<>>
  BY ZGot DEF ZReceiving, ZRecvRequest, ZRecvRqst, ZRecvAck
<1>2. CASE ZRecvRequest
  BY <1>1, <1>2 DEF ZRecvRequest, Dealing
<1>3. CASE ZRecvRqst
  BY <1>1, <1>3 DEF ZRecvRqst, ZGoto, Dealing, Arrived
<1>4. CASE ZRecvAck
  <2>1. Head(toZ).type = "ACK" /\ zpc = "ack_wait" /\ ZGoto("rqst_send")
    BY <1>4 DEF ZRecvAck, Arrived
  <2>2. ASSUME pc \in AckPcs PROVE FALSE
    <3>1. fn \in Fns /\ env \in Env
      BY <2>2, InCall DEF Typed, TypeOK, DeskInv, AckPcs
    <3>2. Head(toZ).type \in RequestTypes
      BY <1>1, <2>2, <3>1, RequestNames DEF Dealing
    <3> QED
      BY <2>1, <3>2 DEF RequestTypes
  <2> QED
    BY <1>1, <1>4, <2>1, <2>2 DEF ZGoto
<1> QED
  BY <1>1, <1>2, <1>3, <1>4 DEF ZReceiving

LEMMA ZSendingFrame ==
    ASSUME Typed, Turns, ZSending
    PROVE  /\ conn = "up" /\ conn' = "up" /\ toZ = <<>> /\ toZ' = <<>>
           /\ toD = <<>> /\ toD' # <<>> /\ ~DeskTurn
           /\ UNCHANGED <<zreq, zaurus, ses>>
           /\ zpc' \in {"rep_wait", "ang_wait", "ack_wait", "req_wait"}
           /\ zpc' = "rep_wait" => zpc = "ack_send"
           /\ Head(toD').type \in CommonTypes \cup ReplyTypes
<1>1. /\ UNCHANGED <<zreq, zaurus, ses>> /\ ZTurn
      /\ zpc' \in {"rep_wait", "ang_wait", "ack_wait", "req_wait"}
      /\ zpc' = "rep_wait" => zpc = "ack_send"
  BY DEF ZSending, ZSendAck, ZAbort, ZSendAng, ZSendRqst, ZOdd, ZGoto, ZTurn, ZSendPcs
<1>2. PICK t \in CommonTypes \cup ReplyTypes : SendToDesktop(Plain(t))
  BY DEF ZSending, ZSendAck, ZAbort, ZSendAng, ZSendRqst, ZOdd, Misplaced,
         CommonTypes, ReplyTypes
<1>3. Plain(t) \in Message /\ Plain(t).type = t
  BY PlainType DEF MsgTypes, Plain, Msg
<1> QED
  BY <1>1, <1>2, <1>3, ZSent

\* What it sends where a reply is awaited, other than a reply, is not of the type
\* that the library asked for.
LEMMA MisplacedIsNoAnswer ==
    ASSUME Typed, Turns, Dealing, ZSending, pc = "wr_msg"
    PROVE  Head(toD').type # ReplyTo[RequestOf[fn]]
<1>1. conn = "up" /\ toD = <<>> /\ toD' # <<>>
  BY ZSendingFrame
<1>2. fn \in Fns /\ env \in Env /\ zreq = RequestMsg(fn, env) /\ zpc \notin {"ack_send", "rqst_send"}
  BY <1>1, InCall DEF Typed, TypeOK, DeskInv, Dealing, RecvPcs, AckPcs
<1>3. zreq.type = RequestOf[fn] /\ RequestOf[fn] \in RequestTypes
  BY <1>2, RequestNames
<1>4. ReplyTo[RequestOf[fn]] \in ReplyTypes \ {"ANG"}
  BY <1>3 DEF ReplyTo, RequestTypes, ReplyTypes
<1>5. PICK t \in CommonTypes \cup ReplyTypes :
        /\ SendToDesktop(Plain(t))
        /\ t # ReplyTo[RequestOf[fn]]
  <2>1. CASE ZSendAck \/ ZAbort \/ ZSendAng \/ ZSendRqst
    BY <2>1, <1>4 DEF ZSendAck, ZAbort, ZSendAng, ZSendRqst, CommonTypes, ReplyTypes
  <2>2. CASE ZOdd
    <3>1. zpc = "rep_send"
      BY <2>2, <1>2 DEF ZOdd
    <3> QED
      BY <2>2, <3>1, <1>3, <1>4 DEF ZOdd, Misplaced, CommonTypes, ReplyTypes
  <2> QED
    BY <2>1, <2>2 DEF ZSending
<1>6. Plain(t) \in Message /\ Plain(t).type = t
  BY PlainType DEF MsgTypes, Plain, Msg
<1>7. toD' = Append(<<>>, Plain(t))
  BY <1>1, <1>5 DEF SendToDesktop
<1> QED
  BY <1>5, <1>6, <1>7

LEMMA ZReplyFrame ==
    ASSUME Typed, Turns, Dealing, ZReply
    PROVE  /\ conn = "up" /\ conn' = "up" /\ toZ = <<>> /\ toZ' = <<>>
           /\ toD = <<>> /\ toD' # <<>> /\ ~DeskTurn /\ pc = "wr_msg"
           /\ fn \in Fns /\ env \in Env /\ zreq = RequestMsg(fn, env)
           /\ zreq.type = RequestOf[fn] /\ zreq' = zreq
           /\ zpc = "rep_send" /\ zpc' = "ack_wait" /\ ~MustGiveUp(zreq)
           /\ Head(toD') \in Replies(zreq) /\ Served(zreq)
<1>1. /\ ZTurn /\ zreq' = zreq /\ zpc = "rep_send" /\ zpc' = "ack_wait"
      /\ ~MustGiveUp(zreq) /\ Served(zreq)
  BY DEF ZReply, ZTurn, ZSendPcs
<1>2. PICK m \in Replies(zreq) : SendToDesktop(m)
  BY DEF ZReply
<1>3. m \in Message
  BY <1>1, RepliesType DEF Typed, TypeOK, ZShape, ZTypeOK
<1>4. /\ toZ = <<>> /\ toZ' = <<>> /\ toD = <<>> /\ toD' # <<>> /\ ~DeskTurn
      /\ Head(toD') = m /\ conn = "up" /\ conn' = "up"
  BY <1>1, <1>2, <1>3, ZSent
<1>5. pc = "wr_msg" /\ zreq = RequestMsg(fn, env)
  BY <1>1, <1>4 DEF Dealing, RecvPcs
<1>6. fn \in Fns /\ env \in Env
  BY <1>5, InCall DEF Typed, TypeOK, DeskInv
<1> QED
  BY <1>1, <1>2, <1>4, <1>5, <1>6, RequestNames

LEMMA ZRecvByeFrame ==
    ASSUME Typed, ZRecvBye
    PROVE  /\ conn' = "lost" /\ toD' = toD /\ zpc' = "off" /\ zreq' = NoMsg
           /\ UNCHANGED <<zaurus, ses>>
BY DEF ZRecvBye, ZHangUp

LEMMA DeviceDealing ==
    ASSUME Typed, Turns, Paired, Dealing, Device, UNCHANGED deskVars
    PROVE  Dealing'
<1>a. pc' = pc /\ fn' = fn /\ env' = env /\ DeskTurn' = DeskTurn
  BY DEF deskVars, DeskTurn
<1>b. RequestMsg(fn, env)' = RequestMsg(fn, env)
  BY <1>a
<1>1. CASE ZReceiving
  <2>1. zpc' = "rqst_send" => pc # "wr_msg"
    <3>1. CASE ZRecvAck
      BY <3>1, <1>1, ZReceivingFrame DEF ZRecvAck, Arrived, Dealing
    <3>2. CASE ZRecvRequest \/ ZRecvRqst
      BY <3>2 DEF ZRecvRequest, ZRecvRqst, ZGoto
    <3> QED
      BY <1>1, <3>1, <3>2 DEF ZReceiving
  <2> QED
    BY <2>1, <1>1, <1>a, <1>b, ZReceivingFrame DEF Dealing, AckPcs, RecvPcs
<1>2. CASE ZSending
  BY <1>2, <1>a, <1>b, ZSendingFrame DEF Dealing
<1>3. CASE ZReply
  BY <1>3, <1>a, <1>b, ZReplyFrame DEF Dealing
<1>4. CASE ZRecvBye
  BY <1>4, <1>a, <1>b, ZRecvByeFrame DEF Dealing
<1> QED
  BY <1>1, <1>2, <1>3, <1>4, DeviceSplit

\* What a reply does to the session of the Zaurus.
LEMMA ServedSession ==
    ASSUME ZTypeOK, NEW m, Served(m)
    PROVE  /\ ses'.served = ses.served \cup {m.type}
           /\ ses'.authed <=> ses.authed \/ m.type = "RRL"
           /\ m.type = "RMG" => ses'.wants = m.sync /\ ses'.reported = zaurus.slow
           /\ m.type # "RMG" => ses'.wants = ses.wants /\ ses'.reported = ses.reported
           /\ m.type \in TypedRequests => ses'.named = m.sync
           /\ m.type \notin TypedRequests => ses'.named = ses.named
           /\ zaurus'.locked = zaurus.locked
BY DEF Served, ZTypeOK, ZSession, ZStore

LEMMA DeviceAnswered ==
    ASSUME Typed, Turns, Paired, Dealing, Answered, Device, UNCHANGED deskVars
    PROVE  Answered'
<1>a. pc' = pc /\ fn' = fn /\ env' = env /\ rmsg' = rmsg
  BY DEF deskVars
<1>1. CASE ZReply
  <2>1. /\ pc = "wr_msg" /\ fn \in Fns /\ env \in Env /\ zreq = RequestMsg(fn, env)
        /\ zreq.type = RequestOf[fn] /\ Head(toD') \in Replies(zreq) /\ Served(zreq)
    BY <1>1, ZReplyFrame
  <2> DEFINE m == Head(toD')
  <2>2. RequestOf[fn] \in ses'.served
    BY <2>1, ServedSession DEF Typed, TypeOK
  <2>3. ASSUME fn = "sync_state"
        PROVE  ses'.wants = env.type /\ ses'.reported \subseteq m.slow
    <3>1. zreq.type = "RMG" /\ zreq.sync = env.type
      BY <2>1, <2>3, RequestParts DEF RequestOf, TypedFns
    <3>2. m.slow = zaurus.slow
      <4>1. m = Msg("AMG", "unset", zaurus.slow, FALSE)
        <5>1. ReplyTo[zreq.type] = "AMG"
          BY <3>1 DEF ReplyTo
        <5> QED
          BY <2>1, <5>1 DEF Replies
      <4> QED
        BY <4>1 DEF Msg
    <3> QED
      BY <2>1, <3>1, <3>2, ServedSession DEF Typed, TypeOK
  <2> QED
    BY <2>1, <2>2, <2>3, <1>a DEF Answered, Told
<1>2. CASE ZSending
  <2>1. toD' # <<>> /\ UNCHANGED ses
    BY <1>2, ZSendingFrame
  <2>2. pc = "wr_msg" => Head(toD').type # ReplyTo[RequestOf[fn]]
    BY <1>2, MisplacedIsNoAnswer
  <2> QED
    BY <2>1, <2>2, <1>a DEF Answered, Told, DeskTurn
<1>3. CASE ZReceiving \/ ZRecvBye
  BY <1>3, <1>a, ZReceivingFrame, ZRecvByeFrame DEF Answered, Told
<1> QED
  BY <1>1, <1>2, <1>3, DeviceSplit

LEMMA DeviceInitiated ==
    ASSUME Typed, Turns, Paired, FormatKept, Ordered, Device, UNCHANGED deskVars
    PROVE  Initiated' /\ Ready' /\ Ending' /\ SlowSyncPrepared'
<1>a. UNCHANGED <<call, fn, env, synced>>
  BY DEF deskVars
<1>b. Before(fn)' = Before(fn) /\ RequiresSlowSync(env)' = RequiresSlowSync(env)
  BY <1>a
<1>1. CASE ZReply
  <2>1. /\ fn \in Fns /\ env \in Env /\ zreq = RequestMsg(fn, env)
        /\ zreq.type = RequestOf[fn] /\ Served(zreq) /\ pc = "wr_msg"
        /\ zreq' = zreq /\ zpc = "rep_send" /\ zpc' = "ack_wait"
    BY <1>1, ZReplyFrame DEF Ordered
  <2>2. /\ ses'.served = ses.served \cup {zreq.type}
        /\ ses'.authed <=> ses.authed \/ zreq.type = "RRL"
        /\ fn # "sync_state" => ses'.wants = ses.wants /\ ses'.reported = ses.reported
    BY <2>1, ServedSession, RequestParts DEF Typed, TypeOK
  <2>3. fn = "sync_state" => call = "initiate" /\ ~synced
    BY <2>1 DEF Typed, DeskShape, FormatKept, TypeOK, DeskTypeOK, Calls, DataCalls
  <2>4. Initiated'
    BY <2>2, <1>a, <1>b DEF Ordered, Initiated, AfterState
  <2>5. Ready'
    BY <2>2, <2>3, <1>a DEF Ordered, Ready, DataCalls
  <2>6. Ending'
    BY <2>1, <2>2 DEF Ordered, Ending
  <2>7. SlowSyncPrepared'
    <3>1. zreq.type = "RMG" <=> fn = "sync_state"
      BY <2>1, RequestParts
    <3> QED
      BY <2>1, <2>2, <3>1 DEF Ordered, SlowSyncPrepared
  <2> QED
    BY <2>4, <2>5, <2>6, <2>7
<1>2. CASE ZReceiving
  <2>1. Initiated' /\ Ready'
    BY <1>2, <1>a, <1>b, ZReceivingFrame DEF Ordered, Initiated, Ready
  <2>2. Ending'
    BY <1>2, ZReceivingFrame DEF Ordered, Ending, Dealing
  <2>3. SlowSyncPrepared'
    <3>1. CASE zreq' = zreq
      BY <1>2, <3>1, ZReceivingFrame DEF Ordered, SlowSyncPrepared
    <3>2. CASE zreq' = RequestMsg(fn, env) /\ pc \in AckPcs
      <4>1. fn \in Fns /\ env \in Env
        BY <3>2, InCall DEF Typed, TypeOK, DeskInv, AckPcs
      <4>2. ASSUME zreq'.type \in {"RSY", "RDR", "RDD", "RDS"}
            PROVE  /\ zreq'.sync = env.type
                   /\ env.type \in ses.reported => {"RMS", "RTS", "RSS"} \subseteq ses.served
        <5>1. fn \in DataCalls /\ fn \in TypedFns
          BY <3>2, <4>1, <4>2, RequestNames, RequestParts DEF TypedFns
        <5>2. call \in DataCalls
          BY <5>1, <4>1 DEF Typed, TypeOK, DeskTypeOK, DeskShape, Calls, DataCalls, InitiateFns
        <5>3. "RTS" \in Promised("initiate")
          BY DEF Promised
        <5> QED
          BY <3>2, <4>1, <5>1, <5>2, <5>3, RequestParts DEF Ordered, Ready
      <4>3. ses' = ses
        BY <1>2, ZReceivingFrame DEF Ordered
      <4> QED
        BY <4>2, <4>3 DEF SlowSyncPrepared
    <3> QED
      BY <1>2, <3>1, <3>2, ZReceivingFrame DEF Ordered
  <2> QED
    BY <2>1, <2>2, <2>3
<1>3. CASE ZSending
  <2>1. Initiated' /\ Ready'
    BY <1>3, <1>a, <1>b, ZSendingFrame DEF Ordered, Initiated, Ready
  <2>2. Ending' /\ SlowSyncPrepared'
    BY <1>3, ZSendingFrame DEF Ordered, Ending, SlowSyncPrepared, Dealing
  <2> QED
    BY <2>1, <2>2
<1>4. CASE ZRecvBye
  <2>1. Initiated' /\ Ready'
    BY <1>4, <1>a, <1>b, ZRecvByeFrame DEF Ordered, Initiated, Ready
  <2>2. Ending' /\ SlowSyncPrepared'
    BY <1>4, ZRecvByeFrame DEF Ordered, Ending, SlowSyncPrepared, NoMsg, Plain, Msg
  <2> QED
    BY <2>1, <2>2
<1> QED
  BY <1>1, <1>2, <1>3, <1>4, DeviceSplit
-----------------------------------------------------------------------------
LEMMA ProgramOrdered ==
    ASSUME Typed, Turns, Paired, Ordered, Program, UNCHANGED zVars
    PROVE  Ordered'
<1>1. /\ UNCHANGED chanVars /\ pc = "idle" /\ pc' \in {"idle", "ws_rqst"}
      /\ call' # "initiate" /\ call = "none"
      /\ synced' \/ call' \in DataCalls => synced /\ env'.type = env.type
  <2>1. pc = "idle" /\ call = "none" /\ env \in Env /\ synced \in BOOLEAN
    BY DEF Program, SetSyncType, SetZaurusIp, SetPasscode, InitiateUnset, BeginCall,
         ItemOfOtherType, Idle, Typed, TypeOK, DeskTypeOK, DeskShape
  <2>2. ASSUME NEW t \in AnySyncType, SetSyncType(t)
        PROVE  /\ UNCHANGED <<chanVars, pc, call, synced>> /\ ~synced
    BY <2>2 DEF SetSyncType
  <2>3. CASE SetZaurusIp \/ \E p \in Passcodes : SetPasscode(p)
    BY <2>3, <2>1 DEF SetZaurusIp, SetPasscode, Env, DataCalls
  <2>4. CASE InitiateUnset \/ ItemOfOtherType
    BY <2>4, <2>1 DEF InitiateUnset, ItemOfOtherType, ReturnFrom, DataCalls
  <2>5. ASSUME NEW c \in DataCalls \cup {"terminate"}, BeginCall(c)
        PROVE  /\ UNCHANGED <<chanVars, env>> /\ pc' = "ws_rqst" /\ call' = c
               /\ synced' \/ c \in DataCalls => synced
    BY <2>1, <2>5 DEF BeginCall
  <2> QED
    BY <2>1, <2>2, <2>3, <2>4, <2>5 DEF Program, DataCalls
<1>2. pc' \notin AckPcs \cup RecvPcs \cup GreetPcs /\ ~DeskTurn'
  BY <1>1 DEF AckPcs, RecvPcs, GreetPcs, DeskTurn
<1>3. Dealing'
  BY <1>1, <1>2 DEF Ordered, Dealing, AckPcs, chanVars, zVars
<1>4. Answered'
  BY <1>1 DEF Answered
<1>5. Initiated' /\ Ready'
  BY <1>1 DEF Initiated, Ordered, Ready, zVars
<1>6. Ending' /\ SlowSyncPrepared'
  BY DEF Ordered, Ending, SlowSyncPrepared, zVars
<1> QED
  BY <1>3, <1>4, <1>5, <1>6 DEF Ordered

\* A connection that comes, fails to come, or breaks, and the user's hands.
LEMMA NetworkOrdered ==
    ASSUME Typed, Turns, FormatKept, Ordered,
           StartSession \/ FailToConnect \/ Drop \/ UserStep
    PROVE  Ordered'
<1>n. NoMsg.type = "none" /\ NoMsg.sync = "unset"
  BY DEF NoMsg, Plain, Msg
<1>1. CASE StartSession
  <2>1. /\ conn' = "up" /\ toZ' = <<>> /\ toD' = <<>> /\ call' = "initiate"
        /\ fn' = "greet" /\ pc' = "greet_send" /\ ~synced'
        /\ zpc' = "req_wait" /\ zreq' = NoMsg /\ ses' = NewSession
    BY <1>1 DEF StartSession, Connect, ZAccept
  <2>2. Before(fn') = {} /\ fn' \notin AfterState
    BY <2>1 DEF Before, AfterState
  <2>3. Dealing' /\ Answered'
    BY <2>1 DEF Dealing, Answered, AckPcs, RecvPcs, GreetPcs
  <2>4. Initiated' /\ Ready'
    BY <2>1, <2>2 DEF Initiated, Ready, DataCalls
  <2>5. Ending' /\ SlowSyncPrepared'
    BY <2>1, <1>n DEF Ending, SlowSyncPrepared, NewSession
  <2> QED
    BY <2>3, <2>4, <2>5 DEF Ordered
<1>2. CASE FailToConnect
  <2>1. /\ UNCHANGED <<env, ses, synced>> /\ pc' = "idle" /\ call' = "none"
        /\ pc = "idle"
        /\ \/ conn' = "up" /\ UNCHANGED <<chanVars, zVars>>
           \/ conn' # "up" /\ zpc' = "off" /\ zreq' = NoMsg
    <3>1. synced \in BOOLEAN
      BY DEF Typed, TypeOK, DeskTypeOK
    <3> QED
      BY <3>1, <1>2 DEF FailToConnect, ConnectFails, InitiateReady, Idle, ReturnFrom,
           chanVars, zVars, ZHangUp
  <2>2. pc' \notin AckPcs \cup RecvPcs \cup GreetPcs /\ ~DeskTurn'
    BY <2>1 DEF AckPcs, RecvPcs, GreetPcs, DeskTurn
  <2>3. Dealing' /\ Answered'
    BY <2>1, <2>2 DEF Ordered, Dealing, Answered, AckPcs, chanVars, zVars
  <2>4. Initiated' /\ Ready'
    BY <2>1 DEF Initiated, Ordered, Ready, DataCalls
  <2>5. Ending' /\ SlowSyncPrepared'
    BY <2>1, <1>n DEF Ordered, Ending, SlowSyncPrepared, zVars
  <2> QED
    BY <2>3, <2>4, <2>5 DEF Ordered
<1>3. CASE Drop
  <2>1. /\ UNCHANGED <<env, call, fn, pc, rmsg, synced, ses>>
        /\ toD' \in {toD, <<>>} /\ conn' = "lost" /\ zpc' = "off" /\ zreq' = NoMsg
    BY <1>3 DEF Drop, deskVars, ZHangUp
  <2>2. Before(fn)' = Before(fn) /\ RequiresSlowSync(env)' = RequiresSlowSync(env)
    BY <2>1
  <2>3. Dealing' /\ Answered'
    BY <2>1 DEF Ordered, Dealing, Answered, Told, DeskTurn
  <2>4. Initiated' /\ Ready'
    BY <2>1, <2>2 DEF Initiated, Ordered, Ready
  <2>5. Ending' /\ SlowSyncPrepared'
    BY <2>1, <1>n DEF Ordered, Ending, SlowSyncPrepared
  <2> QED
    BY <2>3, <2>4, <2>5 DEF Ordered
<1>4. CASE UserStep
  <2>1. UNCHANGED <<env, call, fn, pc, rmsg, synced, ses, conn, toZ, toD, zpc, zreq>>
    BY <1>4 DEF UserStep, UserLocks, UserClearsState, deskVars, chanVars
  <2>2. /\ Before(fn)' = Before(fn) /\ RequiresSlowSync(env)' = RequiresSlowSync(env)
        /\ RequestMsg(fn, env)' = RequestMsg(fn, env) /\ DeskTurn' = DeskTurn
    BY <2>1 DEF DeskTurn
  <2>3. Dealing' /\ Answered'
    BY <2>1, <2>2 DEF Ordered, Dealing, Answered, Told
  <2>4. Initiated' /\ Ready'
    BY <2>1, <2>2 DEF Initiated, Ordered, Ready
  <2>5. Ending' /\ SlowSyncPrepared'
    BY <2>1 DEF Ordered, Ending, SlowSyncPrepared
  <2> QED
    BY <2>3, <2>4, <2>5 DEF Ordered
<1> QED
  BY <1>1, <1>2, <1>3, <1>4

LEMMA OrderedStep ==
    ASSUME Typed, Turns, Paired, FormatKept, Ordered, [Next]_vars
    PROVE  Ordered'
<1>1. CASE DesktopStep
  <2>1. CASE Program
    BY <1>1, <2>1, ProgramOrdered DEF DesktopStep
  <2>2. CASE Library
    <3>1. UNCHANGED zVars
      BY <1>1 DEF DesktopStep
    <3>2. Dealing'
      BY <2>2, <3>1, LibrarySplit, GoesOnDealing, EndDealing DEF Ordered
    <3>3. Answered'
      BY <2>2, <3>1, LibraryAnswered DEF Ordered
    <3>4. Initiated' /\ Ready'
      BY <2>2, <3>1, LibraryInitiated DEF Ordered
    <3>5. Ending' /\ SlowSyncPrepared'
      BY <3>1 DEF Ordered, Ending, SlowSyncPrepared, zVars
    <3> QED
      BY <3>2, <3>3, <3>4, <3>5 DEF Ordered
  <2> QED
    BY <1>1, <2>1, <2>2 DEF DesktopStep
<1>2. CASE DeviceStep
  <2>1. Device /\ UNCHANGED deskVars
    BY <1>2 DEF DeviceStep
  <2>2. Dealing' /\ Answered'
    BY <2>1, DeviceDealing, DeviceAnswered DEF Ordered
  <2>3. Initiated' /\ Ready' /\ Ending' /\ SlowSyncPrepared'
    BY <2>1, DeviceInitiated
  <2> QED
    BY <2>2, <2>3 DEF Ordered
<1>3. CASE StartSession \/ FailToConnect \/ Drop \/ UserStep
  BY <1>3, NetworkOrdered
<1>4. CASE UNCHANGED vars
  <2>1. UNCHANGED <<env, call, fn, pc, rmsg, synced, ses, conn, toZ, toD, zpc, zreq>>
    BY <1>4 DEF vars, deskVars, chanVars, zVars
  <2>2. /\ Before(fn)' = Before(fn) /\ RequiresSlowSync(env)' = RequiresSlowSync(env)
        /\ RequestMsg(fn, env)' = RequestMsg(fn, env) /\ DeskTurn' = DeskTurn
    BY <2>1 DEF DeskTurn
  <2>3. Dealing' /\ Answered'
    BY <2>1, <2>2 DEF Ordered, Dealing, Answered, Told
  <2>4. Initiated' /\ Ready'
    BY <2>1, <2>2 DEF Initiated, Ordered, Ready
  <2>5. Ending' /\ SlowSyncPrepared'
    BY <2>1 DEF Ordered, Ending, SlowSyncPrepared
  <2> QED
    BY <2>3, <2>4, <2>5 DEF Ordered
<1> QED
  BY <1>1, <1>2, <1>3, <1>4 DEF Next

LEMMA OrderInvariant == Spec => []OrderInv
<1>1. Init => OrderInv
  <2> SUFFICES ASSUME Init PROVE OrderInv
    OBVIOUS
  <2>1. Typed
    BY TypedInit
  <2>2. Turns /\ Paired
    BY EmptySeq DEF Init, ChanInit, ZInit, Turns, Paired
  <2>3. FormatKept
    BY DEF Init, DeskInit, FormatKept, DataCalls
  <2>4. /\ Dealing /\ Answered /\ Initiated /\ Ready /\ Ending
    BY DEF Init, ChanInit, DeskInit, ZInit, NewSession, Dealing, DeskTurn,
         Answered, Initiated, Ready, Ending, DataCalls
  <2>5. SlowSyncPrepared
    BY DEF Init, ZInit, NoMsg, Plain, Msg, SlowSyncPrepared
  <2> QED
    BY <2>1, <2>2, <2>3, <2>4, <2>5 DEF OrderInv, Ordered
<1>2. OrderInv /\ [Next]_vars => OrderInv'
  BY TypedStep, TurnsStep, PairedStep, FormatStep, OrderedStep DEF OrderInv
<1> QED
  BY <1>1, <1>2, PTL DEF Spec

\* No item, list or notice goes over the network in a slow sync before the log
\* was reset, the anchor moved and the items marked as new for its type, in
\* whatever session of whatever number of attempts (zdtm_initiate_sync).
THEOREM SlowSyncIsPrepared == Spec => []SlowSyncPrepared
BY OrderInvariant, PTL DEF OrderInv, Ordered

\* A call that returns 0, other than zdtm_terminate_sync, has had every request
\* it stands for answered in this session: no refusal, no reply to another
\* request and no reply in place of an ACK or a RQST passes for an answer
\* (the comparisons of the reply's type, and the exchanges around them).  Of
\* zdtm_terminate_sync it is false (GoodbyeIsGranted, zdtm_sync.c:493-495).
THEOREM SuccessMeansServed == Spec => SuccessIsHonest
<1>1. OrderInv /\ [Next]_vars
        => [ret' # ret /\ ret'.code = 0 /\ ret'.call # "terminate"
              => Promised(ret'.call) \subseteq ses.served]_vars
  <2> SUFFICES ASSUME OrderInv, Next, ret' # ret, ret'.code = 0, ret'.call # "terminate"
               PROVE  Promised(ret'.call) \subseteq ses.served
    OBVIOUS
  <2> USE DEF OrderInv
  <2>p. Promised("none") = {}
    BY DEF Promised
  <2>1. CASE StartSession
    BY <2>1, <2>p DEF StartSession, Connect, NoReturn
  <2>2. CASE FailToConnect
    BY <2>2 DEF FailToConnect, ConnectFails, ReturnFrom
  <2>3. CASE Drop \/ DeviceStep \/ UserStep
    BY <2>3 DEF Drop, DeviceStep, UserStep, deskVars
  <2>4. CASE DesktopStep /\ Program
    BY <2>4, <2>p DEF DesktopStep, Program, SetSyncType, SetZaurusIp, SetPasscode, InitiateUnset,
         BeginCall, ItemOfOtherType, ReturnFrom, NoReturn
  <2>5. CASE DesktopStep /\ Library
    <3>1. CASE GoesOn
      BY <3>1, GoesOnFrame
    <3>2. CASE Gives
      BY <3>2, <2>p, GivesFrame
    <3>3. CASE WrAckAccepted
      <4>a. /\ pc = "wr_ack" /\ Accepts(fn, refused, rmsg) /\ fn \in Fns
        BY <3>3, AcceptedFrame
      <4>1. CASE call = "initiate" /\ call' = "none"
        <5>1. fn = "param_format" /\ ret'.call = "initiate"
          BY <3>3, <4>1, AcceptedFrame DEF DataCalls
        <5>2. rmsg.type = "ADI"
          BY <5>1, <4>a DEF Accepts, TypeChecked, ReplyTo, RequestOf
        <5>3. "RDI" \in ses.served
          BY <5>1, <5>2, <4>a DEF Ordered, Answered, Told, ReplyTo, RequestOf
        <5>4. {"RAY", "RIG", "RMG", "RTG", "RTS"} \subseteq ses.served
          BY <5>1, <4>1 DEF Ordered, Initiated, Before
        <5> QED
          BY <5>1, <5>3, <5>4 DEF Promised
      <4>2. CASE call \in DataCalls
        <5>1. fn = call /\ ret'.call = call
          BY <3>3, <4>2, AcceptedFrame DEF DataCalls
        <5>2. rmsg.type = ReplyTo[RequestOf[fn]]
          BY <5>1, <4>2, <4>a DEF Accepts, TypeChecked, DataCalls
        <5>3. RequestOf[call] \in ses.served
          BY <5>1, <5>2, <4>a DEF Ordered, Answered, Told
        <5>4. Promised(call) = {RequestOf[call]}
          BY <4>2 DEF Promised, DataCalls
        <5> QED
          BY <5>1, <5>3, <5>4
      <4> QED
        BY <3>3, <4>1, <4>2, AcceptedFrame
    <3> QED
      BY <2>5, <3>1, <3>2, <3>3, LibrarySplit
  <2> QED
    BY <2>1, <2>2, <2>3, <2>4, <2>5 DEF Next, DesktopStep
<1> QED
  BY <1>1, OrderInvariant, PTL DEF Spec, SuccessIsHonest
-----------------------------------------------------------------------------
(***************************************************************************)
(* The orders of SyncService.                                              *)
(***************************************************************************)
\* The services before each service.
LEMMA DueServices ==
    /\ Service!Due("RAY") = {} /\ Service!Due("RQT") = {}
    /\ Service!Due("RIG") = {"RAY"} /\ Service!Due("RRL") = {"RAY"}
    /\ Service!Due("RMG") \subseteq {"RIG", "RRL"}
    /\ "RRL" \in Service!Due("RMG") => zaurus.locked
    /\ Service!Due("RTG") = {"RMG"} /\ Service!Due("RMS") = {"RTG"}
    /\ Service!Due("RTS") \subseteq {"RTG", "RMS"}
    /\ "RMS" \in Service!Due("RTS") => ses.wants \in ses.reported
    /\ Service!Due("RSS") = {"RMS", "RTS"}
    /\ Service!Due("RDI") \subseteq {"RTS", "RSS"}
    /\ "RSS" \in Service!Due("RDI") => ses.wants \in ses.reported
    /\ \A r \in {"RSY", "RDR", "RDD", "RDS"} : Service!Due(r) = {"RDI"}
<1> USE DEF Service!Due, Service!ItemRequests, Service!SlowSync
<1>1. Service!Due("RAY") = {} /\ Service!Due("RQT") = {}
  OBVIOUS
<1>2. Service!Due("RIG") = {"RAY"} /\ Service!Due("RRL") = {"RAY"}
  OBVIOUS
<1>3. Service!Due("RMG") = {"RIG"} \cup (IF zaurus.locked THEN {"RRL"} ELSE {})
  OBVIOUS
<1>4. Service!Due("RTG") = {"RMG"} /\ Service!Due("RMS") = {"RTG"}
  OBVIOUS
<1>5. Service!Due("RTS") =
        {"RTG"} \cup (IF ses.wants \in ses.reported THEN {"RMS"} ELSE {})
  OBVIOUS
<1>6. Service!Due("RSS") = {"RMS", "RTS"}
  OBVIOUS
<1>7. Service!Due("RDI") =
        {"RTS"} \cup (IF ses.wants \in ses.reported THEN {"RSS"} ELSE {})
  OBVIOUS
<1>8. \A r \in {"RSY", "RDR", "RDD", "RDS"} : Service!Due(r) = {"RDI"}
  OBVIOUS
<1> HIDE DEF Service!Due
<1> QED
  BY <1>1, <1>2, <1>3, <1>4, <1>5, <1>6, <1>7, <1>8

\* What is due for the request of fn has been served when the Zaurus answers
\* it: the first for every device, the second for one with a passcode.
LEMMA RequestIsDue ==
    ASSUME OrderInv, ZReply
    PROVE  /\ Service!Due(zreq.type) \subseteq ses.served
           /\ "RQT" \notin ses.served /\ zpc # "off"
           /\ fn \in TypedFns \ {"sync_state"} => zreq.sync = ses.wants
<1>1. /\ fn \in Fns /\ env \in Env /\ zreq = RequestMsg(fn, env) /\ pc = "wr_msg"
      /\ zreq.type = RequestOf[fn] /\ zpc = "rep_send" /\ ~MustGiveUp(zreq)
  BY ZReplyFrame DEF OrderInv, Ordered
<1>2. "RQT" \notin ses.served
  BY <1>1 DEF OrderInv, Ordered, Ending
<1>3. \/ call = "initiate" /\ fn \in InitiateFns
      \/ call \in DataCalls /\ fn = call
      \/ call = "terminate" /\ fn = call
  BY <1>1 DEF OrderInv, Typed, TypeOK, DeskTypeOK, DeskShape, Calls
<1> SUFFICES /\ Service!Due(zreq.type) \subseteq ses.served
             /\ fn \in TypedFns \ {"sync_state"} => zreq.sync = ses.wants
  BY <1>1, <1>2
<1>4. CASE call = "initiate" /\ fn \in InitiateFns
  <2>1. /\ Before(fn) \subseteq ses.served
        /\ fn \in AfterState => ses.wants = env.type /\ ses.reported \subseteq env.slow
        /\ fn = "set_last_time" /\ RequiresSlowSync(env) => "RMS" \in ses.served
        /\ fn = "param_format" /\ env.type \in ses.reported
             => {"RMS", "RSS"} \subseteq ses.served
    BY <1>4 DEF OrderInv, Ordered, Initiated
  <2>2. fn \in TypedFns \ {"sync_state"} => fn \in AfterState /\ zreq.sync = env.type
    BY <1>1, <1>4, RequestParts DEF TypedFns, AfterState, InitiateFns, DataCalls
  <2>3. CASE fn \in {"greet", "check_auth", "device_info", "auth"}
    BY <1>1, <2>1, <2>2, <2>3, DueServices DEF AfterState, Before, RequestOf
  <2>4. CASE fn = "sync_state"
    <3>1. zreq.type = "RMG"
      BY <1>1, <2>4 DEF RequestOf
    <3>2. zaurus.locked => "RRL" \in ses.served
      BY <1>1, <3>1 DEF MustGiveUp, OpenRequests, OrderInv, Ordered, Ending
    <3>3. "RIG" \in ses.served
      BY <2>1, <2>4 DEF Before
    <3> QED
      BY <2>4, <3>1, <3>2, <3>3, DueServices
  <2>5. CASE fn = "last_time"
    BY <1>1, <2>1, <2>2, <2>5, DueServices DEF AfterState, Before, RequestOf
  <2>6. CASE fn \in {"reset_log_0", "reset_log_5"}
    BY <1>1, <2>1, <2>2, <2>6, DueServices DEF AfterState, Before, RequestOf
  <2>7. CASE fn = "set_last_time"
    <3>1. zreq.type = "RTS" /\ "RTG" \in ses.served
      BY <1>1, <2>1, <2>7 DEF Before, RequestOf
    <3>2. ses.wants \in ses.reported => "RMS" \in ses.served
      BY <2>1, <2>7 DEF RequiresSlowSync, AfterState
    <3> QED
      BY <2>1, <2>2, <3>1, <3>2, DueServices
  <2>8. CASE fn = "reset_state"
    BY <1>1, <2>1, <2>2, <2>8, DueServices DEF AfterState, Before, RequestOf
  <2>9. CASE fn = "param_format"
    <3>1. zreq.type = "RDI" /\ "RTS" \in ses.served
      BY <1>1, <2>1, <2>9 DEF Before, RequestOf
    <3>2. ses.wants \in ses.reported => "RSS" \in ses.served
      BY <2>1, <2>9 DEF AfterState
    <3> QED
      BY <2>1, <2>2, <3>1, <3>2, DueServices
  <2> QED
    BY <1>4, <2>3, <2>4, <2>5, <2>6, <2>7, <2>8, <2>9
       DEF InitiateFns
<1>5. CASE call \in DataCalls /\ fn = call
  <2>1. Promised("initiate") \subseteq ses.served /\ ses.wants = env.type
    BY <1>5 DEF OrderInv, Ordered, Ready
  <2>2. "RDI" \in ses.served
    BY <2>1 DEF Promised
  <2>3. zreq.type \in {"RSY", "RDR", "RDD", "RDS"} /\ zreq.sync = env.type
    BY <1>1, <1>5, RequestParts DEF TypedFns
  <2>4. Service!Due(zreq.type) = {"RDI"}
    BY <2>3, DueServices
  <2> QED
    BY <2>1, <2>2, <2>3, <2>4
<1>6. CASE call = "terminate" /\ fn = call
  <2>1. zreq.type = "RQT"
    BY <1>1, <1>6 DEF RequestOf
  <2> QED
    BY <1>6, <2>1, DueServices DEF TypedFns, DataCalls
<1> QED
  BY <1>3, <1>4, <1>5, <1>6

LEMMA ReplyIsService ==
    ASSUME OrderInv, ZReply
    PROVE  Service!Next
<1>1. /\ fn \in Fns /\ env \in Env /\ zreq = RequestMsg(fn, env) /\ zpc' = "ack_wait"
      /\ zreq.type = RequestOf[fn] /\ Served(zreq) /\ ZTypeOK
  BY ZReplyFrame DEF OrderInv, Ordered, Typed, TypeOK
<1>2. /\ Service!Due(zreq.type) \subseteq ses.served
      /\ "RQT" \notin ses.served /\ zpc # "off"
      /\ fn \in TypedFns \ {"sync_state"} => zreq.sync = ses.wants
  BY RequestIsDue
<1>3. /\ ses'.served = ses.served \cup {zreq.type}
      /\ zreq.type = "RMG" => ses'.wants = zreq.sync /\ ses'.reported = zaurus.slow
      /\ zreq.type # "RMG" => ses'.wants = ses.wants /\ ses'.reported = ses.reported
      /\ zreq.type \in TypedRequests => ses'.named = zreq.sync
      /\ zreq.type \notin TypedRequests => ses'.named = ses.named
      /\ zaurus'.locked = zaurus.locked
  BY <1>1, ServedSession
<1>4. /\ zreq.type \in RequestTypes /\ zreq.sync \in AnySyncType
      /\ zaurus.slow \in SUBSET SyncTypes
      /\ zreq.type \in TypedRequests => fn \in TypedFns
      /\ zreq.type = "RMG" <=> fn = "sync_state"
  <2>1. zreq \in Message
    BY <1>1 DEF ZTypeOK
  <2> QED
    BY <1>1, <2>1, RequestNames, RequestParts DEF Message, ZTypeOK, ZStore
<1>5. Service!Serve(zreq.type, zreq.sync)
  BY <1>1, <1>2, <1>3, <1>4 DEF Service!Serve, Service!TypedRequests, TypedRequests,
     Service!AnySyncType
<1> QED
  BY <1>4, <1>5 DEF Service!Next, Service!RequestTypes, RequestTypes,
     Service!AnySyncType, AnySyncType

\* Everything the Zaurus serves, in any session of any number of attempts, is
\* one of the orders of SyncService: the log reset before the anchor is moved,
\* the items marked after it, all of one sync type and after the passcode.
THEOREM OrdersAreOfService == Spec => ImplementsService
<1>1. Init => Service!Init
  <2> SUFFICES ASSUME Init PROVE Service!Init
    OBVIOUS
  <2>1. zaurus.locked \in BOOLEAN
    BY ZaurusAssumption DEF Init, ZInit
  <2>2. (zpc # "off") = FALSE
    BY DEF Init, ZInit
  <2>3. /\ ses.served = {} /\ ses.wants = "unset" /\ ses.named = "unset"
        /\ ses.reported = {}
    BY DEF Init, ZInit, NewSession
  <2> QED
    BY <2>1, <2>2, <2>3, Zenon DEF Service!Init
<1>2. OrderInv /\ [Next]_vars => [Service!Next]_(Service!vars)
  <2> SUFFICES ASSUME OrderInv, [Next]_vars
               PROVE  Service!Next \/ UNCHANGED Service!vars
    OBVIOUS
  <2>a. zaurus \in ZStore
    BY DEF OrderInv, Typed, TypeOK, ZTypeOK
  <2>1. CASE StartSession
    BY <2>1 DEF StartSession, ZAccept, NewSession, Service!Next, Service!Open
  <2>2. CASE FailToConnect \/ Drop
    <3>1. UNCHANGED zVars \/ ZHangUp
      BY <2>2 DEF FailToConnect, Drop
    <3> QED
      BY <3>1 DEF ZHangUp, zVars, Service!Next, Service!Close, Service!vars
  <2>3. CASE DesktopStep \/ UNCHANGED vars
    BY <2>3 DEF DesktopStep, vars, zVars, Service!vars
  <2>4. CASE DeviceStep
    <3>1. CASE ZReply
      BY <3>1, ReplyIsService
    <3>2. CASE ZReceiving \/ ZSending
      <4>1. UNCHANGED <<zaurus, ses>> /\ (zpc = "off") = (zpc' = "off")
        BY <3>2, <2>4 DEF ZReceiving, ZSending, ZRecvRequest, ZRecvRqst, ZRecvAck,
             ZSendAck, ZAbort, ZSendAng, ZSendRqst, ZOdd, ZGoto
      <4> QED
        BY <4>1 DEF Service!vars
    <3>3. CASE ZRecvBye
      BY <3>3 DEF ZRecvBye, ZHangUp, Service!Next, Service!Close
    <3> QED
      BY <2>4, <3>1, <3>2, <3>3, DeviceSplit DEF DeviceStep
  <2>5. CASE UserStep
    <3>1. CASE UserLocks
      BY <3>1, <2>a DEF UserLocks, ZStore, Service!Next, Service!Relock
    <3>2. CASE UserClearsState
      BY <3>2, <2>a DEF UserClearsState, ZStore, Service!vars
    <3> QED
      BY <2>5, <3>1, <3>2 DEF UserStep
  <2> QED
    BY <2>1, <2>2, <2>3, <2>4, <2>5 DEF Next
<1> QED
  BY <1>1, <1>2, OrderInvariant, PTL DEF Spec, Service!Spec, ImplementsService
-----------------------------------------------------------------------------
(***************************************************************************)
(* The passcode.  In the first session of an environment nothing it knows  *)
(* of the device can be out of date.                                       *)
(***************************************************************************)
Unauthed == zaurus.locked /\ ~ses.authed

\* A device that wants a passcode says so.
TellsLock(m) == m.type = "AIG" /\ fn = "check_auth" => m.flag

\* With a device that has not had its passcode, initiate has not got past it.
Shut ==
    conn = "up" /\ Unauthed =>
        /\ ~synced /\ call \notin DataCalls
        /\ call = "initiate" => fn \in {"greet", "check_auth", "auth"}
        /\ pc = "wr_msg" /\ toD # <<>> => TellsLock(Head(toD))
        /\ pc = "wr_ack" => TellsLock(rmsg)

NothingStale ==
    /\ sessions = 0 =>
         /\ conn # "up" /\ ~env.gotInfo /\ ~synced
         /\ call \in {"none", "terminate"}
    /\ call = "initiate" /\ fn = "greet" => ~env.gotInfo

FirstSession == sessions <= 1 => NothingStale /\ Shut /\ AuthBeforeData

LEMMA LibraryFirst ==
    ASSUME OrderInv, NothingStale, Shut, Library, UNCHANGED <<zVars, sessions>>
    PROVE  NothingStale' /\ Shut'
<1> USE DEF OrderInv
<1>a. Unauthed' = Unauthed /\ sessions' = sessions
  BY DEF Unauthed, zVars
<1>1. CASE GoesOn
  <2>1. UNCHANGED <<env, call, fn, synced, conn>>
    BY <1>1, GoesOnFrame
  <2>2. \A m : TellsLock(m)' <=> TellsLock(m)
    BY <2>1 DEF TellsLock
  <2>3. Answered'
    BY <1>1, LibrarySplit, LibraryAnswered DEF Ordered
  <2>4. CASE WrRqst
    <3>1. toD' = <<>> /\ pc' = "wr_msg"
      BY <2>4 DEF WrRqst, Goto, SendToZaurus, Ordered, Dealing, DeskTurn
    <3> QED
      BY <3>1, <2>1, <1>a DEF NothingStale, Shut
  <2>5. CASE WrMsg
    BY <2>1, <2>2, <2>5, <1>a DEF WrMsg, RecvFromZaurus, NothingStale, Shut, TellsLock
  <2>6. CASE GreetSend \/ GreetAck \/ WsRqst \/ WsSend \/ WsAck \/ WrAbrt \/ ByeRqst
    <3>1. pc' \notin {"wr_msg", "wr_ack"}
      BY <2>6 DEF GreetSend, GreetAck, WsRqst, WsSend, WsAck, WrAbrt, ByeRqst, Goto
    <3> QED
      BY <3>1, <2>1, <1>a DEF NothingStale, Shut
  <2> QED
    BY <1>1, <2>4, <2>5, <2>6 DEF GoesOn
<1>2. CASE Gives
  <2>1. /\ UNCHANGED <<env, synced, conn>> /\ call' = "none" /\ pc' = "idle"
    BY <1>2, GivesFrame
  <2> QED
    BY <2>1, <1>a DEF NothingStale, Shut, DataCalls
<1>3. CASE WrAckAccepted
  <2>0. /\ pc = "wr_ack" /\ env \in Env /\ rmsg \in Message /\ conn' = conn
        /\ env' = Learn(env, fn, rmsg) /\ Accepts(fn, refused, rmsg)
        /\ pc' \in {"idle", "ws_rqst", "bye_rqst"}
    BY <1>3, AcceptedFrame
  <2>1. CASE call = "initiate"
    <3>1. /\ fn \in InitiateFns /\ call' \in {"initiate", "none"} /\ ~synced
          /\ call' = "initiate" => fn' = NextStep(fn, env') /\ fn' \in InitiateFns
          /\ synced' => fn = "param_format"
      BY <2>1, <1>3, AcceptedFrame DEF DataCalls, FormatKept
    <3>2. call' = "initiate" => fn' # "greet"
      BY <3>1 DEF NextStep, AfterAuthState, BeforeAnchor, AfterAnchor, ParamFormat,
           InitiateFns
    <3>3. ASSUME conn = "up", Unauthed
          PROVE  /\ call' = "initiate" => fn' \in {"check_auth", "auth"}
                 /\ ~synced'
      <4>1. fn \in {"greet", "check_auth", "auth"}
        BY <2>1, <3>3 DEF Shut
      <4>2. CASE fn = "greet"
        <5>1. env' = env /\ ~env.gotInfo
          BY <2>0, <2>1, <4>2 DEF Learn, NothingStale
        <5> QED
          BY <3>1, <4>2, <5>1 DEF NextStep
      <4>3. CASE fn = "check_auth"
        <5>1. rmsg.type = "AIG"
          BY <2>0, <4>3 DEF Accepts, TypeChecked, ReplyTo, RequestOf
        <5>2. env'.needPass
          BY <2>0, <3>3, <4>3, <5>1 DEF Shut, TellsLock, Learn, Env
        <5>3. NextStep(fn, env') = AfterAuthState(env')
          BY <4>3 DEF NextStep
        <5>4. AfterAuthState(env') \in {"auth", "no_passcode"}
          BY <5>2 DEF AfterAuthState
        <5> QED
          BY <3>1, <4>3, <5>3, <5>4 DEF InitiateFns
      <4>4. CASE fn = "auth"
        <5>1. rmsg.type = "AEX"
          BY <2>0, <4>4 DEF Accepts, TypeChecked, ReplyTo, RequestOf
        <5>2. "RRL" \in ses.served
          BY <2>0, <4>4, <5>1 DEF Ordered, Answered, Told, RequestOf, ReplyTo
        <5> QED
          BY <3>3, <5>2 DEF Unauthed, Ordered, Ending
      <4> QED
        BY <4>1, <4>2, <4>3, <4>4
    <3> QED
      BY <2>0, <2>1, <3>1, <3>2, <3>3, <1>a DEF NothingStale, Shut, DataCalls
  <2>2. CASE call \in DataCalls \cup {"terminate"}
    <3>1. synced' = synced /\ call' \in {"none", call} /\ fn = call
      BY <2>2, <1>3, AcceptedFrame DEF DataCalls
    <3>2. env' = env
      BY <2>0, <2>2, <3>1 DEF Learn, DataCalls
    <3> QED
      BY <2>0, <2>2, <3>1, <3>2, <1>a DEF NothingStale, Shut, DataCalls
  <2> QED
    BY <1>3, <2>1, <2>2, AcceptedFrame
<1> QED
  BY <1>1, <1>2, <1>3, LibrarySplit

LEMMA DeviceFirst ==
    ASSUME OrderInv, NothingStale, Shut, AuthBeforeData, Device,
           UNCHANGED <<deskVars, sessions>>
    PROVE  NothingStale' /\ Shut' /\ AuthBeforeData'
<1> USE DEF OrderInv
<1>a. UNCHANGED <<env, call, fn, pc, rmsg, synced, sessions>>
  BY DEF deskVars
<1>1. NothingStale'
  <2>1. conn' = "up" => conn = "up"
    BY DEF Device, ZRecvRequest, ZRecvBye, ZSendAck, ZRecvRqst, ZReply, ZAbort,
       ZSendAng, ZRecvAck, ZSendRqst, ZOdd, SendToDesktop, RecvFromDesktop
  <2> QED
    BY <2>1, <1>a DEF NothingStale
<1>2. CASE ZReply
  <2>1. /\ conn = "up" /\ pc = "wr_msg" /\ fn \in Fns /\ zreq.type = RequestOf[fn]
        /\ Head(toD') \in Replies(zreq) /\ Served(zreq) /\ zreq' = zreq
        /\ zpc = "rep_send"
    BY <1>2, ZReplyFrame DEF Ordered
  <2>2. Unauthed' => Unauthed
    BY <2>1, ServedSession DEF Unauthed, Typed, TypeOK
  <2>3. ASSUME Unauthed, fn = "check_auth" PROVE Head(toD').flag
    <3>1. ReplyTo[zreq.type] = "AIG"
      BY <2>1, <2>3 DEF ReplyTo, RequestOf
    <3>2. Head(toD') = Msg("AIG", "unset", {}, TRUE)
      BY <2>1, <2>3, <3>1 DEF Replies, Unauthed
    <3>3. Head(toD').flag = TRUE
      BY <3>2 DEF Msg
    <3> QED
      BY <3>3
  <2>4. Shut'
    BY <1>a, <2>1, <2>2, <2>3 DEF Shut, TellsLock
  <2>5. AuthBeforeData'
    BY <2>1, <2>2 DEF AuthBeforeData, Unauthed
  <2> QED
    BY <1>1, <2>4, <2>5
<1>3. CASE ZReceiving
  <2>1. /\ conn = "up" /\ toD' = toD /\ UNCHANGED <<zaurus, ses>>
        /\ \/ zreq' = zreq /\ zpc # "off"
           \/ pc \in AckPcs /\ zreq' = RequestMsg(fn, env)
    BY <1>3, ZReceivingFrame DEF Ordered
  <2>2. Shut'
    BY <1>a, <2>1 DEF Shut, TellsLock, Unauthed
  <2>3. ASSUME Unauthed, pc \in AckPcs
        PROVE  RequestMsg(fn, env).type \in OpenRequests
    <3>1. fn \in Fns /\ env \in Env /\ call \in Calls
      BY <2>3, InCall DEF Typed, TypeOK, DeskInv, AckPcs
    <3>2. fn \in {"greet", "check_auth", "auth", "terminate"}
      BY <2>1, <2>3, <3>1 DEF Shut, Typed, DeskShape, Calls
    <3> QED
      BY <3>1, <3>2, RequestNames DEF RequestOf, OpenRequests
  <2>4. AuthBeforeData'
    BY <2>1, <2>3 DEF AuthBeforeData, Unauthed
  <2> QED
    BY <1>1, <2>2, <2>4
<1>4. CASE ZSending
  <2>1. /\ conn = "up" /\ UNCHANGED <<zreq, zaurus, ses>> /\ zpc # "off"
        /\ pc = "wr_msg" => Head(toD').type # ReplyTo[RequestOf[fn]]
    BY <1>4, ZSendingFrame, MisplacedIsNoAnswer DEF Ordered, Dealing
  <2>2. Shut'
    BY <1>a, <2>1 DEF Shut, TellsLock, Unauthed, ReplyTo, RequestOf
  <2>3. AuthBeforeData'
    BY <2>1 DEF AuthBeforeData
  <2> QED
    BY <1>1, <2>2, <2>3
<1>5. CASE ZRecvBye
  BY <1>1, <1>5, ZRecvByeFrame DEF Shut, AuthBeforeData
<1> QED
  BY <1>2, <1>3, <1>4, <1>5, DeviceSplit

LEMMA FirstSessionStep ==
    ASSUME OrderInv, FirstSession, [Next]_vars
    PROVE  FirstSession'
<1>a. sessions \in Nat /\ sessions' \in Nat
  <2>1. TypeOK /\ TypeOK'
    BY TypedStep DEF OrderInv, Typed
  <2> QED
    BY <2>1, BoundAssumption DEF TypeOK
<1> SUFFICES ASSUME sessions' <= 1
             PROVE  NothingStale' /\ Shut' /\ AuthBeforeData'
  BY DEF FirstSession
<1>n. NoMsg.type = "none"
  BY DEF NoMsg, Plain, Msg
<1>1. CASE StartSession
  <2>1. /\ conn' = "up" /\ call' = "initiate" /\ fn' = "greet" /\ pc' = "greet_send"
        /\ ~synced' /\ zreq' = NoMsg /\ env' = env /\ sessions' = sessions + 1
    BY <1>1 DEF StartSession, Connect, ZAccept
  <2>2. sessions = 0 /\ ~env.gotInfo
    BY <2>1, <1>a DEF FirstSession, NothingStale
  <2> QED
    BY <2>1, <2>2, <1>n DEF NothingStale, Shut, AuthBeforeData, DataCalls
<1>o. CASE ~StartSession
  <2>0. sessions' = sessions
    BY <1>o DEF Next, FailToConnect, Drop, DesktopStep, DeviceStep, UserStep, vars
  <2>s. NothingStale /\ Shut /\ AuthBeforeData
    BY <2>0 DEF FirstSession
  <2>1. CASE FailToConnect
    <3>1. /\ UNCHANGED <<env, synced>> /\ pc' = "idle" /\ call' = "none"
          /\ \/ conn' = "up" /\ UNCHANGED <<chanVars, zVars>>
             \/ conn' # "up" /\ zpc' = "off"
      <4>1. synced \in BOOLEAN
        BY DEF OrderInv, Typed, TypeOK, DeskTypeOK
      <4> QED
        BY <4>1, <2>1 DEF FailToConnect, ConnectFails, ReturnFrom, chanVars, zVars, ZHangUp
    <3>2. NothingStale'
      BY <2>0, <2>s, <3>1 DEF NothingStale, chanVars
    <3>3. Shut' /\ AuthBeforeData'
      BY <2>s, <3>1 DEF Shut, AuthBeforeData, Unauthed, DataCalls, chanVars, zVars
    <3> QED
      BY <3>2, <3>3
  <2>2. CASE Drop
    BY <2>0, <2>s, <2>2 DEF Drop, deskVars, ZHangUp, NothingStale, Shut, AuthBeforeData
  <2>3. CASE DesktopStep
    <3>1. UNCHANGED <<zVars, sessions>>
      BY <2>3 DEF DesktopStep
    <3>2. AuthBeforeData'
      BY <2>s, <3>1 DEF AuthBeforeData, zVars
    <3>3. CASE Library
      BY <2>s, <3>1, <3>2, <3>3, LibraryFirst
    <3>4. CASE Program
      <4>1. /\ UNCHANGED chanVars /\ env'.gotInfo = env.gotInfo
            /\ pc' \in {"idle", "ws_rqst"}
            /\ \/ call' = "none" /\ synced' = synced
               \/ call' = "terminate" /\ ~synced'
               \/ call' \in DataCalls /\ synced
        <5>0. env \in Env /\ synced \in BOOLEAN /\ call = "none"
          BY <3>4 DEF Program, SetSyncType, SetZaurusIp, SetPasscode, InitiateUnset,
             BeginCall, ItemOfOtherType, Idle, OrderInv, Typed, TypeOK, DeskTypeOK, DeskShape
        <5>1. CASE \/ \E t \in AnySyncType : SetSyncType(t)
                   \/ SetZaurusIp
                   \/ \E p \in Passcodes : SetPasscode(p)
          BY <5>0, <5>1 DEF SetSyncType, SetZaurusIp, SetPasscode, Idle, Env
        <5>2. CASE InitiateUnset \/ ItemOfOtherType
          BY <5>0, <5>2 DEF InitiateUnset, ItemOfOtherType, ReturnFrom
        <5>3. CASE \E c \in DataCalls \cup {"terminate"} : BeginCall(c)
          BY <5>0, <5>3 DEF BeginCall
        <5> QED
          BY <3>4, <5>1, <5>2, <5>3 DEF Program
      <4>2. NothingStale'
        BY <2>0, <2>s, <4>1 DEF NothingStale, chanVars, DataCalls
      <4>3. Shut'
        BY <2>s, <3>1, <4>1 DEF Shut, Unauthed, chanVars, zVars, DataCalls
      <4> QED
        BY <3>2, <4>2, <4>3
    <3> QED
      BY <2>3, <3>3, <3>4 DEF DesktopStep
  <2>4. CASE DeviceStep
    BY <2>s, <2>4, DeviceFirst DEF DeviceStep
  <2>5. CASE UserStep
    <3>1. zpc = "off" /\ conn # "up"
      BY <2>5 DEF UserStep, UserLocks, UserClearsState, OrderInv, Ordered, Dealing
    <3>2. UNCHANGED <<deskVars, chanVars, sessions, zpc>>
      BY <2>5 DEF UserStep, UserLocks, UserClearsState
    <3> QED
      BY <2>s, <3>1, <3>2 DEF deskVars, chanVars, NothingStale, Shut, AuthBeforeData
  <2>6. CASE UNCHANGED vars
    BY <2>s, <2>6 DEF vars, deskVars, chanVars, zVars, NothingStale, Shut, Unauthed,
       TellsLock, AuthBeforeData
  <2> QED
    BY <1>o, <2>1, <2>2, <2>3, <2>4, <2>5, <2>6 DEF Next
<1> QED
  BY <1>1, <1>o

\* In the first session of an environment a locked device sees nothing but the
\* greeting, the device info, the passcode and the goodbye before it has taken
\* the passcode.  (zdtm_check_cur_auth_state asks the device once in the life
\* of an environment; from the second session on the answer may be stale.)
THEOREM PasscodeFirst == Spec => [](sessions <= 1 => AuthBeforeData)
<1>1. Init => FirstSession
  BY DEF Init, ChanInit, DeskInit, ZInit, FirstSession, NothingStale, Shut, AuthBeforeData
<1>2. OrderInv /\ FirstSession /\ [Next]_vars => FirstSession'
  BY FirstSessionStep
<1>3. FirstSession => (sessions <= 1 => AuthBeforeData)
  BY DEF FirstSession
<1> QED
  BY <1>1, <1>2, <1>3, OrderInvariant, PTL DEF Spec
-----------------------------------------------------------------------------
(***************************************************************************)
(* Nobody waits for ever for the other: for a Zaurus that never answers    *)
(* out of turn and a library that never runs out of memory.                *)
(***************************************************************************)
\* What the library awaits is on its way, or the Zaurus is about to send it,
\* or to receive what makes it send it.
Moving ==
    /\ pc \in AckPcs => toZ # <<>> \/ zpc = "ack_send" \/ Arrived(toD, "ACK")
    /\ pc \in {"idle", "ws_rqst", "bye_rqst"} =>
         \/ zpc = "ack_wait" /\ toZ # <<>>
         \/ zpc = "rqst_send"
         \/ Arrived(toD, "RQST")
         \/ pc # "bye_rqst" /\ zpc = "req_wait" /\ toZ # <<>>
    /\ pc = "wr_rqst" => zpc = IF refused THEN "ang_wait" ELSE "rep_wait"
    /\ pc = "wr_msg" =>
         \/ Arrived(toZ, "RQST") /\ zpc = IF refused THEN "ang_wait" ELSE "rep_wait"
         \/ zpc = "rep_send" /\ ~refused
         \/ zpc = "ang_send"
         \/ toD # <<>> /\ ~IsCommon(Head(toD))
         \/ Arrived(toD, "ABRT") /\ ~refused /\ (fn \in RefusableFns \/ ~AuthBeforeData)

\* After a refusal that no call expects: the library has returned without
\* asking for the ANG.
LeftBehind ==
    /\ pc \in {"idle", "ws_rqst"} /\ zpc = "ang_wait" /\ toZ = <<>> /\ toD = <<>>
    /\ ~AuthBeforeData

Reaching ==
    /\ refused => pc \in RecvPcs /\ fn \in RefusableFns
    /\ conn = "up" => Moving \/ LeftBehind

LEMMA GoesOnReaching ==
    ASSUME OrderInv, Reaching, GoesOn, UNCHANGED zVars
    PROVE  Reaching'
<1> USE DEF OrderInv
<1>a. /\ zpc' = zpc /\ conn' = conn /\ fn' = fn
      /\ AuthBeforeData' = AuthBeforeData
  BY GoesOnFrame DEF zVars, AuthBeforeData
<1>b. /\ Plain("RAY") \in Message /\ Plain("RQST") \in Message
      /\ Plain("RQST").type = "RQST"
  BY PlainType DEF MsgTypes, CommonTypes, RequestTypes, Plain, Msg
<1>1. CASE GreetSend \/ WsSend
  <2>1. /\ pc \in {"greet_send", "ws_send"} /\ pc' \in AckPcs /\ DeskTurn
        /\ refused' = refused
        /\ SendToZaurus(Plain("RAY")) \/ SendToZaurus(RequestMsg(fn, env))
    BY <1>1 DEF GreetSend, WsSend, Goto, AckPcs, DeskTurn
  <2>2. fn \in Fns /\ env \in Env
    BY <2>1, InCall DEF Typed, TypeOK, DeskInv
  <2>3. conn = "up" => toZ' # <<>>
    BY <1>b, <2>1, <2>2, RequestMsgType, DeskSent
  <2> QED
    BY <1>a, <2>1, <2>3 DEF Reaching, Moving, AckPcs, RecvPcs
<1>2. CASE WrRqst
  <2>1. /\ pc = "wr_rqst" /\ pc' = "wr_msg" /\ DeskTurn /\ refused' = refused
        /\ SendToZaurus(Plain("RQST"))
    BY <1>2 DEF WrRqst, Goto, DeskTurn
  <2>2. conn = "up" => Arrived(toZ', "RQST")
    BY <1>b, <2>1, DeskSent DEF Arrived
  <2> QED
    BY <1>a, <2>1, <2>2 DEF Reaching, Moving, LeftBehind, AckPcs, RecvPcs
<1>3. CASE GreetAck \/ WsAck
  <2>1. /\ pc \in AckPcs /\ pc' = "wr_rqst" /\ refused' = refused
        /\ RecvFromZaurus /\ toD # <<>> /\ Head(toD).type = "ACK"
    BY <1>3 DEF GreetAck, WsAck, Goto, AckPcs, Arrived
  <2>2. conn = "up" => zpc = "rep_wait"
    BY <2>1 DEF Paired, InStep, StreamPartner
  <2> QED
    BY <1>a, <2>1, <2>2 DEF Reaching, Moving, AckPcs, RecvPcs
<1>4. CASE WrAbrt
  <2>1. /\ pc = "wr_msg" /\ pc' = "wr_rqst" /\ refused' /\ fn \in RefusableFns
        /\ toD # <<>> /\ Head(toD).type = "ABRT"
    BY <1>4 DEF WrAbrt, Arrived
  <2>2. conn = "up" => zpc = "ang_wait"
    BY <2>1 DEF Paired, InStep, StreamPartner
  <2> QED
    BY <1>a, <2>1, <2>2 DEF Reaching, Moving, AckPcs, RecvPcs
<1>5. CASE WsRqst \/ WrMsg \/ ByeRqst
  <2>1. /\ pc' \in {"ws_send", "wr_ack", "bye_send"} /\ refused' = refused
        /\ pc \in RecvPcs => pc' \in RecvPcs
    BY <1>5 DEF WsRqst, WrMsg, ByeRqst, Goto, RecvPcs
  <2> QED
    BY <1>a, <2>1 DEF Reaching, Moving, AckPcs
<1> QED
  BY <1>1, <1>2, <1>3, <1>4, <1>5 DEF GoesOn

LEMMA EndReaching ==
    ASSUME OrderInv, Reaching, WrAckAccepted \/ Gives, UNCHANGED zVars,
           AllocMayFail = FALSE
    PROVE  Reaching'
<1> USE DEF OrderInv
<1>a. /\ zpc' = zpc /\ conn' = conn
      /\ AuthBeforeData' = AuthBeforeData
      /\ pc' \in {"idle", "ws_rqst", "bye_rqst"}
  BY GivesFrame, AcceptedFrame DEF zVars, AuthBeforeData
<1>b. /\ Plain("RAY") \in Message /\ Plain("ACK") \in Message
  BY PlainType DEF MsgTypes, CommonTypes, RequestTypes
<1>c. ~refused'
  <2>1. CASE Gives
    BY <2>1 DEF Gives, WrAckRejected, WrAckUnusable, ByeSend, UnexpectedCommon,
       UnexpectedGeneral, RecvBroken, RecvDiscards, SendFails, AuthNoMemory, Return,
       ReturnFrom
  <2>2. CASE WrAckAccepted
    <3>1. \/ ~refused'
          \/ refused' = refused /\ call = "terminate" /\ fn = call
      BY <2>2, AcceptedFrame DEF WrAckAccepted, Enter, Return, ReturnFrom
    <3> QED
      BY <3>1 DEF Reaching, RefusableFns
  <2> QED
    BY <2>1, <2>2
<1> SUFFICES ASSUME conn = "up"
             PROVE  \/ zpc = "ack_wait" /\ toZ' # <<>>
                    \/ pc' # "bye_rqst" /\ zpc = "req_wait" /\ toZ' # <<>>
                    \/ LeftBehind'
  BY <1>a, <1>c DEF Reaching, Moving, AckPcs
<1>1. CASE WrAckAccepted \/ WrAckRejected \/ WrAckUnusable
  <2>1. pc = "wr_ack" /\ DeskTurn /\ SendToZaurus(Plain("ACK"))
    BY <1>1 DEF WrAckAccepted, WrAckRejected, WrAckUnusable, DeskTurn
  <2> QED
    BY <1>b, <2>1, DeskSent DEF Paired, InStep, SendPartner
<1>2. CASE ByeSend
  <2>1. pc = "bye_send" /\ DeskTurn /\ SendToZaurus(Plain("RAY")) /\ pc' = "idle"
    BY <1>2 DEF ByeSend, DeskTurn, Return, ReturnFrom
  <2> QED
    BY <1>b, <2>1, DeskSent DEF Paired, InStep, SendPartner
\* A refusal that is not expected.
<1>3. CASE UnexpectedCommon
  <2>1. /\ RecvFromZaurus /\ pc \in {"greet_ack", "ws_rqst", "ws_ack", "wr_msg", "bye_rqst"}
        /\ IsCommon(Head(toD)) /\ Head(toD).type # Awaits(pc) /\ pc' = "idle"
        /\ ~(pc = "wr_msg" /\ fn \in RefusableFns /\ ~refused
             /\ Head(toD).type = "ABRT")
    BY <1>3 DEF UnexpectedCommon, Return, ReturnFrom
  <2>2. toD # <<>> /\ toZ = <<>> /\ ~ZTurn /\ toD' = <<>> /\ toZ' = <<>>
    BY <2>1, DeskGot
  <2>3. Moving
    BY <2>2 DEF Reaching, LeftBehind
  <2>4. pc = "wr_msg"
    BY <2>1, <2>2, <2>3 DEF Moving, AckPcs, Awaits, Arrived, ZTurn, ZSendPcs
  <2>5. Head(toD).type = "ABRT" /\ ~AuthBeforeData
    BY <2>1, <2>2, <2>3, <2>4 DEF Moving, Arrived, ZTurn, ZSendPcs
  <2>6. zpc = "ang_wait"
    BY <2>2, <2>5 DEF Paired, InStep, StreamPartner
  <2> QED
    BY <1>a, <2>1, <2>2, <2>5, <2>6 DEF LeftBehind
<1>4. ~UnexpectedGeneral
  <2> SUFFICES ASSUME UnexpectedGeneral PROVE FALSE
    OBVIOUS
  <2>1. /\ RecvFromZaurus /\ pc \in {"greet_ack", "ws_rqst", "ws_ack", "bye_rqst"}
        /\ Head(toD).type \notin {"ACK", "RQST"}
    BY DEF UnexpectedGeneral, IsCommon, CommonTypes
  <2>2. toD # <<>> /\ toZ = <<>> /\ ~ZTurn
    BY <2>1, DeskGot
  <2> QED
    BY <2>1, <2>2 DEF Reaching, LeftBehind, Moving, AckPcs, Arrived, ZTurn, ZSendPcs
<1>5. ~RecvBroken /\ ~RecvDiscards /\ ~SendFails /\ ~AuthNoMemory
  BY DEF RecvBroken, RecvDiscards, SendFails, AuthNoMemory
<1> QED
  BY <1>1, <1>2, <1>3, <1>4, <1>5 DEF Gives

LEMMA DeviceReaching ==
    ASSUME OrderInv, Reaching, Device, UNCHANGED deskVars, OddOn = {}
    PROVE  Reaching'
<1> USE DEF OrderInv
<1>a. pc' = pc /\ fn' = fn /\ refused' = refused
  BY DEF deskVars
<1>1. CASE ZReceiving
  <2>1. /\ conn = "up" /\ conn' = "up" /\ toZ # <<>> /\ toZ' = <<>> /\ ~DeskTurn
        /\ \/ pc \in AckPcs /\ zpc' = "ack_send"
           \/ /\ pc = "wr_msg"
              /\ \/ zpc = "rep_wait" /\ zpc' = "rep_send"
                 \/ zpc = "ang_wait" /\ zpc' = "ang_send"
           \/ zpc = "ack_wait" /\ pc \notin AckPcs /\ zpc' = "rqst_send"
    BY <1>1, ZReceivingFrame DEF Ordered, Turns
  <2>2. Moving
    BY <2>1 DEF Reaching, LeftBehind
  <2>3. ~ZTurn /\ toD = <<>>
    BY <2>1 DEF Turns
  <2>4. Moving'
    BY <1>a, <2>1, <2>2, <2>3 DEF Moving, AckPcs, ZTurn, ZSendPcs, Arrived, DeskTurn
  <2> QED
    BY <1>a, <2>1, <2>4 DEF Reaching
<1>2. CASE ZSending
  <2>1. /\ conn = "up" /\ conn' = "up" /\ toZ = <<>> /\ toD = <<>> /\ toD' # <<>>
        /\ ~DeskTurn /\ UNCHANGED <<zreq, zaurus, ses>>
    BY <1>2, ZSendingFrame
  <2>2. /\ \/ ZSendAck /\ zpc = "ack_send" /\ Head(toD').type = "ACK"
           \/ ZAbort /\ zpc = "rep_send" /\ Head(toD').type = "ABRT"
                /\ MustGiveUp(zreq) /\ zpc' = "ang_wait"
           \/ ZSendAng /\ zpc = "ang_send" /\ Head(toD').type = "ANG"
           \/ ZSendRqst /\ zpc = "rqst_send" /\ Head(toD').type = "RQST"
    <3>1. \A t \in {"ACK", "RQST", "ABRT", "ANG"} :
            SendToDesktop(Plain(t)) => Head(toD').type = t
      <4> SUFFICES ASSUME NEW t \in {"ACK", "RQST", "ABRT", "ANG"},
                          SendToDesktop(Plain(t))
                   PROVE  Head(toD').type = t
        OBVIOUS
      <4>1. Plain(t) \in Message /\ Plain(t).type = t
        BY PlainType DEF MsgTypes, CommonTypes, ReplyTypes, Plain, Msg
      <4>2. toD' = Append(<<>>, Plain(t))
        BY <2>1 DEF SendToDesktop
      <4> QED
        BY <4>1, <4>2
    <3> QED
      BY <1>2, <3>1 DEF ZSending, ZSendAck, ZAbort, ZSendAng, ZSendRqst, ZOdd, ZGoto
  <2>3. Moving
    BY <2>1, <2>2 DEF Reaching, LeftBehind
  <2>4. CASE ZSendAck /\ zpc = "ack_send" /\ Head(toD').type = "ACK"
    <3>1. pc \in AckPcs
      BY <2>1, <2>4 DEF Ordered, Dealing
    <3> QED
      BY <1>a, <2>1, <2>4, <3>1 DEF Reaching, Moving, AckPcs, Arrived
  <2>5. CASE /\ zpc = "rep_send" /\ Head(toD').type = "ABRT" /\ MustGiveUp(zreq)
             /\ zpc' = "ang_wait"
    <3>1. pc = "wr_msg" /\ zreq = RequestMsg(fn, env)
      BY <2>1, <2>5 DEF Ordered, Dealing, RecvPcs
    <3>2. fn \in Fns /\ env \in Env
      BY <3>1, InCall DEF Typed, TypeOK, DeskInv
    <3>3. ~refused
      BY <2>1, <2>3, <2>5, <3>1 DEF Moving, Arrived
    <3>4. ASSUME zreq.type = "RRL" PROVE fn \in RefusableFns
      BY <3>1, <3>2, <3>4, RequestNames DEF RequestOf, Fns, InitiateFns, DataCalls,
         RefusableFns
    <3>5. ASSUME zreq.type = "RMS", ~zreq.flag PROVE fn \in RefusableFns
      <4>1. fn \in {"reset_log_0", "reset_log_5"}
        BY <3>1, <3>2, <3>5, RequestNames DEF RequestOf, Fns, InitiateFns, DataCalls
      <4>2. fn = "reset_log_5" => zreq.flag
        BY <3>1 DEF RequestMsg, Msg
      <4> QED
        BY <3>5, <4>1, <4>2 DEF RefusableFns
    <3>6. CASE zreq.type \notin OpenRequests /\ zaurus.locked /\ ~ses.authed
      <4>1. zreq.type \in RequestTypes
        BY <3>1, <3>2, RequestNames
      <4>2. ~AuthBeforeData'
        BY <2>1, <2>5, <3>6, <4>1 DEF AuthBeforeData, RequestTypes
      <4> QED
        BY <1>a, <2>1, <2>5, <3>1, <3>3, <4>2 DEF Reaching, Moving, AckPcs, Arrived
    <3>7. CASE fn \in RefusableFns
      BY <1>a, <2>1, <2>5, <3>1, <3>3, <3>7 DEF Reaching, Moving, AckPcs, Arrived
    <3> QED
      BY <2>5, <3>4, <3>5, <3>6, <3>7 DEF MustGiveUp
  <2>6. CASE zpc = "ang_send" /\ Head(toD').type = "ANG"
    <3>1. pc \notin AckPcs \cup {"idle", "ws_rqst", "bye_rqst", "wr_rqst"}
      BY <2>1, <2>3, <2>6 DEF Moving, Arrived, AckPcs
    <3> QED
      BY <1>a, <2>1, <2>6, <3>1 DEF Reaching, Moving, IsCommon, CommonTypes
  <2>7. CASE zpc = "rqst_send" /\ Head(toD').type = "RQST"
    <3>1. pc \notin AckPcs \cup {"wr_msg", "wr_rqst"}
      BY <2>1, <2>3, <2>7 DEF Moving, Arrived, AckPcs
    <3> QED
      BY <1>a, <2>1, <2>7, <3>1 DEF Reaching, Moving, Arrived
  <2> QED
    BY <2>2, <2>4, <2>5, <2>6, <2>7
<1>3. CASE ZReply
  <2>1. /\ conn' = "up" /\ pc = "wr_msg" /\ toD' # <<>> /\ fn \in Fns
        /\ zreq.type = RequestOf[fn] /\ Head(toD') \in Replies(zreq)
    BY <1>3, ZReplyFrame DEF Ordered
  <2>2. ~IsCommon(Head(toD'))
    <3>1. Head(toD').type = ReplyTo[zreq.type] /\ zreq.type \in RequestTypes
      BY <2>1, ReplyName DEF RequestOf, Fns, InitiateFns, DataCalls, RequestTypes
    <3>2. ReplyTo[zreq.type] \notin CommonTypes
      BY <3>1 DEF ReplyTo, RequestTypes, CommonTypes
    <3> QED
      BY <3>1, <3>2 DEF IsCommon
  <2> QED
    BY <1>a, <2>1, <2>2 DEF Reaching, Moving, AckPcs
<1>4. CASE ZRecvBye
  BY <1>4, <1>a, ZRecvByeFrame DEF Reaching
<1> QED
  BY <1>1, <1>2, <1>3, <1>4, DeviceSplit

LEMMA ReachingStep ==
    ASSUME OrderInv, Reaching, [Next]_vars, OddOn = {}, AllocMayFail = FALSE
    PROVE  Reaching'
<1>1. CASE StartSession
  <2>1. pc = "idle" /\ pc' = "greet_send" /\ refused' = refused
    BY <1>1 DEF StartSession, Connect, InitiateReady, Idle
  <2> QED
    BY <2>1 DEF Reaching, Moving, AckPcs, RecvPcs
<1>2. CASE FailToConnect
  <2>1. /\ pc = "idle" /\ pc' = "idle" /\ ~refused'
        /\ conn' = "up" => UNCHANGED <<chanVars, zVars>>
    BY <1>2 DEF FailToConnect, ConnectFails, InitiateReady, Idle, ReturnFrom, chanVars, zVars
  <2> QED
    BY <2>1 DEF Reaching, Moving, LeftBehind, AuthBeforeData, AckPcs, chanVars, zVars
<1>3. CASE Drop
  BY <1>3 DEF Drop, deskVars, Reaching
<1>4. CASE DesktopStep
  <2>1. CASE Library
    BY <1>4, <2>1, LibrarySplit, GoesOnReaching, EndReaching DEF DesktopStep
  <2>2. CASE Program
    <3>1. /\ UNCHANGED <<chanVars, zVars>> /\ pc = "idle" /\ ~refused'
          /\ pc' \in {"idle", "ws_rqst"}
      <4>1. pc = "idle" => ~refused
        BY DEF Reaching, RecvPcs
      <4> QED
        BY <1>4, <2>2, <4>1
           DEF DesktopStep, Program, SetSyncType, SetZaurusIp, SetPasscode,
               InitiateUnset, BeginCall, ItemOfOtherType, Idle, ReturnFrom
    <3> QED
      BY <3>1 DEF Reaching, Moving, LeftBehind, AuthBeforeData, AckPcs, chanVars, zVars
  <2> QED
    BY <1>4, <2>1, <2>2 DEF DesktopStep
<1>5. CASE DeviceStep
  BY <1>5, DeviceReaching DEF DeviceStep
<1>6. CASE UserStep
  BY <1>6 DEF UserStep, UserLocks, UserClearsState, OrderInv, Ordered, Dealing,
     Reaching, deskVars, chanVars
<1>7. CASE UNCHANGED vars
  BY <1>7 DEF vars, deskVars, chanVars, zVars, Reaching, Moving, LeftBehind, AuthBeforeData
<1> QED
  BY <1>1, <1>2, <1>3, <1>4, <1>5, <1>6, <1>7 DEF Next

\* With a Zaurus that never answers out of turn, and memory for what the library
\* allocates, the two ends never wait for each other with nothing in flight, at
\* no point of any sequence of calls, unless the library went past the passcode
\* of a locked device.  Both hypotheses are needed: run hang shows what a failed
\* allocation leads to, and a refusal out of turn leads to the same.
THEOREM NobodyWaits ==
    ASSUME OddOn = {}, AllocMayFail = FALSE
    PROVE  Spec => []NoMutualWait
<1>1. Init => Reaching
  BY DEF Init, ChanInit, DeskInit, Reaching
<1>2. OrderInv /\ Reaching /\ [Next]_vars => Reaching'
  BY ReachingStep
<1>3. OrderInv /\ Reaching => NoMutualWait
  BY DEF Reaching, Moving, LeftBehind, NoMutualWait, MutualWait, Deaf, AckPcs, Arrived,
     ZWaitPcs
<1> QED
  BY <1>1, <1>2, <1>3, OrderInvariant, PTL DEF Spec
=============================================================================
