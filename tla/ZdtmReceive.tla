---------------------------- MODULE ZdtmReceive -----------------------------
(***************************************************************************)
(* _zdtm_recv_message over the byte stream of connfd: three loops around   *)
(* recv, one for the seven bytes that may be a common message, one for the *)
(* rest of a general header and the body size, one for body and checksum.  *)
(* The Zaurus writes the messages of Script in pieces of any size and may  *)
(* end the connection between any two bytes; recv returns pieces of any    *)
(* size.                                                                   *)
(***************************************************************************)
EXTENDS ZdtmWire

CONSTANTS
    Script,         \* the messages the Zaurus writes, in order
    Endings,        \* how the connection may end: "closed", "reset"
    Failures,       \* what may fail: "buffer", "content", "parse"; "signal": a
                    \* signal interrupts a recv
    Slots,          \* what p_msg may be: "fresh", "null", "used"
    GarbageSizes,   \* the body sizes that bytes out of place may spell (a size
                    \* below that of the type has no defined outcome)
    MaxCalls        \* bound on the calls of _zdtm_recv_message

ASSUME ReceiveAssumption ==
    /\ Script \in Seq(Message)
    /\ Endings \subseteq {"closed", "reset"}
    /\ Failures \subseteq {"buffer", "content", "parse", "signal"}
    /\ Slots \subseteq {"fresh", "null", "used"}
    /\ GarbageSizes \subseteq MSG_TYPE_SIZE..BODY_SIZE_MAX
    /\ MaxCalls \in Nat

VARIABLES
    written,    \* <<k, n>>: n bytes of message k are written, all before it
    wire,       \* the bytes written and not yet read
    ended,      \* "open", or how the connection ended
    phase,      \* the loop the call is in
    slot,       \* the p_msg of the call, "none" outside of one
    header, buff, bodySize,
    returned    \* code and bytes of every call that has returned

zaurusVars == <<written, ended>>
callVars   == <<phase, slot, header, buff, bodySize>>
vars       == <<written, wire, ended, phase, slot, header, buff, bodySize, returned>>

SizeOf(k) == WireSize(Script[k])

Bytes(k) == WireBytes(k, Script[k])

Byte == {b \in (DOMAIN Script) \X Nat : b[2] \in 1..SizeOf(b[1])}

Codes == {-14, -9, -6, -5, -4, -3, -2, -1, 0, 1, 2, 3}

TypeOK ==
    /\ written[1] \in 1..Len(Script) + 1 /\ written[2] \in Nat
    /\ wire \in Seq(Byte) /\ header \in Seq(Byte) /\ buff \in Seq(Byte)
    /\ ended \in {"open", "closed", "reset"}
    /\ phase \in {"idle", "common", "rest", "body"}
    /\ slot \in Slots \cup {"none"}
    /\ bodySize \in 0..BODY_SIZE_MAX
    /\ returned \in Seq([code: Codes, bytes: Seq(Byte)])

Init ==
    /\ written = <<1, 0>> /\ wire = <<>> /\ ended = "open"
    /\ phase = "idle" /\ slot = "none"
    /\ header = <<>> /\ buff = <<>> /\ bodySize = 0
    /\ returned = <<>>
-----------------------------------------------------------------------------
(***************************************************************************)
(* The other end.                                                          *)
(***************************************************************************)
Write ==
    LET k == written[1]  from == written[2]
    IN  /\ ended = "open" /\ k <= Len(Script)
        /\ \E upto \in from+1 .. SizeOf(k) :
             /\ wire' = wire \o SubSeq(Bytes(k), from + 1, upto)
             /\ written' = IF upto = SizeOf(k) THEN <<k + 1, 0>> ELSE <<k, upto>>
        /\ UNCHANGED <<ended, callVars, returned>>

\* A reset may discard what arrived and was not read.
End ==
    /\ ended = "open"
    /\ ended' \in Endings
    /\ wire' \in {wire} \cup (IF ended' = "reset" THEN {<<>>} ELSE {})
    /\ UNCHANGED <<written, callVars, returned>>
-----------------------------------------------------------------------------
(***************************************************************************)
(* The call.                                                               *)
(***************************************************************************)
Return(code, bytes) ==
    /\ returned' = Append(returned, [code |-> code, bytes |-> bytes])
    /\ phase' = "idle" /\ header' = <<>> /\ buff' = <<>> /\ bodySize' = 0
    /\ slot' = "none"

Begin ==
    /\ phase = "idle" /\ Len(returned) < MaxCalls
    /\ phase' = "common" /\ slot' \in Slots
    /\ UNCHANGED <<zaurusVars, wire, header, buff, bodySize, returned>>

\* Mutant: the loop asks for one byte less.
RestWantedShort == MSG_HDR_SIZE + SIZE_FIELD - 1

RestWanted == MSG_HDR_SIZE + SIZE_FIELD

\* The bytes recv may put behind those already read, when wanted are wanted.
Arrivals(got, wanted) ==
    {got \o SubSeq(wire, 1, n) : n \in 1..Len(wire) \cap 1..wanted - Len(got)}

\* What the first bytes are compared equal with; bytes that are not the
\* beginning of a message may be anything.
Readings(h) ==
    IF \E k \in DOMAIN Script : h = SubSeq(Bytes(k), 1, COM_MSG_SIZE)
    THEN IF IsCommon(Script[h[1][1]]) THEN {Script[h[1][1]].type} ELSE {"general"}
    ELSE CommonTypes \cup {"general"}

\* Mutant: ABRT gets a number of its own past those documented.
CommonCodeGap == [ACK |-> 1, RQST |-> 2, ABRT |-> 4]

CommonCode == [ACK |-> 1, RQST |-> 2, ABRT |-> 3]

ReadCommon ==
    /\ phase = "common"
    /\ \E h \in Arrivals(header, COM_MSG_SIZE) :
         /\ wire' = SubSeq(wire, Len(h) - Len(header) + 1, Len(wire))
         /\ IF Len(h) < COM_MSG_SIZE
            THEN header' = h /\ UNCHANGED <<phase, slot, buff, bodySize, returned>>
            ELSE \E r \in Readings(h) :
                   IF r = "general"
                   THEN /\ header' = h /\ phase' = "rest"
                        /\ UNCHANGED <<slot, buff, bodySize, returned>>
                   ELSE Return(CommonCode[r], h)
    /\ UNCHANGED zaurusVars

\* The body size the header spells.
Spelled(h) ==
    LET k == h[1][1]
    IN  IF ~IsCommon(Script[k]) /\ h = SubSeq(Bytes(k), 1, MSG_HDR_SIZE + SIZE_FIELD)
        THEN {BodySize[Script[k].type]} ELSE GarbageSizes

ReadRest ==
    /\ phase = "rest"
    /\ \E h \in Arrivals(header, RestWanted) :
         /\ wire' = SubSeq(wire, Len(h) - Len(header) + 1, Len(wire))
         /\ IF Len(h) < RestWanted
            THEN header' = h /\ UNCHANGED <<phase, slot, buff, bodySize, returned>>
            ELSE \/ /\ header' = h /\ phase' = "body" /\ bodySize' \in Spelled(h)
                    /\ UNCHANGED <<slot, buff, returned>>
                 \/ "buffer" \in Failures /\ Return(-4, <<>>)
    /\ UNCHANGED zaurusVars

\* What can become of a message that was read to its end.
Verdicts(size) ==
    CASE slot = "null"  -> {-5}
      [] slot = "used"  -> {-6}
      [] slot = "fresh" ->
           {0} \cup {c \in {-9} : "content" \in Failures /\ size # MSG_TYPE_SIZE}
               \cup {c \in {-14} : "parse" \in Failures}

\* Mutant: the checksum is left on the stream.
BodyWantedShort == bodySize

BodyWanted == bodySize + SIZE_FIELD

ReadBody ==
    /\ phase = "body"
    /\ \E b \in Arrivals(buff, BodyWanted) :
         /\ wire' = SubSeq(wire, Len(b) - Len(buff) + 1, Len(wire))
         /\ IF Len(b) < BodyWanted
            THEN buff' = b /\ UNCHANGED <<phase, slot, header, bodySize, returned>>
            ELSE \E code \in Verdicts(bodySize) : Return(code, header \o b)
    /\ UNCHANGED zaurusVars

\* tot_bytes_read of the loop the call is in: the second goes on counting
\* where the first stopped, the third starts from zero.
TotBytesRead == IF phase = "body" THEN Len(buff) ELSE Len(header)

\* Mutant: every end of the connection is a clean one.
ClosedCodeAlways(tot) == -1

ClosedCode(tot) == IF tot = 0 THEN -1 ELSE -2

\* Mutant: only the first loop looks for the end of the stream.
InFirstLoop == phase = "common"

InAnyLoop == phase # "idle"

ReadClosed ==
    /\ InAnyLoop /\ wire = <<>> /\ ended = "closed"
    /\ Return(ClosedCode(TotBytesRead), <<>>)
    /\ UNCHANGED <<zaurusVars, wire>>

\* A reset is reported once; after it the stream is at its end.
ReadError ==
    /\ InAnyLoop /\ wire = <<>>
    /\ \/ ended = "reset" /\ ended' = "closed"
       \/ ended = "open" /\ "signal" \in Failures /\ UNCHANGED ended
    /\ Return(-3, <<>>)
    /\ UNCHANGED <<written, wire>>

Read == ReadCommon \/ ReadRest \/ ReadBody \/ ReadClosed \/ ReadError

Next == Write \/ End \/ Begin \/ Read

Spec == Init /\ [][Next]_vars

(***************************************************************************)
(* A caller that keeps calling, a kernel that wakes a recv when bytes or   *)
(* the end of the stream are there.  The Zaurus owes nothing.              *)
(***************************************************************************)
FairSpec == Spec /\ WF_vars(Begin) /\ WF_vars(Read)
-----------------------------------------------------------------------------
(***************************************************************************)
(* Properties.                                                             *)
(***************************************************************************)
\* Nothing before call i left the stream in the middle of a message: no end of
\* the connection, and no failing allocation between header and body.
InStepBefore(i) == \A j \in 1..i-1 : returned[j].code \notin {-4, -3, -2, -1}

\* The i-th call takes the i-th message, whole and in its order, and knows a
\* common message from a general one, however the bytes were cut
\* (_zdtm_recv_message).
EachCallItsMessage ==
    \A i \in DOMAIN returned :
      InStepBefore(i) /\ returned[i].code \notin {-4, -3, -2, -1}
        => /\ i <= Len(Script)
           /\ returned[i].bytes = Bytes(i)
           /\ IF IsCommon(Script[i])
              THEN returned[i].code = CommonCode[Script[i].type]
              ELSE returned[i].code \in {-14, -9, -6, -5, 0}

\* The connection ended when a message was written in part.
CutMidMessage == ended # "open" /\ written[2] > 0

\* -2 is returned only when the Zaurus closed inside a message, and -1 then
\* only when the bytes that arrived end exactly with a body size.
ClosedInsideReported ==
    \A i \in DOMAIN returned :
      InStepBefore(i) =>
        /\ returned[i].code = -2 => CutMidMessage
        /\ returned[i].code = -1 /\ CutMidMessage
             => written[2] = MSG_HDR_SIZE + SIZE_FIELD

\* "Socket cleanly closed by opposing side" (zdtm_net.h, -1).
CleanCloseIsClean ==
    \A i \in DOMAIN returned :
      InStepBefore(i) /\ returned[i].code = -1 => ~CutMidMessage

InStep == InStepBefore(Len(returned) + 1)

\* The stream as a link of whole messages, those written and not yet taken; a
\* call that gave up inside one ends it.
Link == INSTANCE ZdtmLink WITH
    conn <- IF ended = "open" /\ InStep THEN "up" ELSE "lost",
    toZ  <- <<>>,
    toD  <- IF wire = <<>> \/ ~InStep THEN <<>>
            ELSE SubSeq(Script, Len(returned) + 1, written[1] - 1)

\* Calls see the reliable link of whole messages that ZdtmSession is built on,
\* up to the first that fails for want of a buffer or on a signal.
ImplementsLink == Link!LinkSpec

\* Under FairSpec: a message that was written to its end is taken by a call,
\* also when the connection is closed behind it, unless a call reports that
\* it gave up: a reset or a signal (-3), no buffer (-4).
EveryMessageTaken ==
    \A k \in DOMAIN Script :
      written[1] > k ~> \/ k \in DOMAIN returned /\ returned[k].bytes = Bytes(k)
                        \/ \E j \in DOMAIN returned : returned[j].code \in {-4, -3}

\* Under FairSpec a call does not outlive the connection.
EndWakesCall == ended # "open" ~> phase = "idle"
=============================================================================
