------------------------------ MODULE ZdtmSend ------------------------------
(***************************************************************************)
(* _zdtm_send_comm_message_to and _zdtm_send_message_to over the byte      *)
(* stream of connfd: each loops around send until as many bytes were taken *)
(* as the message has.  One send is a system call that copies its buffer   *)
(* into the socket as there is room and may be interrupted once it has     *)
(* copied something; the next send of the loop is given the same buffer    *)
(* from its start, for the number of bytes that are missing.               *)
(***************************************************************************)
EXTENDS ZdtmWire, SequencesExt

CONSTANTS
    Calls,          \* the messages the library sends, in order
    Room,           \* the bytes the socket holds until the Zaurus reads them
    Interrupted,    \* signals may interrupt a send
    CallFailures    \* what may fail: "prepare", "malloc"

ASSUME SendAssumption ==
    /\ Calls \in Seq(Message)
    /\ Room \in Nat \ {0}
    /\ Interrupted \in BOOLEAN
    /\ CallFailures \subseteq {"prepare", "malloc"}

VARIABLES
    call,       \* the number of the call that is running or comes next
    phase,      \* "idle", or "send" while the loop runs
    tot,        \* tot_bytes_sent, tot_bytes_written
    copied,     \* the bytes the present send has copied
    given,      \* the bytes that went into the stream
    arrived,    \* how many of them the Zaurus has read
    up,         \* the connection holds
    returned,   \* the codes of the calls that have returned
    cut         \* the calls that needed a second send (history, for properties)

callVars == <<call, phase, tot, copied>>
vars     == <<call, phase, tot, copied, given, arrived, up, returned, cut>>

Bytes(k) == WireBytes(k, Calls[k])

Byte == {b \in (DOMAIN Calls) \X Nat : b[2] \in 1..WireSize(Calls[b[1]])}

TypeOK ==
    /\ call \in 1..Len(Calls) + 1 /\ phase \in {"idle", "send"}
    /\ tot \in Nat /\ copied \in Nat
    /\ phase = "send" => tot + copied <= WireSize(Calls[call])
    /\ given \in Seq(Byte) /\ arrived \in 0..Len(given)
    /\ Len(given) - arrived <= Room
    /\ up \in BOOLEAN
    /\ returned \in Seq({-13, -2, -1, 0})
    /\ cut \subseteq 1..call

Init ==
    /\ call = 1 /\ phase = "idle" /\ tot = 0 /\ copied = 0
    /\ given = <<>> /\ arrived = 0 /\ up = TRUE
    /\ returned = <<>> /\ cut = {}
-----------------------------------------------------------------------------
Return(code) ==
    /\ returned' = Append(returned, code)
    /\ call' = call + 1 /\ phase' = "idle" /\ tot' = 0 /\ copied' = 0

\* _zdtm_send_message_to up to its loop; a common message has nothing that
\* can fail.
Begin ==
    /\ phase = "idle" /\ call <= Len(Calls)
    /\ \/ phase' = "send" /\ UNCHANGED <<call, tot, copied, returned>>
       \/ ~IsCommon(Calls[call]) /\ "prepare" \in CallFailures /\ Return(-1)
       \/ ~IsCommon(Calls[call]) /\ "malloc" \in CallFailures /\ Return(-13)
    /\ UNCHANGED <<given, arrived, up, cut>>

\* Mutant: the checksum is not counted in msg_size.
ToSendNoChecksum ==
    WireSize(Calls[call]) - (IF IsCommon(Calls[call]) THEN 0 ELSE SIZE_FIELD)

\* bytes_to_send, bytes_to_write.
ToSend == WireSize(Calls[call])

\* Mutant: the whole message is asked for again.
MissingAll == ToSend

\* The bytes the present send is asked for.
Missing == ToSend - tot

\* Where in the message the present send copies from: its start.
Place == 0

\* The system call copies; on a broken connection what it takes goes nowhere.
Copy ==
    /\ phase = "send"
    /\ \E n \in 1 .. Missing - copied :
         /\ up => n <= Room - (Len(given) - arrived)
         /\ copied' = copied + n
         /\ given' = IF up THEN given \o SubSeq(Bytes(call), Place + copied + 1,
                                               Place + copied + n)
                     ELSE given
    /\ UNCHANGED <<call, phase, tot, arrived, up, returned, cut>>

\* Mutant: the count is set, not added to.
TotAfterLast == copied

\* tot_bytes_sent once send has returned.
TotAfter == tot + copied

\* send returns with what it copied: everything, or less when it was
\* interrupted or the connection broke; the loop goes on or ends.
SendReturns ==
    /\ phase = "send" /\ copied > 0
    /\ copied = Missing \/ Interrupted \/ ~up
    /\ IF TotAfter >= ToSend
       THEN Return(0) /\ UNCHANGED cut
       ELSE /\ tot' = TotAfter /\ copied' = 0 /\ cut' = cut \cup {call}
            /\ UNCHANGED <<call, phase, returned>>
    /\ UNCHANGED <<given, arrived, up>>

\* send fails when it has copied nothing: the connection broke, or a signal came.
MayFail == copied = 0 /\ (~up \/ Interrupted)

SendError ==
    /\ phase = "send" /\ MayFail
    /\ Return(IF IsCommon(Calls[call]) THEN -1 ELSE -2)
    /\ UNCHANGED <<given, arrived, up, cut>>

\* The bytes of there that end a message.
Ends(there) == SelectSeq(there, LAMBDA b : b[2] = WireSize(Calls[b[1]]))

\* The Zaurus reads in pieces of any size, but not past the end of a message,
\* and also what arrived before a break.
ZaurusReads ==
    /\ arrived' \in arrived + 1 .. Len(given)
    /\ Ends(SubSeq(given, arrived + 1, arrived' - 1)) = <<>>
    /\ UNCHANGED <<callVars, given, up, returned, cut>>

\* A break may take along what the Zaurus has not read.
Break ==
    /\ up /\ up' = FALSE
    /\ given' \in {given, SubSeq(given, 1, arrived)}
    /\ UNCHANGED <<callVars, arrived, returned, cut>>

Send == Begin \/ Copy \/ SendReturns \/ SendError

Next == Send \/ ZaurusReads \/ Break

Spec == Init /\ [][Next]_vars

(***************************************************************************)
(* A program that runs, and a Zaurus that reads what it is sent.           *)
(***************************************************************************)
FairSpec == Spec /\ WF_vars(Send) /\ WF_vars(ZaurusReads)
-----------------------------------------------------------------------------
(***************************************************************************)
(* Properties.                                                             *)
(***************************************************************************)
\* What the first n calls were to send, those that returned 0.
Promised(n) ==
    FlattenSeq([k \in 1..n |-> IF returned[k] = 0 THEN Bytes(k) ELSE <<>>])

\* No call gave up inside a message.
NoneBroken ==
    \A k \in DOMAIN returned : returned[k] # -2 /\ (IsCommon(Calls[k]) => returned[k] = 0)

\* "Successfully sent the message via the connection socket" (zdtm_net.h, 0):
\* the stream holds the messages of the calls that returned 0, one behind the
\* other, and the beginning of the one that is being sent.
StreamIsMessages ==
    up /\ NoneBroken
      => given = Promised(Len(returned))
                   \o (IF phase = "idle" THEN <<>> ELSE SubSeq(Bytes(call), 1, tot + copied))

\* However often sends are interrupted, the stream grows by the size of a
\* message for every call that returned 0, and a message that one send took is
\* whole and in its place, also behind others that were cut (the loops of
\* _zdtm_send_message_to and _zdtm_send_comm_message_to).
WholeUnlessCut ==
    up /\ NoneBroken =>
      /\ Len(given) = Len(Promised(Len(returned))) + tot + copied
      /\ \A k \in DOMAIN returned \ cut :
           returned[k] = 0 =>
             LET before == Len(Promised(k - 1))
             IN  SubSeq(given, before + 1, before + WireSize(Calls[k])) = Bytes(k)

\* Under FairSpec every call comes to its end.
EveryCallReturns == phase = "send" ~> phase = "idle"

\* Under FairSpec a message whose call returned 0 reaches the Zaurus, unless
\* it was cut or the connection breaks.
EveryMessageArrives ==
    \A k \in DOMAIN Calls :
      (k \in DOMAIN returned \ cut /\ returned[k] = 0)
        ~> (~up \/ <<k, WireSize(Calls[k])>> \in {given[i] : i \in 1..arrived})
=============================================================================
