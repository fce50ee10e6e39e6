---------------------------- MODULE ZdtmChannel -----------------------------
(***************************************************************************)
(* The TCP connection connfd between the library and the Zaurus, one FIFO  *)
(* per direction.  This module is the boundary with the sockets layer: it  *)
(* carries whole messages, as _zdtm_send_message_to,                       *)
(* _zdtm_send_comm_message_to and _zdtm_recv_message do between them.      *)
(***************************************************************************)
EXTENDS Sequences, ZdtmMessages

VARIABLES
    conn,   \* "none": never accepted; "up"; "lost": closed or broken
    toZ,    \* messages on their way to the Zaurus
    toD     \* messages on their way to the desktop

chanVars == <<conn, toZ, toD>>

ConnStates == {"none", "up", "lost"}

ChanTypeOK ==
    /\ conn \in ConnStates
    /\ toZ \in Seq(Message)
    /\ toD \in Seq(Message)

ChanInit == conn = "none" /\ toZ = <<>> /\ toD = <<>>

\* A send that returns 0.  On a broken connection the bytes may still be
\* taken by the socket buffer, and nobody reads them.
SendToZaurus(m) ==
    /\ conn # "none"
    /\ toZ' = IF conn = "up" THEN Append(toZ, m) ELSE toZ
    /\ UNCHANGED <<conn, toD>>

\* The first message of a stream that has one.
Arrived(stream, type) == stream # <<>> /\ Head(stream).type = type

\* The head of the stream is read; bytes that arrived before the connection
\* broke can still be read.
RecvFromZaurus ==
    /\ toD # <<>>
    /\ toD' = Tail(toD)
    /\ UNCHANGED <<conn, toZ>>

SendToDesktop(m) ==
    /\ conn = "up"
    /\ toD' = Append(toD, m)
    /\ UNCHANGED <<conn, toZ>>

RecvFromDesktop ==
    /\ conn = "up"
    /\ toZ # <<>>
    /\ toZ' = Tail(toZ)
    /\ UNCHANGED <<conn, toD>>
=============================================================================
