--------------------------- MODULE MCZdtmSession ----------------------------
(***************************************************************************)
(* ZdtmSession for TLC: the Zaurus models of the runs.                     *)
(***************************************************************************)
EXTENDS ZdtmSession

\* A Zaurus that follows the protocol.
Conforming == {}

\* One that may refuse any request, or send a reply where none belongs.
AnyRequest == RequestTypes

\* One that may answer the goodbye with ABRT or another reply than AEX.
Goodbye == {"RQT"}
=============================================================================
