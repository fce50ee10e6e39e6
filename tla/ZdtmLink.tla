----------------------------- MODULE ZdtmLink -------------------------------
(***************************************************************************)
(* Abstract: what ZdtmSession takes one direction of connfd for.  Whole    *)
(* messages arrive in the order they were sent, one for every receive,     *)
(* until the connection ends, which may take those not yet received along, *)
(* then or later.                                                          *)
(***************************************************************************)
EXTENDS ZdtmChannel

LinkInit == conn = "up" /\ toZ = <<>> /\ toD = <<>>

LinkEnds ==
    /\ conn' = "lost" /\ toZ' = <<>>
    /\ toD' \in {toD, <<>>}

LinkNext ==
    \/ \E m \in Message : SendToDesktop(m)
    \/ RecvFromZaurus
    \/ LinkEnds

LinkSpec == LinkInit /\ [][LinkNext]_chanVars
=============================================================================
