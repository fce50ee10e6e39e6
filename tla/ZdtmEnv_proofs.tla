--------------------------- MODULE ZdtmEnv_proofs ---------------------------
(***************************************************************************)
(* The library closes what it opened, and nothing else, for any number of  *)
(* descriptors, initialisations and attempts and any failures.             *)
(***************************************************************************)
EXTENDS ZdtmEnv, FiniteSetTheorems, SequenceTheorems, TLAPS

(***************************************************************************)
(* The inductive invariant.  The numbers that env keeps are good for as    *)
(* long as they can be used: the log's and the listening socket's between  *)
(* zdtm_initialize and zdtm_finalize, the request connection's while the   *)
(* Zaurus can still be said goodbye to over connfd.  connfd is never       *)
(* closed, so its number is never given out again.                         *)
(***************************************************************************)
Numbers ==
    /\ phase # "down" => logfp \in Fds /\ open[logfp] = For("log", 0)
    /\ phase \notin {"down", "log"} => listenfd \in Fds
    /\ phase \in {"ray", "accept", "session"} => reqfd \in Fds
    /\ connfd # INVALID => open[connfd].what = "conn"
    /\ phase # "dial" /\ Alive /\ reqfd # INVALID => open[reqfd] = For("req", attempt)

IInv == TypeOK /\ Numbers

\* TypeOK by kinds of values, which different provers deal with.
FdsOK ==
    /\ open \in [Fds -> Uses]
    /\ {logfp, listenfd, reqfd, connfd} \subseteq Fds \cup {INVALID}
    /\ phase \in {"down", "log", "ready", "dial", "ray", "accept", "session"}
    /\ phase \notin {"down", "log"} =>
          open[logfp] = For("log", 0) /\ open[listenfd] = For("listen", 0)
    /\ phase = "session" => connfd # INVALID /\ open[connfd].what = "conn"
    /\ phase \in {"ray", "accept", "session"} => open[reqfd] = For("req", attempt)

NetOK ==
    /\ told \subseteq Attempts /\ ended \subseteq Attempts
    /\ queue \in Seq(Attempts) /\ Len(queue) <= Backlog

CountsOK == inits \in 0..MaxInits /\ attempt \in 0..MaxAttempts /\ causes \in Nat

FinalizedOK == finalized \in BOOLEAN

LEMMA UseFacts ==
    /\ \A v, w, a, b : For(v, a) = For(w, b) <=> v = w /\ a = b
    /\ \A w, a : For(w, a).what = w /\ For(w, a).attempt = a
    /\ Free = For("free", 0)
<1>1. \A w, a : For(w, a).what = w /\ For(w, a).attempt = a
  BY DEF For
<1>2. \A v, w, a, b : For(v, a) = For(w, b) <=> v = w /\ a = b
  <2> TAKE v, w, a, b
  <2> QED
    BY <1>1
<1> QED
  BY <1>1, <1>2 DEF Free

LEMMA UsesOfEachKind ==
    /\ Free \in Uses
    /\ \A w \in {"log", "listen", "file"} : For(w, 0) \in Uses
    /\ \A w \in {"req", "conn"} : \A a \in Attempts : For(w, a) \in Uses
<1>1. Free \in Uses
  BY DEF Uses
<1>2. ASSUME NEW w \in {"log", "listen", "file"} PROVE For(w, 0) \in Uses
  BY DEF Uses
<1>3. ASSUME NEW w \in {"req", "conn"}, NEW a \in Attempts PROVE For(w, a) \in Uses
  BY DEF Uses
<1> QED
  BY <1>1, <1>2, <1>3

LEMMA Numerals == MaxFd \in Nat /\ MaxInits \in Nat /\ MaxAttempts \in Nat /\ 0 \notin Fds
BY EnvAssumption DEF Fds

\* Opening a descriptor changes it and no other.
LEMMA OpenedFacts ==
    ASSUME open \in [Fds -> Uses], NEW f \in Fds, NEW use \in Uses, Opened(f, use)
    PROVE  /\ open' \in [Fds -> Uses]
           /\ open[f] = Free /\ open'[f] = use
           /\ \A g \in Fds : g # f => open'[g] = open[g]
BY DEF Opened, Unused

\* Closing one frees it and no other.
LEMMA ClosedFacts ==
    ASSUME open \in [Fds -> Uses], NEW f \in Fds, open' = Closed(f)
    PROVE  /\ open' \in [Fds -> Uses]
           /\ open'[f] = Free
           /\ \A g \in Fds : g # f => open'[g] = open[g]
BY UsesOfEachKind DEF Closed

LEMMA InitInv == Init => IInv
<1> SUFFICES ASSUME Init PROVE IInv
  OBVIOUS
<1>1. TypeOK
  <2>1. open \in [Fds -> Uses]
    BY UsesOfEachKind DEF Init
  <2>2. {logfp, listenfd, reqfd, connfd} \subseteq Fds \cup {INVALID}
    BY DEF Init
  <2>3. inits \in 0..MaxInits /\ attempt \in 0..MaxAttempts /\ causes \in Nat
    BY Numerals DEF Init
  <2>5. finalized \in BOOLEAN
    BY DEF Init
  <2>4. told \subseteq Attempts /\ ended \subseteq Attempts /\ queue \in Seq(Attempts) /\ Len(queue) <= Backlog
    BY EnvAssumption DEF Init
  <2> QED
    BY <2>1, <2>2, <2>3, <2>4, <2>5 DEF Init, TypeOK
<1>2. Numbers
  BY DEF Init, Numbers, INVALID, Alive
<1> QED
  BY <1>1, <1>2 DEF IInv

\* What the steps of TypeOK and Numbers are about, in one place.
LEMMA StepFacts ==
    ASSUME IInv
    PROVE  /\ open \in [Fds -> Uses]
           /\ {logfp, listenfd, reqfd, connfd} \subseteq Fds \cup {INVALID}
           /\ INVALID \notin Fds
           /\ phase # "down" => logfp \in Fds /\ open[logfp] = For("log", 0)
           /\ phase \notin {"down", "log"} =>
                 listenfd \in Fds /\ open[listenfd] = For("listen", 0)
           /\ phase \in {"ray", "accept", "session"} =>
                 reqfd \in Fds /\ open[reqfd] = For("req", attempt)
           /\ connfd # INVALID => connfd \in Fds /\ open[connfd].what = "conn"
           /\ phase # "dial" /\ Alive /\ reqfd # INVALID => open[reqfd] = For("req", attempt)
BY Numerals DEF IInv, TypeOK, Numbers, INVALID

LEMMA PartsOfInv == ASSUME IInv PROVE NetOK /\ CountsOK /\ FinalizedOK
BY DEF IInv, TypeOK, NetOK, CountsOK, FinalizedOK

(***************************************************************************)
(* Steps that open a descriptor.                                           *)
(***************************************************************************)
LEMMA OpenLogInv == ASSUME IInv, OpenLog PROVE IInv'
<1>1. NetOK'
  BY PartsOfInv DEF OpenLog, NetOK, netVars, progVars, envVars
<1>2. CountsOK'
  BY PartsOfInv, Numerals DEF OpenLog, CountsOK, netVars, progVars, envVars
<1>3. FinalizedOK'
  BY PartsOfInv DEF OpenLog, FinalizedOK, netVars, progVars, envVars
<1>4. FdsOK' /\ Numbers'
  <2>1. CASE \E f \in Fds : Opened(f, For("log", 0)) /\ logfp' = f
    <3>1. PICK f \in Fds : Opened(f, For("log", 0)) /\ logfp' = f
      BY <2>1
    <3>2. For("log", 0) \in Uses
      BY UsesOfEachKind
    <3>3. /\ open' \in [Fds -> Uses] /\ open[f] = Free /\ open'[f] = For("log", 0)
          /\ \A g \in Fds : g # f => open'[g] = open[g]
      BY <3>1, <3>2, StepFacts, OpenedFacts
    <3>4. FdsOK'
      BY <3>1, <3>3, StepFacts, UseFacts DEF OpenLog, FdsOK, Numbers, Alive, netVars, progVars, envVars
    <3>5. Numbers'
      BY <3>1, <3>3, StepFacts, UseFacts DEF OpenLog, FdsOK, Numbers, Alive, netVars, progVars, envVars
    <3> QED
      BY <3>4, <3>5
  <2>2. CASE logfp' = INVALID /\ UNCHANGED open
    BY <2>2, StepFacts, UseFacts DEF OpenLog, FdsOK, Numbers, Alive, netVars, progVars, envVars
  <2> QED
    BY <2>1, <2>2 DEF OpenLog
<1> QED
  BY <1>1, <1>2, <1>3, <1>4 DEF IInv, TypeOK, FdsOK, NetOK, CountsOK, FinalizedOK

LEMMA ListenInv == ASSUME IInv, Listen PROVE IInv'
<1>1. NetOK'
  BY PartsOfInv DEF Listen, NetOK, netVars, progVars, envVars
<1>2. CountsOK'
  BY PartsOfInv, Numerals DEF Listen, CountsOK, netVars, progVars, envVars
<1>3. FinalizedOK'
  BY PartsOfInv DEF Listen, FinalizedOK, netVars, progVars, envVars
<1>4. FdsOK' /\ Numbers'
  <2>1. CASE \E f \in Fds : Opened(f, For("listen", 0)) /\ listenfd' = f
    <3>1. PICK f \in Fds : Opened(f, For("listen", 0)) /\ listenfd' = f
      BY <2>1
    <3>2. For("listen", 0) \in Uses
      BY UsesOfEachKind
    <3>3. /\ open' \in [Fds -> Uses] /\ open[f] = Free /\ open'[f] = For("listen", 0)
          /\ \A g \in Fds : g # f => open'[g] = open[g]
      BY <3>1, <3>2, StepFacts, OpenedFacts
    <3>4. FdsOK'
      BY <3>1, <3>3, StepFacts, UseFacts DEF Listen, FdsOK, Numbers, Alive, netVars, progVars, envVars
    <3>5. Numbers'
      BY <3>1, <3>3, StepFacts, UseFacts DEF Listen, FdsOK, Numbers, Alive, netVars, progVars, envVars
    <3> QED
      BY <3>4, <3>5
  <2>2. CASE listenfd' = INVALID /\ UNCHANGED open
    BY <2>2, StepFacts, UseFacts DEF Listen, FdsOK, Numbers, Alive, netVars, progVars, envVars
  <2> QED
    BY <2>1, <2>2 DEF Listen
<1> QED
  BY <1>1, <1>2, <1>3, <1>4 DEF IInv, TypeOK, FdsOK, NetOK, CountsOK, FinalizedOK

LEMMA ConnToZaurusInv == ASSUME IInv, ConnToZaurus PROVE IInv'
<1>1. NetOK'
  BY PartsOfInv DEF ConnToZaurus, NetOK, netVars, progVars, envVars
<1>2. CountsOK'
  BY PartsOfInv, Numerals DEF ConnToZaurus, CountsOK, netVars, progVars, envVars
<1>3. FinalizedOK'
  BY PartsOfInv DEF ConnToZaurus, FinalizedOK, netVars, progVars, envVars
<1>4. FdsOK' /\ Numbers'
  <2>1. CASE \E f \in Fds : Opened(f, For("req", attempt)) /\ reqfd' = f
    <3>1. PICK f \in Fds : Opened(f, For("req", attempt)) /\ reqfd' = f
      BY <2>1
    <3>2. For("req", attempt) \in Uses
      BY UsesOfEachKind, PartsOfInv DEF CountsOK, Attempts
    <3>3. /\ open' \in [Fds -> Uses] /\ open[f] = Free /\ open'[f] = For("req", attempt)
          /\ \A g \in Fds : g # f => open'[g] = open[g]
      BY <3>1, <3>2, StepFacts, OpenedFacts
    <3>4. FdsOK'
      BY <3>1, <3>3, StepFacts, UseFacts DEF ConnToZaurus, FdsOK, Numbers, Alive, netVars, progVars, envVars
    <3>5. Numbers'
      BY <3>1, <3>3, StepFacts, UseFacts DEF ConnToZaurus, FdsOK, Numbers, Alive, netVars, progVars, envVars
    <3> QED
      BY <3>4, <3>5
  <2>2. CASE reqfd' = INVALID /\ UNCHANGED open
    BY <2>2, StepFacts, UseFacts DEF ConnToZaurus, FdsOK, Numbers, Alive, netVars, progVars, envVars
  <2> QED
    BY <2>1, <2>2 DEF ConnToZaurus
<1> QED
  BY <1>1, <1>2, <1>3, <1>4 DEF IInv, TypeOK, FdsOK, NetOK, CountsOK, FinalizedOK

LEMMA AttemptOfUse == \A u \in Uses : u.attempt \in Attempts
<1>1. 0 \in Attempts
  BY Numerals DEF Attempts
<1> QED
  BY <1>1, UseFacts DEF Uses

LEMMA AcceptInv == ASSUME IInv, HandleZaurusConn PROVE IInv'
<1>1. NetOK'
  <2>1. queue' = queue \/ (queue # <<>> /\ queue' = Tail(queue))
    BY DEF HandleZaurusConn, AcceptsAny, AcceptNext, AcceptFails
  <2>2. queue \in Seq(Attempts) /\ Len(queue) <= Backlog /\ Backlog \in Nat
    BY PartsOfInv, EnvAssumption DEF NetOK
  <2>3. queue' \in Seq(Attempts) /\ Len(queue') <= Backlog
    BY <2>1, <2>2
  <2> QED
    BY <2>3, PartsOfInv DEF HandleZaurusConn, NetOK
<1>2. CountsOK'
  BY PartsOfInv DEF HandleZaurusConn, AcceptsAny, AcceptNext, AcceptFails, CountsOK
<1>3. FinalizedOK'
  BY PartsOfInv DEF HandleZaurusConn, FinalizedOK
<1>4. FdsOK' /\ Numbers'
  <2>1. CASE AcceptNext
    <3>1. PICK f \in Fds : Opened(f, For("conn", Head(queue))) /\ connfd' = f
      BY <2>1 DEF AcceptNext
    <3>2. For("conn", Head(queue)) \in Uses
      <4>1. Head(queue) \in Attempts
        BY <2>1, PartsOfInv DEF AcceptNext, NetOK
      <4> QED
        BY <4>1, UsesOfEachKind
    <3>3. /\ open' \in [Fds -> Uses] /\ open[f] = Free /\ open'[f] = For("conn", Head(queue))
          /\ \A g \in Fds : g # f => open'[g] = open[g]
      BY <3>1, <3>2, StepFacts, OpenedFacts
    <3>4. /\ phase = "accept" /\ phase' = "session"
          /\ UNCHANGED <<logfp, listenfd, reqfd, attempt, ended>>
      BY <2>1 DEF HandleZaurusConn, AcceptNext
    <3>5. FdsOK'
      BY <3>1, <3>3, <3>4, StepFacts, UseFacts DEF FdsOK
    <3>6. Numbers'
      BY <3>1, <3>3, <3>4, StepFacts, UseFacts DEF Numbers
    <3> QED
      BY <3>5, <3>6
  <2>2. CASE AcceptFails
    BY <2>2, StepFacts, UseFacts DEF HandleZaurusConn, AcceptFails, FdsOK, Numbers, Alive
  <2> QED
    BY <2>1, <2>2 DEF HandleZaurusConn, AcceptsAny
<1> QED
  BY <1>1, <1>2, <1>3, <1>4 DEF IInv, TypeOK, FdsOK, NetOK, CountsOK, FinalizedOK

LEMMA OpenFileInv == ASSUME IInv, OpenFile PROVE IInv'
<1>1. NetOK'
  BY PartsOfInv DEF OpenFile, NetOK, netVars, progVars, envVars
<1>2. CountsOK'
  BY PartsOfInv, Numerals DEF OpenFile, CountsOK, netVars, progVars, envVars
<1>3. FinalizedOK'
  BY PartsOfInv DEF OpenFile, FinalizedOK, netVars, progVars, envVars
<1>4. FdsOK' /\ Numbers'
  <2>1. PICK f \in Fds : Opened(f, For("file", 0))
    BY DEF OpenFile
  <2>2. /\ open' \in [Fds -> Uses] /\ open[f] = Free /\ open'[f] = For("file", 0)
        /\ \A g \in Fds : g # f => open'[g] = open[g]
    BY <2>1, UsesOfEachKind, StepFacts, OpenedFacts
  <2>3. FdsOK'
    BY <2>2, StepFacts, UseFacts DEF OpenFile, FdsOK, Numbers, Alive, netVars, progVars, envVars
  <2>4. Numbers'
    BY <2>2, StepFacts, UseFacts DEF OpenFile, FdsOK, Numbers, Alive, netVars, progVars, envVars
  <2> QED
    BY <2>3, <2>4
<1> QED
  BY <1>1, <1>2, <1>3, <1>4 DEF IInv, TypeOK, FdsOK, NetOK, CountsOK, FinalizedOK

(***************************************************************************)
(* Steps that close a descriptor.                                          *)
(***************************************************************************)
\* The request connection that a terminate closes is that of the latest attempt.
LEMMA DisconnectFacts ==
    ASSUME IInv, Terminate, HandshakeDone
    PROVE  /\ open' \in [Fds -> Uses]
           /\ connfd \in Fds /\ open'[connfd] = open[connfd]
           /\ \A g \in Fds : open'[g] # open[g] => open[g] = For("req", attempt)
<1>1. phase = "ready" /\ Alive /\ connfd \in Fds /\ open[connfd].what = "conn"
  BY StepFacts DEF Terminate, HandshakeDone, Alive
<1>2. CASE reqfd = INVALID
  BY <1>1, <1>2, StepFacts DEF HandshakeDone, Disconnect
<1>3. CASE reqfd # INVALID
  <2>1. reqfd \in Fds /\ open[reqfd] = For("req", attempt) /\ open' = Closed(reqfd)
    BY <1>1, <1>3, StepFacts DEF HandshakeDone, Disconnect
  <2>2. reqfd # connfd
    BY <1>1, <2>1, UseFacts
  <2> QED
    BY <1>1, <2>1, <2>2, StepFacts, ClosedFacts
<1> QED
  BY <1>2, <1>3

LEMMA TerminateInv == ASSUME IInv, Terminate PROVE IInv'
<1>1. NetOK'
  <2>1. CASE HandshakeDone
    <3>1. open[connfd].attempt \in Attempts
      BY <2>1, DisconnectFacts, StepFacts, AttemptOfUse
    <3> QED
      BY <2>1, <3>1, PartsOfInv DEF Terminate, HandshakeDone, NetOK
  <2>2. CASE HandshakeFails
    BY <2>2, PartsOfInv DEF Terminate, HandshakeFails, NetOK
  <2> QED
    BY <2>1, <2>2 DEF Terminate
<1>2. CountsOK'
  BY PartsOfInv DEF Terminate, CountsOK, progVars
<1>3. FinalizedOK'
  BY PartsOfInv DEF Terminate, FinalizedOK, progVars
<1>4. FdsOK' /\ Numbers'
  <2>1. CASE HandshakeDone
    <3>1. ~Alive'
      BY <2>1, DisconnectFacts DEF Terminate, HandshakeDone, Alive, envVars
    <3>2. phase = "ready" /\ UNCHANGED <<logfp, listenfd, reqfd, connfd, phase, attempt>>
      BY DEF Terminate, envVars, progVars
    <3>3. \A g \in Fds : open[g].what \in {"log", "listen", "conn"} => open'[g] = open[g]
      BY <2>1, DisconnectFacts, UseFacts
    <3>4. FdsOK'
      BY <2>1, <3>2, <3>3, DisconnectFacts, StepFacts, UseFacts DEF FdsOK
    <3>5. Numbers'
      BY <3>1, <3>2, <3>3, StepFacts, UseFacts DEF Numbers
    <3> QED
      BY <3>4, <3>5
  <2>2. CASE HandshakeFails
    BY <2>2, StepFacts, UseFacts DEF Terminate, HandshakeFails, FdsOK, Numbers, Alive, envVars, progVars
  <2> QED
    BY <2>1, <2>2 DEF Terminate
<1> QED
  BY <1>1, <1>2, <1>3, <1>4 DEF IInv, TypeOK, FdsOK, NetOK, CountsOK, FinalizedOK

LEMMA FinalizeFacts ==
    ASSUME IInv, Finalize
    PROVE  /\ open' \in [Fds -> Uses]
           /\ \A g \in Fds : open'[g] # open[g] =>
                 open[g] \in {For("log", 0), For("listen", 0)}
<1>1. /\ logfp \in Fds /\ open[logfp] = For("log", 0)
      /\ listenfd \in Fds /\ open[listenfd] = For("listen", 0)
      /\ open \in [Fds -> Uses]
  BY StepFacts DEF Finalize
<1> QED
  BY <1>1, UsesOfEachKind DEF Finalize

LEMMA FinalizeInv == ASSUME IInv, Finalize PROVE IInv'
<1>1. NetOK'
  BY PartsOfInv, EnvAssumption DEF Finalize, NetOK
<1>2. CountsOK'
  BY PartsOfInv DEF Finalize, CountsOK
<1>3. FinalizedOK'
  BY PartsOfInv DEF Finalize, FinalizedOK
<1>4. FdsOK' /\ Numbers'
  <2>1. phase' = "down" /\ phase = "ready" /\ UNCHANGED <<logfp, listenfd, reqfd, connfd, attempt>>
    BY DEF Finalize, envVars
  <2>2. ended \subseteq ended'
    BY DEF Finalize
  <2>3. \A g \in Fds : open[g].what \in {"req", "conn"} => open'[g] = open[g]
    BY FinalizeFacts, UseFacts
  <2>4. FdsOK'
    BY <2>1, FinalizeFacts, StepFacts DEF FdsOK
  <2>5. Numbers'
    BY <2>1, <2>2, <2>3, StepFacts, UseFacts DEF Numbers, Alive
  <2> QED
    BY <2>4, <2>5
<1> QED
  BY <1>1, <1>2, <1>3, <1>4 DEF IInv, TypeOK, FdsOK, NetOK, CountsOK, FinalizedOK

LEMMA CloseFileInv == ASSUME IInv, CloseFile PROVE IInv'
<1>1. NetOK'
  BY PartsOfInv DEF CloseFile, NetOK, netVars, progVars, envVars
<1>2. CountsOK'
  BY PartsOfInv, Numerals DEF CloseFile, CountsOK, netVars, progVars, envVars
<1>3. FinalizedOK'
  BY PartsOfInv DEF CloseFile, FinalizedOK, netVars, progVars, envVars
<1>4. FdsOK' /\ Numbers'
  <2>1. PICK f \in Fds : open[f].what = "file" /\ open' = Closed(f)
    BY DEF CloseFile
  <2>2. /\ open' \in [Fds -> Uses] /\ open'[f] = Free
        /\ \A g \in Fds : g # f => open'[g] = open[g]
    BY <2>1, StepFacts, ClosedFacts
  <2>3. FdsOK'
    BY <2>1, <2>2, StepFacts, UseFacts DEF CloseFile, FdsOK, Numbers, Alive, netVars, progVars, envVars
  <2>4. Numbers'
    BY <2>1, <2>2, StepFacts, UseFacts DEF CloseFile, FdsOK, Numbers, Alive, netVars, progVars, envVars
  <2> QED
    BY <2>3, <2>4
<1> QED
  BY <1>1, <1>2, <1>3, <1>4 DEF IInv, TypeOK, FdsOK, NetOK, CountsOK, FinalizedOK

(***************************************************************************)
(* Steps that leave every descriptor as it is.                             *)
(***************************************************************************)
LEMMA InitiateInv == ASSUME IInv, Initiate PROVE IInv'
<1>1. NetOK'
  BY PartsOfInv DEF Initiate, NetOK, netVars, progVars, envVars
<1>2. CountsOK'
  BY PartsOfInv, Numerals DEF Initiate, CountsOK, netVars, progVars, envVars
<1>3. FinalizedOK'
  BY PartsOfInv DEF Initiate, FinalizedOK, netVars, progVars, envVars
<1>4. FdsOK' /\ Numbers'
  BY StepFacts, UseFacts DEF Initiate, FdsOK, Numbers, Alive, netVars, progVars, envVars
<1> QED
  BY <1>1, <1>2, <1>3, <1>4 DEF IInv, TypeOK, FdsOK, NetOK, CountsOK, FinalizedOK

LEMMA ConnectFailsInv == ASSUME IInv, ConnectFails PROVE IInv'
<1>1. NetOK'
  BY PartsOfInv DEF ConnectFails, NetOK, netVars, progVars, envVars
<1>2. CountsOK'
  BY PartsOfInv, Numerals DEF ConnectFails, CountsOK, netVars, progVars, envVars
<1>3. FinalizedOK'
  BY PartsOfInv DEF ConnectFails, FinalizedOK, netVars, progVars, envVars
<1>4. FdsOK' /\ Numbers'
  BY StepFacts, UseFacts DEF ConnectFails, FdsOK, Numbers, Alive, netVars, progVars, envVars
<1> QED
  BY <1>1, <1>2, <1>3, <1>4 DEF IInv, TypeOK, FdsOK, NetOK, CountsOK, FinalizedOK

LEMMA SendRayInv == ASSUME IInv, SendRay PROVE IInv'
<1>1. NetOK'
  BY PartsOfInv DEF SendRay, RaySent, NetOK, CountsOK, Attempts
<1>2. CountsOK'
  BY PartsOfInv, Numerals DEF SendRay, CountsOK, netVars, progVars, envVars
<1>3. FinalizedOK'
  BY PartsOfInv DEF SendRay, FinalizedOK, netVars, progVars, envVars
<1>4. FdsOK' /\ Numbers'
  BY StepFacts, UseFacts DEF SendRay, FdsOK, Numbers, Alive, netVars, progVars, envVars
<1> QED
  BY <1>1, <1>2, <1>3, <1>4 DEF IInv, TypeOK, FdsOK, NetOK, CountsOK, FinalizedOK

LEMMA SessionReturnsInv == ASSUME IInv, SessionReturns PROVE IInv'
<1>1. NetOK'
  BY PartsOfInv DEF SessionReturns, NetOK, netVars, progVars, envVars
<1>2. CountsOK'
  BY PartsOfInv, Numerals DEF SessionReturns, CountsOK, netVars, progVars, envVars
<1>3. FinalizedOK'
  BY PartsOfInv DEF SessionReturns, FinalizedOK, netVars, progVars, envVars
<1>4. FdsOK' /\ Numbers'
  BY StepFacts, UseFacts DEF SessionReturns, FdsOK, Numbers, Alive, netVars, progVars, envVars
<1> QED
  BY <1>1, <1>2, <1>3, <1>4 DEF IInv, TypeOK, FdsOK, NetOK, CountsOK, FinalizedOK

LEMMA DialBackInv == ASSUME IInv, DialBack PROVE IInv'
<1>1. NetOK'
  <2>1. PICK a \in told : /\ told' = told \ {a}
                         /\ \/ Len(queue) < Backlog /\ queue' = Append(queue, a) /\ ended' = ended
                            \/ queue' = queue /\ ended' = ended \cup {a}
    BY DEF DialBack
  <2>2. queue \in Seq(Attempts) /\ Len(queue) <= Backlog /\ Backlog \in Nat
    BY PartsOfInv, EnvAssumption DEF NetOK
  <2>3. told \subseteq Attempts /\ ended \subseteq Attempts /\ a \in Attempts
    BY <2>1, PartsOfInv DEF NetOK
  <2>4. queue' \in Seq(Attempts) /\ Len(queue') <= Backlog
    BY <2>1, <2>2, <2>3
  <2>5. told' \subseteq Attempts /\ ended' \subseteq Attempts
    BY <2>1, <2>3
  <2> QED
    BY <2>4, <2>5 DEF NetOK
<1>2. CountsOK'
  BY PartsOfInv, Numerals DEF DialBack, CountsOK, netVars, progVars, envVars
<1>3. FinalizedOK'
  BY PartsOfInv DEF DialBack, FinalizedOK, netVars, progVars, envVars
<1>4. FdsOK' /\ Numbers'
  <2>1. UNCHANGED <<open, logfp, listenfd, reqfd, connfd, phase, attempt>> /\ ended \subseteq ended'
    BY DEF DialBack, envVars, progVars
  <2>2. FdsOK'
    BY <2>1, StepFacts DEF FdsOK, IInv, TypeOK
  <2>3. Numbers'
    BY <2>1, StepFacts DEF Numbers, Alive
  <2> QED
    BY <2>2, <2>3
<1> QED
  BY <1>1, <1>2, <1>3, <1>4 DEF IInv, TypeOK, FdsOK, NetOK, CountsOK, FinalizedOK

LEMMA DialUnaskedInv == ASSUME IInv, DialUnasked PROVE IInv'
<1>1. NetOK'
  <2>1. queue \in Seq(Attempts) /\ Len(queue) < Backlog /\ Backlog \in Nat /\ 0 \in Attempts
    BY PartsOfInv, EnvAssumption, Numerals DEF DialUnasked, NetOK, Attempts
  <2>2. queue' \in Seq(Attempts) /\ Len(queue') <= Backlog
    BY <2>1 DEF DialUnasked
  <2> QED
    BY <2>2, PartsOfInv DEF DialUnasked, NetOK
<1>2. CountsOK'
  BY PartsOfInv, Numerals DEF DialUnasked, CountsOK, netVars, progVars, envVars
<1>3. FinalizedOK'
  BY PartsOfInv DEF DialUnasked, FinalizedOK, netVars, progVars, envVars
<1>4. FdsOK' /\ Numbers'
  <2>1. UNCHANGED <<open, logfp, listenfd, reqfd, connfd, phase, attempt>> /\ ended \subseteq ended'
    BY DEF DialUnasked, envVars, progVars
  <2>2. FdsOK'
    BY <2>1, StepFacts DEF FdsOK, IInv, TypeOK
  <2>3. Numbers'
    BY <2>1, StepFacts DEF Numbers, Alive
  <2> QED
    BY <2>2, <2>3
<1> QED
  BY <1>1, <1>2, <1>3, <1>4 DEF IInv, TypeOK, FdsOK, NetOK, CountsOK, FinalizedOK

LEMMA ZaurusEndsInv == ASSUME IInv, ZaurusEnds PROVE IInv'
<1>1. NetOK'
  BY PartsOfInv DEF ZaurusEnds, NetOK
<1>2. CountsOK'
  BY PartsOfInv, Numerals DEF ZaurusEnds, CountsOK, netVars, progVars, envVars
<1>3. FinalizedOK'
  BY PartsOfInv DEF ZaurusEnds, FinalizedOK, netVars, progVars, envVars
<1>4. FdsOK' /\ Numbers'
  <2>1. UNCHANGED <<open, logfp, listenfd, reqfd, connfd, phase, attempt>> /\ ended \subseteq ended'
    BY DEF ZaurusEnds, envVars, progVars
  <2>2. FdsOK'
    BY <2>1, StepFacts DEF FdsOK, IInv, TypeOK
  <2>3. Numbers'
    BY <2>1, StepFacts DEF Numbers, Alive
  <2> QED
    BY <2>2, <2>3
<1> QED
  BY <1>1, <1>2, <1>3, <1>4 DEF IInv, TypeOK, FdsOK, NetOK, CountsOK, FinalizedOK

(***************************************************************************)
(* The theorems.                                                           *)
(***************************************************************************)
LEMMA StutterInv == ASSUME IInv, UNCHANGED vars PROVE IInv'
<1>1. FdsOK' /\ NetOK' /\ CountsOK' /\ FinalizedOK'
  BY DEF IInv, TypeOK, FdsOK, NetOK, CountsOK, FinalizedOK, vars
<1>2. Numbers'
  BY DEF IInv, Numbers, Alive, vars
<1> QED
  BY <1>1, <1>2 DEF IInv, TypeOK, FdsOK, NetOK, CountsOK, FinalizedOK

LEMMA NextInv == IInv /\ [Next]_vars => IInv'
<1> SUFFICES ASSUME IInv, [Next]_vars PROVE IInv'
  OBVIOUS
<1>1. CASE Library
  BY <1>1, OpenLogInv, ListenInv, InitiateInv, ConnToZaurusInv, ConnectFailsInv, SendRayInv,
     AcceptInv, SessionReturnsInv, TerminateInv, FinalizeInv DEF Library
<1>2. CASE OpenFile \/ CloseFile
  BY <1>2, OpenFileInv, CloseFileInv
<1>3. CASE DialBack \/ DialUnasked \/ ZaurusEnds
  BY <1>3, DialBackInv, DialUnaskedInv, ZaurusEndsInv
<1>4. CASE UNCHANGED vars
  BY <1>4, StutterInv
<1> QED
  BY <1>1, <1>2, <1>3, <1>4 DEF Next

LEMMA Invariant == Spec => []IInv
<1> QED
  BY InitInv, NextInv, PTL DEF Spec

(***************************************************************************)
(* Type correctness, with the numbers in env: as long as the library       *)
(* listens, logfp and listenfd are open for the log and for listening, and *)
(* the connection that a session runs over is open.                        *)
(***************************************************************************)
THEOREM TypeCorrect == Spec => []TypeOK
<1>1. IInv => TypeOK
  BY DEF IInv
<1> QED
  BY <1>1, Invariant, PTL

\* The library's descriptors, in the one step.
Closes == \A f \in Fds :
    (open[f] # Free /\ open'[f] = Free) =>
        open[f] \in {For("log", 0), For("listen", 0), For("req", attempt)}

LEMMA OpeningClosesNone ==
    ASSUME IInv, NEW f \in Fds, NEW use \in Uses, Opened(f, use) PROVE Closes
<1>1. /\ open' \in [Fds -> Uses] /\ open[f] = Free
      /\ \A g \in Fds : g # f => open'[g] = open[g]
  BY StepFacts, OpenedFacts
<1> QED
  BY <1>1 DEF Closes

LEMMA KeepingClosesNone == ASSUME UNCHANGED open PROVE Closes
BY DEF Closes

LEMMA StepCloses == ASSUME IInv, Library PROVE Closes
<1>1. ASSUME OpenLog PROVE Closes
  BY <1>1, OpeningClosesNone, KeepingClosesNone, UsesOfEachKind DEF OpenLog
<1>2. ASSUME Listen PROVE Closes
  BY <1>2, OpeningClosesNone, KeepingClosesNone, UsesOfEachKind DEF Listen
<1>3. ASSUME ConnToZaurus PROVE Closes
  <2>1. For("req", attempt) \in Uses
    BY UsesOfEachKind, PartsOfInv DEF CountsOK, Attempts
  <2> QED
    BY <1>3, <2>1, OpeningClosesNone, KeepingClosesNone DEF ConnToZaurus
<1>4. ASSUME HandleZaurusConn PROVE Closes
  <2>1. CASE AcceptNext
    <3>1. Head(queue) \in Attempts
      BY <2>1, PartsOfInv DEF AcceptNext, NetOK
    <3>2. For("conn", Head(queue)) \in Uses
      BY <3>1, UsesOfEachKind
    <3> QED
      BY <2>1, <3>2, OpeningClosesNone DEF AcceptNext
  <2>2. CASE AcceptFails
    BY <2>2, KeepingClosesNone DEF AcceptFails
  <2> QED
    BY <1>4, <2>1, <2>2 DEF HandleZaurusConn, AcceptsAny
<1>5. ASSUME Initiate \/ ConnectFails \/ SendRay \/ SessionReturns PROVE Closes
  BY <1>5, KeepingClosesNone DEF Initiate, ConnectFails, SendRay, SessionReturns
<1>6. ASSUME Terminate PROVE Closes
  <2>1. CASE HandshakeDone
    BY <1>6, <2>1, DisconnectFacts DEF Closes
  <2>2. CASE HandshakeFails
    BY <2>2, KeepingClosesNone DEF HandshakeFails
  <2> QED
    BY <1>6, <2>1, <2>2 DEF Terminate
<1>7. ASSUME Finalize PROVE Closes
  BY <1>7, FinalizeFacts DEF Closes
<1> QED
  BY <1>1, <1>2, <1>3, <1>4, <1>5, <1>6, <1>7 DEF Library

(***************************************************************************)
(* The library never closes the program's file nor the connection that a   *)
(* session runs over: what it closes is its log, its listening socket or   *)
(* the request connection of the latest attempt, although env keeps the    *)
(* numbers of descriptors that are closed and open for something else by   *)
(* now (zdtm_net.c:87, 187, zdtm_log.c:114).                               *)
(***************************************************************************)
THEOREM ClosesOnlyItsOwn == Spec => ClosesItsOwn
<1>1. IInv /\ [Next]_vars => [Library => Closes]_vars
  BY StepCloses
<1> QED
  BY <1>1, Invariant, PTL DEF Spec, ClosesItsOwn, Closes

-----------------------------------------------------------------------------
(***************************************************************************)
(* The connections that were asked for.                                    *)
(***************************************************************************)
Members(q)  == {q[n] : n \in 1..Len(q)}
Distinct(q) == \A m, n \in 1..Len(q) : q[m] = q[n] => m = n

LEMMA TailMembers ==
    ASSUME NEW q \in Seq(Attempts), q # <<>>, Distinct(q)
    PROVE  /\ Head(q) \in Members(q) /\ Members(Tail(q)) = Members(q) \ {Head(q)}
           /\ Distinct(Tail(q))
<1>1. /\ Len(q) \in Nat \ {0} /\ Head(q) = q[1]
      /\ Len(Tail(q)) = Len(q) - 1 /\ \A n \in 1..Len(q) - 1 : Tail(q)[n] = q[n + 1]
  BY EmptySeq, HeadTailProperties
<1> DEFINE L == Len(q)  t == Tail(q)
<1>2. L \in Nat \ {0} /\ Len(t) = L - 1 /\ \A n \in 1..L-1 : t[n] = q[n + 1]
  BY <1>1
<1> HIDE DEF L, t
<1>3. 1 \in 1..L /\ \A n \in 1..L-1 : n + 1 \in 1..L /\ n + 1 # 1
  BY <1>2
<1>4. \A m, n \in 1..L : q[m] = q[n] => m = n
  BY DEF Distinct, L
<1>5. Members(q) = {q[n] : n \in 1..L} /\ Members(t) = {t[n] : n \in 1..L-1}
  BY <1>2 DEF Members, L
<1>6. Members(t) \subseteq Members(q) \ {q[1]}
  <2> SUFFICES ASSUME NEW n \in 1..L-1 PROVE t[n] \in Members(q) \ {q[1]}
    BY <1>5
  <2>1. t[n] = q[n + 1] /\ n + 1 \in 1..L /\ n + 1 # 1
    BY <1>2, <1>3
  <2>2. q[n + 1] # q[1]
    BY <1>3, <1>4, <2>1
  <2> QED
    BY <1>5, <2>1, <2>2
<1>7. Members(q) \ {q[1]} \subseteq Members(t)
  <2> SUFFICES ASSUME NEW n \in 1..L, q[n] # q[1] PROVE q[n] \in Members(t)
    BY <1>5
  <2>1. n # 1
    BY <2>1
  <2>2. n - 1 \in 1..L-1 /\ n - 1 + 1 = n
    BY <1>2, <2>1
  <2>3. t[n - 1] = q[n]
    BY <1>2, <2>2
  <2> QED
    BY <1>5, <2>2, <2>3
<1>8. Distinct(t)
  <2> SUFFICES ASSUME NEW m \in 1..L-1, NEW n \in 1..L-1, t[m] = t[n] PROVE m = n
    BY <1>2 DEF Distinct
  <2>1. q[m + 1] = q[n + 1] /\ m + 1 \in 1..L /\ n + 1 \in 1..L
    BY <1>2, <1>3
  <2>2. m + 1 = n + 1
    BY <1>4, <2>1
  <2> QED
    BY <2>2
<1>9. q[1] \in Members(q)
  BY <1>3, <1>5
<1> QED
  BY <1>1, <1>6, <1>7, <1>8, <1>9 DEF t

LEMMA AppendMembers ==
    ASSUME NEW q \in Seq(Attempts), Distinct(q), NEW a \in Attempts, a \notin Members(q)
    PROVE  /\ Members(Append(q, a)) = Members(q) \cup {a} /\ Distinct(Append(q, a))
<1> DEFINE L == Len(q)  t == Append(q, a)
<1>1. L \in Nat /\ Len(t) = L + 1 /\ t[L + 1] = a /\ \A n \in 1..L : t[n] = q[n]
  BY AppendProperties
<1> HIDE DEF L, t
<1>2. \A n \in 1..L+1 : n \in 1..L \/ n = L + 1
  BY <1>1
<1>3. L + 1 \in 1..L+1 /\ \A n \in 1..L : n \in 1..L+1
  BY <1>1
<1>4. Members(q) = {q[n] : n \in 1..L} /\ Members(t) = {t[n] : n \in 1..L+1}
  BY <1>1 DEF Members, L
<1>5. Members(t) = Members(q) \cup {a}
  <2>1. ASSUME NEW n \in 1..L+1 PROVE t[n] \in Members(q) \cup {a}
    BY <1>1, <1>2, <1>4
  <2>2. ASSUME NEW n \in 1..L PROVE q[n] \in Members(t)
    <3>1. t[n] = q[n] /\ n \in 1..L+1
      BY <1>1, <1>3
    <3> QED
      BY <1>4, <3>1
  <2>3. a \in Members(t)
    BY <1>1, <1>3, <1>4
  <2> QED
    BY <1>4, <2>1, <2>2, <2>3
<1>6. Distinct(t)
  <2> SUFFICES ASSUME NEW m \in 1..L+1, NEW n \in 1..L+1, t[m] = t[n] PROVE m = n
    BY <1>1 DEF Distinct
  <2>1. CASE m \in 1..L /\ n \in 1..L
    BY <1>1, <2>1 DEF Distinct, L
  <2>2. \A i \in 1..L : t[i] # a
    BY <1>1, <1>4
  <2> QED
    BY <1>1, <1>2, <2>1, <2>2
<1> QED
  BY <1>5, <1>6 DEF t

\* The attempts whose connection may come or wait.
Waiting == told \cup Members(queue)

(***************************************************************************)
(* No attempt's connection is there twice, and none is there before its    *)
(* RAY was sent.                                                           *)
(***************************************************************************)
Asked ==
    /\ Distinct(queue) /\ told \cap Members(queue) = {}
    /\ Waiting \subseteq 0..attempt /\ 0 \notin told
    /\ phase \in {"dial", "ray"} => attempt \notin Waiting
    /\ phase \in {"dial", "ray", "accept"} => attempt # 0

LeftInv == Asked /\ LeftoversHaveCauses

LEMMA LeftIs ==
    ASSUME IInv
    PROVE  /\ Left = Waiting \ (IF phase = "accept" THEN {attempt} ELSE {})
           /\ IsFiniteSet(Waiting) /\ IsFiniteSet(Left) /\ Waiting \subseteq Attempts
           /\ Cardinality(Waiting) \in Nat /\ Cardinality(Left) \in Nat
           /\ queue \in Seq(Attempts) /\ attempt \in Nat /\ causes \in Nat
<1>1. queue \in Seq(Attempts) /\ told \subseteq Attempts /\ attempt \in Nat /\ causes \in Nat
  BY PartsOfInv, Numerals DEF NetOK, CountsOK
<1>2. DOMAIN queue = 1..Len(queue) /\ \A n \in 1..Len(queue) : queue[n] \in Attempts
  BY <1>1
<1>3. {queue[n] : n \in DOMAIN queue} = Members(queue) /\ Members(queue) \subseteq Attempts
  BY <1>2 DEF Members
<1>4. IsFiniteSet(Attempts)
  <2>1. 0 \in Int /\ MaxAttempts \in Int
    BY Numerals
  <2> QED
    BY <2>1, FS_Interval DEF Attempts
<1>5. Waiting \subseteq Attempts
  BY <1>1, <1>3 DEF Waiting
<1>6. IsFiniteSet(Waiting)
  BY <1>4, <1>5, FS_Subset
<1>7. Left = Waiting \ (IF phase = "accept" THEN {attempt} ELSE {})
  BY <1>3 DEF Left, Waiting
<1>8. IsFiniteSet(Left)
  BY <1>6, <1>7, FS_Subset
<1> QED
  BY <1>1, <1>5, <1>6, <1>7, <1>8, FS_CardinalityType

LEMMA LeftIsNext ==
    ASSUME IInv'
    PROVE  Left' = Waiting' \ (IF phase' = "accept" THEN {attempt'} ELSE {})
<1>1. queue' \in Seq(Attempts)
  BY DEF IInv, TypeOK
<1>2. DOMAIN queue' = 1..Len(queue')
  BY <1>1
<1>3. {queue'[n] : n \in DOMAIN queue'} = Members(queue)'
  BY <1>2 DEF Members
<1> QED
  BY <1>3 DEF Left, Waiting

\* A step that leaves no more behind than before.
LEMMA NoMoreLeft ==
    ASSUME IInv, LeftoversHaveCauses, Left' \subseteq Left, causes' = causes,
           phase' = "session" => phase = "session" /\ UNCHANGED <<open, connfd, attempt>>
    PROVE  LeftoversHaveCauses'
<1>1. IsFiniteSet(Left) /\ Cardinality(Left) \in Nat /\ causes \in Nat
  BY LeftIs
<1>2. Cardinality(Left') <= Cardinality(Left) /\ IsFiniteSet(Left')
  BY <1>1, FS_Subset
<1>3. Cardinality(Left') \in Nat
  BY <1>2, FS_CardinalityType
<1>4. Cardinality(Left') <= causes'
  BY <1>1, <1>2, <1>3 DEF LeftoversHaveCauses
<1>5. phase' = "session" /\ causes' = 0 => open'[connfd'].attempt = attempt'
  BY DEF LeftoversHaveCauses
<1> QED
  BY <1>4, <1>5 DEF LeftoversHaveCauses

\* A step that leaves one more behind, and its cause.
LEMMA OneMoreLeft ==
    ASSUME IInv, LeftoversHaveCauses, NEW a, Left' \subseteq Left \cup {a},
           causes' = causes + 1
    PROVE  LeftoversHaveCauses'
<1>1. IsFiniteSet(Left) /\ Cardinality(Left) \in Nat /\ causes \in Nat
  BY LeftIs
<1>2. IsFiniteSet(Left \cup {a}) /\ Cardinality(Left \cup {a}) <= Cardinality(Left) + 1
      /\ Cardinality(Left \cup {a}) \in Nat
  <2>1. /\ IsFiniteSet(Left \cup {a})
        /\ \/ Cardinality(Left \cup {a}) = Cardinality(Left)
           \/ Cardinality(Left \cup {a}) = Cardinality(Left) + 1
    BY <1>1, FS_AddElement
  <2> DEFINE y == Cardinality(Left \cup {a})  z == Cardinality(Left)
  <2>2. z \in Nat /\ (y = z \/ y = z + 1)
    BY <1>1, <2>1
  <2> HIDE DEF y, z
  <2>3. y <= z + 1 /\ y \in Nat
    BY <2>2
  <2> QED
    BY <2>1, <2>3 DEF y, z
<1>3. Cardinality(Left') <= Cardinality(Left \cup {a}) /\ IsFiniteSet(Left')
  BY <1>2, FS_Subset
<1>4. Cardinality(Left') \in Nat
  BY <1>3, FS_CardinalityType
<1>5. Cardinality(Left) <= causes
  BY DEF LeftoversHaveCauses
<1> DEFINE x == Cardinality(Left')  y == Cardinality(Left \cup {a})  z == Cardinality(Left)
<1>6. x \in Nat /\ y \in Nat /\ z \in Nat /\ x <= y /\ y <= z + 1 /\ z <= causes
      /\ causes \in Nat
  BY <1>1, <1>2, <1>3, <1>4, <1>5
<1> HIDE DEF x, y, z
<1>7. x <= causes + 1 /\ causes + 1 # 0
  BY <1>6
<1>8. Cardinality(Left') <= causes'
  BY <1>7 DEF x
<1>9. causes' # 0
  BY <1>7
<1> QED
  BY <1>8, <1>9 DEF LeftoversHaveCauses

\* Steps that leave the queue, the RAYs and the attempt as they are.
LEMMA QuietStep ==
    ASSUME IInv, LeftInv, IInv', UNCHANGED <<told, queue, attempt, causes>>,
           phase # "accept", phase' \notin {"dial", "accept"},
           phase' = "ray" => phase \in {"dial", "ray"},
           phase' = "session" => phase = "session" /\ UNCHANGED <<open, connfd>>
    PROVE  LeftInv'
<1>1. Waiting' = Waiting /\ Members(queue)' = Members(queue) /\ Distinct(queue)' = Distinct(queue)
  BY DEF Waiting, Members, Distinct
<1>2. Asked'
  BY <1>1 DEF LeftInv, Asked
<1>3. Left' = Left
  BY DEF Left
<1>4. LeftoversHaveCauses'
  BY <1>3, NoMoreLeft DEF LeftInv
<1> QED
  BY <1>2, <1>4 DEF LeftInv

LEMMA InitiateLeft == ASSUME IInv, LeftInv, IInv', Initiate PROVE LeftInv'
<1>1. /\ phase = "ready" /\ attempt' = attempt + 1 /\ phase' = "dial"
      /\ UNCHANGED <<told, queue, causes>>
  BY DEF Initiate, netVars
<1>2. Waiting' = Waiting /\ Members(queue)' = Members(queue) /\ Distinct(queue)' = Distinct(queue)
      /\ Left' = Left
  BY <1>1 DEF Waiting, Members, Distinct, Left
<1>3. attempt \in Nat /\ Waiting \subseteq 0..attempt
  BY LeftIs DEF LeftInv, Asked
<1>4. 0..attempt \subseteq 0..attempt+1 /\ attempt + 1 \notin 0..attempt /\ attempt + 1 # 0
  BY <1>3
<1>5. Asked'
  BY <1>1, <1>2, <1>3, <1>4 DEF LeftInv, Asked
<1>6. LeftoversHaveCauses'
  BY <1>1, <1>2, NoMoreLeft DEF LeftInv
<1> QED
  BY <1>5, <1>6 DEF LeftInv

LEMMA SendRayLeft == ASSUME IInv, LeftInv, IInv', SendRay PROVE LeftInv'
<1>1. /\ phase = "ray" /\ told' = told \cup {attempt} /\ phase' = "accept"
      /\ UNCHANGED <<queue, attempt, causes>>
  BY DEF SendRay, RaySent
<1>2. /\ Members(queue)' = Members(queue) /\ Distinct(queue)' = Distinct(queue)
      /\ Waiting' = Waiting \cup {attempt}
  BY <1>1 DEF Members, Distinct, Waiting
<1>3. attempt \in Nat /\ attempt \in 0..attempt /\ attempt # 0 /\ attempt \notin Waiting
  BY <1>1, LeftIs DEF LeftInv, Asked
<1>4. Asked'
  BY <1>1, <1>2, <1>3 DEF LeftInv, Asked, Waiting
<1>5. Left' \subseteq Left
  BY <1>1, <1>2, LeftIs DEF Left, Waiting, Members
<1>6. LeftoversHaveCauses'
  BY <1>1, <1>5, NoMoreLeft DEF LeftInv
<1> QED
  BY <1>4, <1>6 DEF LeftInv

\* The connection that is accepted waits no longer; with it the attempt's own
\* would be left behind.
LEMMA AcceptNextLeft ==
    ASSUME IInv, LeftInv, IInv', HandleZaurusConn, AcceptNext PROVE LeftInv'
<1> DEFINE h == Head(queue)
<1>1. /\ phase = "accept" /\ phase' = "session" /\ queue # <<>> /\ queue' = Tail(queue)
      /\ UNCHANGED <<told, attempt, causes>>
  BY DEF HandleZaurusConn, AcceptNext
<1>2. /\ queue \in Seq(Attempts) /\ IsFiniteSet(Waiting) /\ Left = Waiting \ {attempt}
      /\ Cardinality(Waiting) \in Nat /\ causes \in Nat /\ IsFiniteSet(Left)
  BY <1>1, LeftIs
<1>3. /\ h \in Members(queue) /\ Members(Tail(queue)) = Members(queue) \ {h}
      /\ Distinct(Tail(queue))
  BY <1>1, <1>2, TailMembers DEF LeftInv, Asked
<1>4. Members(queue)' = Members(queue) \ {h} /\ Distinct(queue)'
  BY <1>1, <1>3 DEF Members, Distinct
<1>5. h \in Waiting /\ h \notin told
  BY <1>3 DEF LeftInv, Asked, Waiting
<1>6. Waiting' = Waiting \ {h}
  BY <1>1, <1>4, <1>5 DEF Waiting
<1>7. Asked'
  BY <1>1, <1>4, <1>6 DEF LeftInv, Asked
<1>8. Left' = Waiting \ {h}
  <2>1. Left' = Waiting' \ {}
    BY <1>1, LeftIsNext
  <2> QED
    BY <1>6, <2>1
<1>9. Cardinality(Waiting \ {h}) = Cardinality(Waiting) - 1
  BY <1>2, <1>5, FS_RemoveElement
<1>10. Cardinality(Left) >= Cardinality(Waiting) - 1 /\ Cardinality(Left) \in Nat
  <2>1. \/ Cardinality(Left) = Cardinality(Waiting)
        \/ Cardinality(Left) = Cardinality(Waiting) - 1
    BY <1>2, FS_RemoveElement
  <2>2. Cardinality(Left) \in Nat
    BY LeftIs
  <2> DEFINE x == Cardinality(Left)  y == Cardinality(Waiting)
  <2>3. x \in Nat /\ y \in Nat /\ (x = y \/ x = y - 1)
    BY <1>2, <2>1, <2>2
  <2> HIDE DEF x, y
  <2>4. x >= y - 1
    BY <2>3
  <2> QED
    BY <2>2, <2>4 DEF x, y
<1>11. Cardinality(Left) <= causes
  BY DEF LeftInv, LeftoversHaveCauses
<1>12. Cardinality(Left') <= causes'
  <2>1. Cardinality(Left') = Cardinality(Waiting) - 1
    BY <1>8, <1>9
  <2> QED
    BY <1>1, <1>2, <1>10, <1>11, <2>1
<1>13. causes' = 0 => open'[connfd'].attempt = attempt'
  <2> SUFFICES ASSUME causes = 0 PROVE open'[connfd'].attempt = attempt
    BY <1>1
  <2>1. Left = {}
    <3>1. Cardinality(Left) = 0
      BY <1>10, <1>11
    <3> QED
      BY <1>2, <3>1, FS_EmptySet
  <2>2. h = attempt
    BY <1>2, <1>5, <2>1
  <2>3. PICK f \in Fds : Opened(f, For("conn", h)) /\ connfd' = f
    BY DEF AcceptNext
  <2>4. h \in Attempts
    BY <1>5, LeftIs
  <2>5. For("conn", h) \in Uses
    BY <2>4, UsesOfEachKind
  <2>6. open'[f] = For("conn", h)
    BY <2>3, <2>5, StepFacts, OpenedFacts
  <2> QED
    BY <2>2, <2>3, <2>6, UseFacts
<1> QED
  BY <1>7, <1>12, <1>13 DEF LeftInv, LeftoversHaveCauses

LEMMA AcceptLeft == ASSUME IInv, LeftInv, IInv', HandleZaurusConn PROVE LeftInv'
<1>1. CASE AcceptFails
  <2>1. /\ phase = "accept" /\ phase' = "ready" /\ causes' = causes + 1
        /\ UNCHANGED <<told, queue, attempt>>
    BY <1>1 DEF HandleZaurusConn, AcceptFails
  <2>2. /\ Members(queue)' = Members(queue) /\ Distinct(queue)' = Distinct(queue)
        /\ Waiting' = Waiting
    BY <2>1 DEF Members, Distinct, Waiting
  <2>3. Asked'
    BY <2>1, <2>2 DEF LeftInv, Asked
  <2>4. Left' \subseteq Left \cup {attempt}
    BY <2>1 DEF Left
  <2>5. LeftoversHaveCauses'
    BY <2>1, <2>4, OneMoreLeft DEF LeftInv
  <2> QED
    BY <2>3, <2>5 DEF LeftInv
<1>2. CASE AcceptNext
  BY <1>2, AcceptNextLeft
<1> QED
  BY <1>1, <1>2 DEF HandleZaurusConn, AcceptsAny

LEMMA FinalizeLeft == ASSUME IInv, LeftInv, IInv', Finalize PROVE LeftInv'
<1>1. /\ phase = "ready" /\ phase' = "down" /\ queue' = <<>>
      /\ UNCHANGED <<told, attempt, causes>>
  BY DEF Finalize
<1>2. Members(queue)' = {} /\ Distinct(queue)'
  BY <1>1 DEF Members, Distinct
<1>3. Waiting' \subseteq Waiting /\ told' = told
  BY <1>1, <1>2 DEF Waiting
<1>4. Asked'
  BY <1>1, <1>2, <1>3 DEF LeftInv, Asked
<1>5. Left' \subseteq Left
  BY <1>1 DEF Left
<1>6. LeftoversHaveCauses'
  BY <1>1, <1>5, NoMoreLeft DEF LeftInv
<1> QED
  BY <1>4, <1>6 DEF LeftInv

LEMMA DialBackLeft == ASSUME IInv, LeftInv, IInv', DialBack PROVE LeftInv'
<1>1. PICK a \in told :
        /\ told' = told \ {a}
        /\ queue' = queue \/ queue' = Append(queue, a)
  BY DEF DialBack
<1>2. UNCHANGED <<open, connfd, phase, attempt, causes>>
  BY DEF DialBack, envVars, progVars
<1>3. queue \in Seq(Attempts) /\ a \in Attempts /\ a \notin Members(queue)
  BY <1>1, LeftIs DEF LeftInv, Asked, Waiting
<1>4. Distinct(queue)' /\ Members(queue)' \subseteq Members(queue) \cup {a}
      /\ a \notin told'
  <2>1. CASE queue' = queue
    BY <1>1, <2>1 DEF LeftInv, Asked, Distinct, Members
  <2>2. CASE queue' = Append(queue, a)
    <3>1. Members(Append(queue, a)) = Members(queue) \cup {a} /\ Distinct(Append(queue, a))
      BY <1>3, AppendMembers DEF LeftInv, Asked
    <3>2. Members(queue)' = Members(Append(queue, a)) /\ Distinct(queue)' = Distinct(Append(queue, a))
      BY <2>2 DEF Members, Distinct
    <3> QED
      BY <1>1, <3>1, <3>2
  <2> QED
    BY <1>1, <2>1, <2>2
<1>5. Waiting' \subseteq Waiting /\ told' \cap Members(queue)' = {} /\ 0 \notin told'
  BY <1>1, <1>4 DEF LeftInv, Asked, Waiting
<1>6. Asked'
  BY <1>2, <1>4, <1>5 DEF LeftInv, Asked
<1>7. Left' \subseteq Left
  <2>1. Left' = Waiting' \ (IF phase' = "accept" THEN {attempt'} ELSE {})
    BY LeftIsNext
  <2> QED
    BY <1>2, <1>5, <2>1, LeftIs
<1>8. LeftoversHaveCauses'
  BY <1>2, <1>7, NoMoreLeft DEF LeftInv
<1> QED
  BY <1>6, <1>8 DEF LeftInv

LEMMA DialUnaskedLeft == ASSUME IInv, LeftInv, IInv', DialUnasked PROVE LeftInv'
<1>1. /\ \A n \in DOMAIN queue : queue[n] # 0
      /\ queue' = Append(queue, 0) /\ causes' = causes + 1
      /\ UNCHANGED <<told, phase, attempt>>
  BY DEF DialUnasked, progVars
<1>2. queue \in Seq(Attempts) /\ 0 \in Attempts /\ attempt \in Nat
  BY LeftIs, Numerals DEF Attempts
<1>3. 0 \notin Members(queue)
  <2>1. DOMAIN queue = 1..Len(queue)
    BY <1>2
  <2> QED
    BY <1>1, <2>1 DEF Members
<1>4. Members(Append(queue, 0)) = Members(queue) \cup {0} /\ Distinct(Append(queue, 0))
  BY <1>2, <1>3, AppendMembers DEF LeftInv, Asked
<1>5. Members(queue)' = Members(queue) \cup {0} /\ Distinct(queue)'
  BY <1>1, <1>4 DEF Members, Distinct
<1>6. Waiting' = Waiting \cup {0} /\ 0 \in 0..attempt
  BY <1>1, <1>2, <1>5 DEF Waiting
<1>7. Asked'
  <2>1. phase' \in {"dial", "ray"} => attempt' \notin Waiting'
    BY <1>1, <1>6 DEF LeftInv, Asked
  <2>2. told' \cap Members(queue)' = {}
    BY <1>1, <1>5 DEF LeftInv, Asked
  <2> QED
    BY <1>1, <1>5, <1>6, <2>1, <2>2 DEF LeftInv, Asked
<1>8. Left' \subseteq Left \cup {0}
  <2>1. Left' = Waiting' \ (IF phase' = "accept" THEN {attempt'} ELSE {})
    BY LeftIsNext
  <2> QED
    BY <1>1, <1>6, <2>1, LeftIs
<1>9. LeftoversHaveCauses'
  BY <1>1, <1>8, OneMoreLeft DEF LeftInv
<1> QED
  BY <1>7, <1>9 DEF LeftInv

LEMMA NextLeft == ASSUME IInv, LeftInv, IInv', [Next]_vars PROVE LeftInv'
<1>1. CASE OpenLog \/ Listen \/ ConnToZaurus \/ ConnectFails \/ SessionReturns \/ Terminate
  <2>1. /\ UNCHANGED <<told, queue, attempt, causes>> /\ phase # "accept"
        /\ phase' \notin {"dial", "accept", "session"}
        /\ phase' = "ray" => phase \in {"dial", "ray"}
    <3>1. CASE OpenLog \/ Listen
      BY <3>1 DEF OpenLog, Listen, netVars
    <3>2. CASE ConnToZaurus \/ ConnectFails
      BY <3>2 DEF ConnToZaurus, ConnectFails, netVars
    <3>3. CASE SessionReturns \/ Terminate
      BY <3>3 DEF SessionReturns, Terminate, netVars, progVars
    <3> QED
      BY <1>1, <3>1, <3>2, <3>3
  <2> QED
    BY <2>1, QuietStep
<1>2. CASE OpenFile \/ CloseFile
  <2>1. UNCHANGED <<told, queue, attempt, causes, phase>> /\ phase \in {"down", "ready"}
    BY <1>2 DEF OpenFile, CloseFile, netVars, progVars
  <2> QED
    BY <2>1, QuietStep
<1>3. CASE ZaurusEnds \/ UNCHANGED vars
  <2>1. UNCHANGED <<told, queue, attempt, causes, phase, open, connfd>>
    BY <1>3 DEF ZaurusEnds, vars, envVars, progVars
  <2>2. Asked'
    BY <2>1 DEF LeftInv, Asked, Waiting, Members, Distinct
  <2>3. LeftoversHaveCauses'
    BY <2>1 DEF LeftInv, LeftoversHaveCauses, Left
  <2> QED
    BY <2>2, <2>3 DEF LeftInv
<1> QED
  BY <1>1, <1>2, <1>3, InitiateLeft, SendRayLeft, AcceptLeft, FinalizeLeft, DialBackLeft,
     DialUnaskedLeft DEF Next, Library

(***************************************************************************)
(* A session never runs over a connection that an earlier attempt asked    *)
(* for, unless an accept failed after its RAY was sent or the Zaurus       *)
(* connected unasked; and no more connections are left behind than that.   *)
(***************************************************************************)
THEOREM OwnConnections == Spec => []LeftoversHaveCauses
<1>1. Init => LeftInv
  <2> SUFFICES ASSUME Init PROVE LeftInv
    OBVIOUS
  <2>1. /\ told = {} /\ queue = <<>> /\ attempt = 0 /\ causes = 0 /\ phase = "down"
    BY DEF Init
  <2>2. Members(queue) = {} /\ Distinct(queue) /\ Waiting = {} /\ Left = {}
    BY <2>1 DEF Members, Distinct, Waiting, Left
  <2>3. Cardinality(Left) <= causes
    <3>1. Cardinality({}) = 0
      BY FS_EmptySet
    <3> QED
      BY <2>1, <2>2, <3>1
  <2> QED
    BY <2>1, <2>2, <2>3 DEF LeftInv, Asked, LeftoversHaveCauses
<1>2. IInv /\ LeftInv /\ IInv' /\ [Next]_vars => LeftInv'
  BY NextLeft
<1>3. LeftInv => LeftoversHaveCauses
  BY DEF LeftInv
<1> QED
  BY <1>1, <1>2, <1>3, Invariant, PTL DEF Spec
=============================================================================
