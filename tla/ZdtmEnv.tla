------------------------------- MODULE ZdtmEnv ------------------------------
(***************************************************************************)
(* The life cycle of the library's environment and of the descriptors it   *)
(* holds: zdtm_initialize opens the log and listens, zdtm_initiate_sync    *)
(* connects to the Zaurus, asks it with a RAY to connect back and accepts  *)
(* the first connection of the listen queue, zdtm_terminate_sync closes    *)
(* the request connection after its handshake, zdtm_finalize stops         *)
(* listening and closes the log.  The program uses descriptors of its own. *)
(* What goes over the accepted connection is module ZdtmSession's; here a  *)
(* session succeeds or fails.                                              *)
(***************************************************************************)
EXTENDS Integers, Sequences, FiniteSets

CONSTANTS
    MaxFd,          \* descriptors a process may have open
    MaxInits,       \* bound on the calls of zdtm_initialize
    MaxAttempts,    \* bound on the calls of zdtm_initiate_sync
    Backlog,        \* connections the listen queue holds
    Failures,       \* what may fail
    Unasked         \* the Zaurus may connect, once, without a RAY

AnyFailure == {"fopen", "bind", "connect", "accept", "session", "fclose"}

ASSUME EnvAssumption ==
    /\ {MaxFd, MaxInits, MaxAttempts} \subseteq Nat
    /\ Backlog \in Nat \ {0}
    /\ Failures \subseteq AnyFailure
    /\ Unasked \in BOOLEAN

VARIABLES
    open,       \* what each descriptor is open for
    logfp, listenfd, reqfd, connfd,     \* the members of zdtm_lib_env
    phase,      \* where the program is
    inits,      \* calls of zdtm_initialize so far
    attempt,    \* calls of zdtm_initiate_sync so far
    told,       \* the attempts whose RAY the Zaurus has not followed yet
    queue,      \* the connections that wait for accept, by their attempt
    ended,      \* the connections the Zaurus has given up or said goodbye on
    causes,     \* accepts that failed and connections made unasked
    finalized   \* zdtm_finalize has returned 0 and nothing was called since

envVars  == <<logfp, listenfd, reqfd, connfd>>
progVars == <<phase, inits, attempt, finalized>>
netVars  == <<told, queue, ended, causes>>
vars     == <<open, logfp, listenfd, reqfd, connfd, phase, inits, attempt,
              told, queue, ended, causes, finalized>>

Fds     == 1..MaxFd
INVALID == 0                    \* INVALID_SOCKET, a NULL logfp
Attempts == 0..MaxAttempts      \* 0 is the Zaurus's own idea

\* A descriptor is free or open for a purpose, connections for an attempt.
For(what, a) == [what |-> what, attempt |-> a]
Free         == For("free", 0)
Uses == {Free} \cup {For(w, 0) : w \in {"log", "listen", "file"}}
               \cup {For(w, a) : w \in {"req", "conn"}, a \in Attempts}

Unused == {f \in Fds : open[f] = Free}

\* A new descriptor has the lowest number that is free.
Opened(f, use) ==
    /\ f \in Unused /\ \A g \in Unused : f <= g
    /\ open' = [open EXCEPT ![f] = use]

TypeOK ==
    /\ open \in [Fds -> Uses]
    /\ {logfp, listenfd, reqfd, connfd} \subseteq Fds \cup {INVALID}
    /\ phase \in {"down", "log", "ready", "dial", "ray", "accept", "session"}
    /\ phase \notin {"down", "log"} =>
          open[logfp] = For("log", 0) /\ open[listenfd] = For("listen", 0)
    /\ phase = "session" => connfd # INVALID /\ open[connfd].what = "conn"
    /\ phase \in {"ray", "accept", "session"} => open[reqfd] = For("req", attempt)
    /\ inits \in 0..MaxInits /\ attempt \in 0..MaxAttempts
    /\ told \subseteq Attempts /\ ended \subseteq Attempts
    /\ queue \in Seq(Attempts) /\ Len(queue) <= Backlog
    /\ causes \in Nat /\ finalized \in BOOLEAN

Init ==
    /\ open = [f \in Fds |-> Free]
    /\ logfp = INVALID /\ listenfd = INVALID /\ reqfd = INVALID /\ connfd = INVALID
    /\ phase = "down" /\ inits = 0 /\ attempt = 0 /\ finalized = FALSE
    /\ told = {} /\ queue = <<>> /\ ended = {} /\ causes = 0
-----------------------------------------------------------------------------
(***************************************************************************)
(* zdtm_initialize                                                         *)
(***************************************************************************)
MayFail(what) == what \in Failures

OpenLog ==
    /\ phase = "down" /\ inits < MaxInits
    /\ inits' = inits + 1 /\ finalized' = FALSE
    /\ \/ /\ \E f \in Fds : Opened(f, For("log", 0)) /\ logfp' = f
          /\ phase' = "log"
       \/ /\ Unused = {} \/ MayFail("fopen")
          /\ logfp' = INVALID /\ UNCHANGED <<open, phase>>
    /\ UNCHANGED <<listenfd, reqfd, connfd, attempt, netVars>>

\* Whatever fails once the log is open, socket, setsockopt, bind or listen,
\* leaves the log open and the environment without one that listens.
Listen ==
    /\ phase = "log"
    /\ \/ /\ \E f \in Fds : Opened(f, For("listen", 0)) /\ listenfd' = f
          /\ phase' = "ready" \/ (MayFail("bind") /\ phase' = "down")
       \/ /\ Unused = {}
          /\ listenfd' = INVALID /\ phase' = "down" /\ UNCHANGED open
    /\ UNCHANGED <<logfp, reqfd, connfd, inits, attempt, finalized, netVars>>

(***************************************************************************)
(* zdtm_initiate_sync: _zdtm_connect, then the session                     *)
(***************************************************************************)
Initiate ==
    /\ phase = "ready" /\ attempt < MaxAttempts
    /\ attempt' = attempt + 1 /\ phase' = "dial"
    /\ UNCHANGED <<open, envVars, inits, finalized, netVars>>

ConnToZaurus ==
    /\ phase = "dial"
    /\ \/ /\ \E f \in Fds : Opened(f, For("req", attempt)) /\ reqfd' = f
          /\ phase' = "ray"
       \/ /\ Unused = {}
          /\ reqfd' = INVALID /\ phase' = "ready" /\ UNCHANGED open
    /\ UNCHANGED <<logfp, listenfd, connfd, inits, attempt, finalized, netVars>>

\* inet_pton, connect, the RAY or its send may fail: reqfd stays open.
ConnectFails ==
    /\ phase = "ray" /\ MayFail("connect")
    /\ phase' = "ready"
    /\ UNCHANGED <<open, envVars, inits, attempt, finalized, netVars>>

\* Mutants: the RAY is not sent; a connection that is there is used again.
RaySentNowhere == told
RaySent        == told \cup {attempt}

SendRay ==
    /\ phase = "ray"
    /\ told' = RaySent
    /\ phase' = "accept"
    /\ UNCHANGED <<open, envVars, inits, attempt, finalized, queue, ended, causes>>

AcceptNext ==
    /\ queue # <<>> /\ queue' = Tail(queue)
    /\ \E f \in Fds : Opened(f, For("conn", Head(queue))) /\ connfd' = f
    /\ phase' = "session" /\ UNCHANGED causes

AcceptNextOrKeep ==
    IF connfd # INVALID THEN phase' = "session" /\ UNCHANGED <<connfd, open, queue, causes>>
                        ELSE AcceptNext

AcceptsAny == AcceptNext

\* Mutant: the failed accept goes unnoticed.
AcceptFailsUnnoticed ==
    /\ (queue # <<>> /\ Unused = {}) \/ MayFail("accept")
    /\ connfd' = INVALID
    /\ causes' = causes + 1
    /\ phase' = "session" /\ UNCHANGED <<open, queue>>

\* Without a descriptor, interrupted or aborted: the connection that waits,
\* or comes, stays in the queue.
AcceptFails ==
    /\ (queue # <<>> /\ Unused = {}) \/ MayFail("accept")
    /\ connfd' = INVALID
    /\ causes' = causes + 1
    /\ phase' = "ready" /\ UNCHANGED <<open, queue>>

HandleZaurusConn ==
    /\ phase = "accept"
    /\ AcceptsAny \/ AcceptFails
    /\ UNCHANGED <<logfp, listenfd, reqfd, inits, attempt, finalized, told, ended>>

\* The session's exchanges succeed or fail; both leave the two connections as
\* they are.
SessionReturns ==
    /\ phase = "session"
    /\ phase' = "ready"
    /\ UNCHANGED <<open, envVars, inits, attempt, finalized, netVars>>
-----------------------------------------------------------------------------
(***************************************************************************)
(* zdtm_terminate_sync and zdtm_finalize                                   *)
(***************************************************************************)
Alive == connfd # INVALID /\ open[connfd].attempt \notin ended

\* close on a number: EBADF unless something is open there, whatever it is.
Closed(f) == [open EXCEPT ![f] = Free]

Disconnect ==
    /\ reqfd # INVALID => open' = Closed(reqfd)
    /\ reqfd = INVALID => UNCHANGED open

\* Mutant: the request connection is closed on every return.
HandshakeFailsClosed ==
    /\ Disconnect
    /\ UNCHANGED ended

HandshakeFails ==
    /\ ~Alive \/ MayFail("session")
    /\ UNCHANGED <<open, ended>>

HandshakeDone ==
    /\ Alive
    /\ ended' = ended \cup {open[connfd].attempt}
    /\ Disconnect

Terminate ==
    /\ phase = "ready" /\ attempt > 0
    /\ HandshakeDone \/ HandshakeFails
    /\ UNCHANGED <<envVars, progVars, told, queue, causes>>

\* fclose releases the log whether it reports an error or not.
Finalize ==
    /\ phase = "ready"
    /\ open' = [open EXCEPT ![listenfd] = Free, ![logfp] = Free]
    /\ queue' = <<>> /\ ended' = ended \cup {queue[n] : n \in DOMAIN queue}
    /\ phase' = "down"
    /\ finalized' = TRUE \/ (MayFail("fclose") /\ finalized' = FALSE)
    /\ UNCHANGED <<envVars, inits, attempt, told, causes>>

(***************************************************************************)
(* The program's own files, and the Zaurus                                 *)
(***************************************************************************)
OpenFile ==
    /\ phase \in {"down", "ready"}
    /\ \A f \in Fds : open[f].what # "file"
    /\ \E f \in Fds : Opened(f, For("file", 0))
    /\ UNCHANGED <<envVars, progVars, netVars>>

CloseFile ==
    /\ phase \in {"down", "ready"}
    /\ \E f \in Fds : open[f].what = "file" /\ open' = Closed(f)
    /\ UNCHANGED <<envVars, progVars, netVars>>

Listening == phase \notin {"down", "log"}

\* The client the Zaurus starts connects back, or is refused.
DialBack ==
    /\ \E a \in told :
        /\ told' = told \ {a}
        /\ IF Listening THEN Len(queue) < Backlog /\ queue' = Append(queue, a) /\ UNCHANGED ended
                        ELSE ended' = ended \cup {a} /\ UNCHANGED queue
    /\ UNCHANGED <<open, envVars, progVars, causes>>

DialUnasked ==
    /\ Unasked /\ Listening /\ Len(queue) < Backlog
    /\ \A n \in DOMAIN queue : queue[n] # 0
    /\ 0 \notin ended /\ \A f \in Fds : open[f] # For("conn", 0)
    /\ queue' = Append(queue, 0) /\ causes' = causes + 1
    /\ UNCHANGED <<open, envVars, progVars, told, ended>>

ZaurusEnds ==
    /\ \E a \in Attempts \ ended :
        /\ (\E f \in Fds : open[f] = For("conn", a)) \/ (\E n \in DOMAIN queue : queue[n] = a)
        /\ ended' = ended \cup {a}
    /\ UNCHANGED <<open, envVars, progVars, told, queue, causes>>

Library == OpenLog \/ Listen \/ Initiate \/ ConnToZaurus \/ ConnectFails \/ SendRay
              \/ HandleZaurusConn \/ SessionReturns \/ Terminate \/ Finalize

Next == Library \/ OpenFile \/ CloseFile \/ DialBack \/ DialUnasked \/ ZaurusEnds

Spec == Init /\ [][Next]_vars

\* A call that can go on does, accept is woken by a connection, and the Zaurus
\* connects back when it is told; nothing else, and no failure, has to happen.
Fairness ==
    /\ WF_vars(ConnToZaurus) /\ WF_vars(SendRay)
    /\ WF_vars(queue # <<>> /\ HandleZaurusConn)
    /\ WF_vars(SessionReturns) /\ WF_vars(DialBack)

FairSpec == Spec /\ Fairness
-----------------------------------------------------------------------------
\* The connections that were asked for and that no accept waits for.
Left == (told \cup {queue[n] : n \in DOMAIN queue}) \ (IF phase = "accept" THEN {attempt} ELSE {})

(***************************************************************************)
(* A connection of an earlier attempt can wait in the listen queue and be  *)
(* taken for the present one's (zdtm_net.c:107), but only when an accept   *)
(* failed after its RAY was sent, or the Zaurus connected unasked: there   *)
(* are never more of them than such causes, and without a cause a session  *)
(* runs over the connection its own RAY asked for.                         *)
(***************************************************************************)
LeftoversHaveCauses ==
    /\ Cardinality(Left) <= causes
    /\ (phase = "session" /\ causes = 0) => open[connfd].attempt = attempt

(***************************************************************************)
(* Descriptor numbers are used again, and env keeps the numbers of closed  *)
(* ones: still the library never closes the program's file, and what it    *)
(* closes is its own log, its own listening socket, or the request         *)
(* connection of the latest attempt, never the one a session runs over     *)
(* (zdtm_net.c:87, 187, zdtm_log.c:114).                                  *)
(***************************************************************************)
ClosesItsOwn ==
    [][Library => \A f \in Fds :
          (open[f] # Free /\ open'[f] = Free) =>
              open[f] \in {For("log", 0), For("listen", 0), For("req", attempt)}]_vars

(***************************************************************************)
(* zdtm_initiate_sync comes back from _zdtm_connect: accept, which has no  *)
(* timeout, always has a connection to wait for that was asked for.        *)
(***************************************************************************)
ConnectReturns == (phase \in {"dial", "ray", "accept"}) ~> (phase \in {"session", "ready"})

(***************************************************************************)
(* Once a session was terminated, which closes the request connection, and *)
(* zdtm_finalize has returned 0, the connection from the Zaurus is closed  *)
(* as well ("so that all the loose ends are taken care of",                *)
(* zdtm_sync.h:276-277).                                                   *)
(***************************************************************************)
NoLooseEnds ==
    (finalized /\ \A f \in Fds : open[f].what # "req") => \A f \in Fds : open[f].what # "conn"
=============================================================================
