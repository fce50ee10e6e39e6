------------------------------ MODULE ZdtmHeap ------------------------------
(***************************************************************************)
(* Who owns the memory.  Every exchange allocates the raw content of what  *)
(* it sends and receives, a parser allocates what the reply's content      *)
(* points to, and the protocol function keeps some of it for the           *)
(* environment or for the program before _zdtm_clean_message ends the      *)
(* message.  Any malloc may fail; the parser or the function then frees    *)
(* what it has.  RQST and ACK hold nothing, but a reply that comes in      *)
(* place of one is stored and parsed all the same.  A block is named by    *)
(* the call that allocated it, the reply it was allocated for and its      *)
(* purpose.                                                                *)
(***************************************************************************)
EXTENDS Integers, Sequences, FiniteSets

CONSTANTS
    MaxCalls,       \* bound on the calls of the program
    OddReplies      \* the Zaurus may send a reply of another type, or one in
                    \* place of the RQST or the ACK around a request

ASSUME HeapAssumption == MaxCalls \in Nat /\ OddReplies \in BOOLEAN

\* zdtm_initiate_sync's device info, passcode and format, the id lists, an
\* item, and the exchanges whose messages hold no pointer, with the ACK of
\* initiate's RAY and the RQST after terminate's RQT among them.
Fns      == {"info", "auth", "format", "lists", "item", "other"}
Expected == [info |-> "AIG", auth |-> "AEX", format |-> "ADI",
             lists |-> "ASY", item |-> "ADR", other |-> "AEX"]
Replies  == {Expected[f] : f \in Fns}

\* What a parser allocates, in order, with two parameters where there are many.
Allocated == [AIG |-> <<"model">>,
              ADI |-> <<"params", "desc1", "desc2">>,
              ADR |-> <<"params", "data1", "data2">>,
              ASY |-> <<"new", "mod", "del">>,
              AEX |-> <<>>]

\* The copies of the id lists that the program gets.
Copies == <<"newcopy", "modcopy", "delcopy">>

\* malloc(0) gives a parameter without data a block of its own.
WithoutData == [data1 |-> "empty1", data2 |-> "empty2"]

Purposes == {"raw", "pw", "passcode", "empty1", "empty2"} \cup {Copies[n] : n \in DOMAIN Copies}
               \cup UNION {{Allocated[r][n] : n \in DOMAIN Allocated[r]} : r \in Replies}

VARIABLES
    live,       \* the blocks that are allocated
    bad,        \* a block that was not allocated has been freed
    calls,      \* the calls so far
    fn,         \* the protocol function at work
    phase,      \* where it is
    raw,        \* p_raw_content of the message in hand, {} for NULL
    pw,         \* cont.rrl.pw, {} for NULL
    due,        \* the message in hand came where a reply is due
    reply,      \* the type of the reply
    parsed,     \* what its parser has allocated so far
    empty,      \* the parameters of an ADR whose param_len is 0
    copied,     \* the copies of the lists made so far
    params,     \* cur_env->params and the descriptions in it
    passcode,   \* cur_env->passcode, {} for NULL
    lastSet,    \* the call that set it last
    given,      \* the lists the program holds
    unused      \* the calls that gave up a reply they had parsed, because its
                \* ACK could not be sent or because it came in place of RQST or ACK

heapVars == <<live, bad>>
msgVars  == <<raw, pw, due, reply, parsed, empty, copied>>
envVars  == <<params, passcode, lastSet, unused>>
vars == <<live, bad, calls, fn, phase, raw, pw, due, reply, parsed, empty, copied,
          params, passcode, lastSet, given, unused>>

Block(what, r) == [call |-> calls, fn |-> fn, reply |-> r, what |-> what]
Blocks == [call : 0..MaxCalls, fn : Fns \cup {"passcode"}, reply : Replies \cup {"none"}, what : Purposes]

ParserBlock(n) ==
    LET w == Allocated[reply][n] IN Block(IF w \in empty THEN WithoutData[w] ELSE w, reply)

TypeOK ==
    /\ live \subseteq Blocks /\ bad \in BOOLEAN
    /\ calls \in 0..MaxCalls /\ fn \in Fns
    /\ phase \in {"idle", "send", "sent", "recv", "parse", "copy", "final", "failed"}
    /\ {raw, pw, parsed, copied, params, passcode, given} \subseteq SUBSET Blocks
    /\ due \in BOOLEAN /\ reply \in Replies /\ empty \subseteq Purposes
    /\ lastSet \in 0..MaxCalls /\ unused \subseteq 1..MaxCalls
    /\ (raw # {} \/ parsed # {}) => phase \in {"parse", "copy"}
    /\ pw # {} => fn = "auth" /\ (phase \in {"send", "sent"} \/ (phase = "parse" /\ ~due))
    /\ Len(Allocated[reply]) >= Cardinality(parsed)

Init ==
    /\ live = {} /\ bad = FALSE /\ calls = 0 /\ fn = "other" /\ phase = "idle"
    /\ raw = {} /\ pw = {} /\ due = TRUE /\ reply = "AEX" /\ parsed = {} /\ empty = {} /\ copied = {}
    /\ params = {} /\ passcode = {} /\ lastSet = 0 /\ given = {}
    /\ unused = {}

Malloc(b)  == live' = live \cup {b} /\ UNCHANGED bad

\* free of each block of a set; of a NULL, it does nothing.
Free(bs)   == live' = live \ bs /\ bad' = (bad \/ ~(bs \subseteq live))

Back == /\ phase' = "idle" /\ raw' = {} /\ pw' = {} /\ due' = TRUE
        /\ parsed' = {} /\ empty' = {} /\ copied' = {}
        /\ UNCHANGED <<calls, fn, reply>>
-----------------------------------------------------------------------------
(***************************************************************************)
(* A call begins; _zdtm_authenticate_passcode copies the passcode into the *)
(* RRL first, _zdtm_obtain_param_format gives up when there is a format.   *)
(***************************************************************************)
Begin(f) ==
    /\ phase = "idle" /\ calls < MaxCalls
    /\ f = "format" => params = {}
    /\ f = "auth" => passcode # {}
    /\ calls' = calls + 1 /\ fn' = f
    /\ \/ /\ f = "auth"
          /\ pw' = {[call |-> calls', fn |-> f, reply |-> "none", what |-> "pw"]}
          /\ live' = live \cup pw' /\ phase' = "send"
       \/ f = "auth" /\ phase' = "idle" /\ UNCHANGED <<live, pw>>
       \/ f # "auth" /\ phase' = "send" /\ UNCHANGED <<live, pw>>
    /\ UNCHANGED <<bad, raw, due, reply, parsed, empty, copied, envVars, given>>

\* The RQST does not come: the message is not prepared, what hangs on it is
\* freed by the function, or, in the mutant, by nobody.
NotAskedReturns ==
    /\ phase = "send"
    /\ phase' = "idle"
    /\ UNCHANGED <<heapVars, calls, fn, msgVars, envVars, given>>

NotAsked ==
    /\ phase = "send"
    /\ Free(pw) /\ Back
    /\ UNCHANGED <<envVars, given>>

\* Mutant: the pointer is left behind.
CleanedPwKept == pw
CleanedPw     == {}

\* _zdtm_send_message_to cleans the message on every path: when the content,
\* or the buffer for the wire, cannot be allocated, when send fails, and at
\* the end; it holds nothing else between its calls.
Sent ==
    /\ phase = "send"
    /\ Free(pw) /\ pw' = CleanedPw
    /\ phase' = "sent"
    /\ UNCHANGED <<calls, fn, raw, due, reply, parsed, empty, copied, envVars, given>>

\* Whatever became of it, the passcode's copy is freed once more.
AfterSend ==
    /\ phase = "sent"
    /\ Free(pw)
    /\ \/ /\ phase' = "recv" /\ pw' = {}
          /\ UNCHANGED <<calls, fn, raw, due, reply, parsed, empty, copied>>
       \/ Back
    /\ UNCHANGED <<envVars, given>>

(***************************************************************************)
(* _zdtm_recv_message: nothing is left of a message whose body does not    *)
(* arrive or whose content cannot be stored.                               *)
(***************************************************************************)
RecvFails ==
    /\ phase = "recv"
    /\ Back
    /\ UNCHANGED <<heapVars, envVars, given>>

Store(r) ==
    /\ reply' = r
    /\ raw' = {Block("raw", r)} /\ Malloc(Block("raw", r))
    /\ empty' \in SUBSET (IF r = "ADR" THEN {"data1", "data2"} ELSE {})
    /\ phase' = "parse"
    /\ UNCHANGED <<calls, fn, pw, parsed, copied, envVars, given>>

Recv ==
    /\ phase = "recv" /\ due' = TRUE
    /\ \E r \in IF OddReplies THEN Replies ELSE {Expected[fn]} : Store(r)

\* A reply comes in place of the RQST before the request or of the ACK after it.
RecvMisplaced ==
    /\ OddReplies /\ phase \in {"send", "sent"} /\ due' = FALSE
    /\ \E r \in Replies : Store(r)

Parsing == phase = "parse" /\ Cardinality(parsed) < Len(Allocated[reply])

ParseNext ==
    /\ Parsing
    /\ LET b == ParserBlock(Cardinality(parsed) + 1)
       IN  parsed' = parsed \cup {b} /\ Malloc(b)
    /\ UNCHANGED <<calls, fn, phase, raw, pw, due, reply, empty, copied, envVars, given>>

\* _zdtm_clean_message.  The mutant frees what the parser allocated as well.
CleanedAll == raw \cup parsed
Cleaned    == raw

\* A parser frees what it has; _zdtm_obtain_device_info alone does not clean
\* a reply that could not be parsed.  What hangs on the request goes as in
\* NotAsked.
ParseFails ==
    /\ Parsing
    /\ Free(parsed \cup pw \cup IF fn = "info" /\ due THEN {} ELSE raw)
    /\ Back
    /\ UNCHANGED <<envVars, given>>

\* The message is complete and its ACK cannot be sent: the function takes it
\* for one that was not received.
AckFails ==
    /\ phase = "parse" /\ ~Parsing /\ due
    /\ Free(IF fn = "info" THEN {} ELSE raw)
    /\ unused' = unused \cup {calls}
    /\ Back
    /\ UNCHANGED <<params, passcode, lastSet, given>>

\* Neither a RQST nor an ACK: _zdtm_wrapped_send_message cleans the message and
\* gives up, and its caller frees what hangs on the request.
NotAwaited ==
    /\ phase = "parse" /\ ~Parsing /\ ~due
    /\ Free(Cleaned \cup pw)
    /\ unused' = unused \cup {calls}
    /\ Back
    /\ UNCHANGED <<params, passcode, lastSet, given>>

Parsed == phase = "parse" /\ Cardinality(parsed) = Len(Allocated[reply]) /\ due
-----------------------------------------------------------------------------
(***************************************************************************)
(* The function that receives the reply keeps what it is for.              *)
(***************************************************************************)
WrongType ==
    /\ Parsed /\ reply # Expected[fn]
    /\ Free(Cleaned) /\ Back
    /\ UNCHANGED <<envVars, given>>

\* The model name is copied into the environment.
TakeNothing ==
    /\ Parsed /\ reply = Expected[fn] /\ fn \in {"info", "auth", "other"}
    /\ Free(Cleaned) /\ Back
    /\ UNCHANGED <<envVars, given>>

TakeFormat ==
    /\ Parsed /\ reply = Expected[fn] /\ fn = "format"
    /\ params' = parsed
    /\ Free(Cleaned) /\ Back
    /\ UNCHANGED <<passcode, lastSet, unused, given>>

\* _zdtm_free_params, once the item is built or could not be: a parameter
\* without data keeps its block.  The mutant frees the array alone.
FreedParamsArray == {b \in parsed : b.what = "params"}
FreedParams      == {b \in parsed : b.what \notin {"empty1", "empty2"}}

TakeItem ==
    /\ Parsed /\ reply = Expected[fn] /\ fn = "item"
    /\ Free(Cleaned \cup FreedParams) /\ Back
    /\ UNCHANGED <<envVars, given>>

\* zdtm_obtain_sync_id_lists copies the three lists.
CopyLists ==
    /\ Parsed /\ reply = Expected[fn] /\ fn = "lists"
    /\ phase' = "copy"
    /\ UNCHANGED <<heapVars, calls, fn, msgVars, envVars, given>>

CopyNext ==
    /\ phase = "copy" /\ Cardinality(copied) < Len(Copies)
    /\ LET b == Block(Copies[Cardinality(copied) + 1], "none")
       IN  copied' = copied \cup {b} /\ Malloc(b)
    /\ UNCHANGED <<calls, fn, phase, raw, pw, due, reply, parsed, empty, envVars, given>>

CopyFails ==
    /\ phase = "copy" /\ Cardinality(copied) < Len(Copies)
    /\ Free(copied \cup Cleaned) /\ Back
    /\ UNCHANGED <<envVars, given>>

GiveLists ==
    /\ phase = "copy" /\ Cardinality(copied) = Len(Copies)
    /\ given' = given \cup copied
    /\ Free(Cleaned) /\ Back
    /\ UNCHANGED envVars

(***************************************************************************)
(* The program frees its lists, sets a passcode and finalizes.  When the   *)
(* socket or the log cannot be closed, zdtm_finalize returns before it has *)
(* freed anything.  Nothing frees it later: called again, it fails on the  *)
(* socket that is closed already, and zdtm_initialize overwrites the       *)
(* pointers.                                                               *)
(***************************************************************************)
FreeLists ==
    /\ phase = "idle" /\ given # {}
    /\ Free(given) /\ given' = {}
    /\ UNCHANGED <<calls, fn, phase, msgVars, envVars>>

SetPasscode ==
    /\ phase = "idle" /\ calls < MaxCalls
    /\ calls' = calls + 1 /\ lastSet' = calls'
    /\ \/ /\ passcode' = {[call |-> calls', fn |-> "passcode", reply |-> "none", what |-> "passcode"]}
          /\ live' = live \cup passcode'
       \/ passcode' = {} /\ UNCHANGED live
    /\ UNCHANGED <<bad, fn, phase, msgVars, params, unused, given>>

Finalize ==
    /\ phase = "idle"
    /\ Free(params \cup passcode)
    /\ params' = {} /\ passcode' = {}       \* nothing reads them any more
    /\ phase' = "final"
    /\ UNCHANGED <<calls, fn, msgVars, lastSet, unused, given>>

FinalizeFails ==
    /\ phase = "idle"
    /\ params' = {} /\ passcode' = {}
    /\ phase' = "failed"
    /\ UNCHANGED <<heapVars, calls, fn, msgVars, lastSet, unused, given>>

Next ==
    \/ \E f \in Fns : Begin(f)
    \/ NotAsked \/ Sent \/ AfterSend \/ RecvFails \/ Recv \/ RecvMisplaced
    \/ ParseNext \/ ParseFails \/ AckFails \/ NotAwaited
    \/ WrongType \/ TakeNothing \/ TakeFormat \/ TakeItem
    \/ CopyLists \/ CopyNext \/ CopyFails \/ GiveLists
    \/ FreeLists \/ SetPasscode \/ Finalize \/ FinalizeFails

Spec == Init /\ [][Next]_vars
-----------------------------------------------------------------------------
(***************************************************************************)
(* Nothing is freed twice, though the copy of the passcode is freed by     *)
(* _zdtm_clean_message and again by the function that made it              *)
(* (zdtm_proto.c:209-214), and a failed parser leaves its pointers behind. *)
(***************************************************************************)
NoDoubleFree == ~bad

(***************************************************************************)
(* What the environment keeps beyond the message it came in, and what the  *)
(* program was given, stays allocated (zdtm_proto.c:453-456,               *)
(* zdtm_sync.c:354-363).                                                   *)
(***************************************************************************)
NothingDangles == params \cup passcode \cup given \subseteq live

\* What nobody can free any more once a call has returned.
Lost == live \ (params \cup passcode \cup given)

(***************************************************************************)
(* The memory that is lost, though any allocation may fail: a model name,  *)
(* the lists of an ASY, what hangs on a reply of the wrong type, on one    *)
(* whose ACK failed or on one that came in place of RQST or ACK, the       *)
(* content of a device info that failed, a passcode that was replaced, a   *)
(* parameter without data, and the format and the passcode of an           *)
(* environment whose zdtm_finalize failed (zdtm_sync.c:518-522).  Nothing  *)
(* else ever is: not an item's parameters, not the copies of the lists,    *)
(* not the passcode's copy, not the content of any other message, and of   *)
(* an environment that was finalized neither format nor passcode.          *)
(***************************************************************************)
LossesKnown ==
    phase \in {"idle", "final", "failed"} => \A b \in Lost :
        \/ b.what \in {"model", "new", "mod", "del"}
        \/ b.what # "raw" /\ b.reply \in Replies /\ b.reply # Expected[b.fn]
        \/ b.what # "raw" /\ b.reply \in Replies /\ b.call \in unused
        \/ b.what = "raw" /\ b.fn = "info"
        \/ b.what = "passcode" /\ b.call < lastSet
        \/ b.what \in {"empty1", "empty2"}
        \/ phase = "failed" /\ b.what = "passcode"
        \/ phase = "failed" /\ b.fn = "format" /\ b.reply = "ADI" /\ b.what # "raw"

(***************************************************************************)
(* Cleaning a message frees "any members of the message that have been     *)
(* dynamically allocated" (zdtm_msgs.h:185-187): once a call has returned, *)
(* nothing is left of what its parser allocated but what was kept.         *)
(***************************************************************************)
RepliesFreed ==
    phase = "idle" => \A b \in Lost : b.reply \in Replies => b.what = "raw"
=============================================================================
