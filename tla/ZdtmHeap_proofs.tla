--------------------------- MODULE ZdtmHeap_proofs --------------------------
(***************************************************************************)
(* The library frees what is allocated, keeps what it uses and loses what  *)
(* LossesKnown names, for any number of calls and whichever allocations    *)
(* fail.                                                                   *)
(***************************************************************************)
EXTENDS ZdtmHeap, FiniteSetTheorems, TLAPS

-----------------------------------------------------------------------------
(***************************************************************************)
(* The inductive invariant.                                                *)
(***************************************************************************)
InCall == phase \notin {"idle", "final", "failed"}

CopyWhats == {"newcopy", "modcopy", "delcopy"}

\* The purposes of what the parser of a reply allocates.
ParserWhats ==
    [AIG |-> {"model"}, ADI |-> {"params", "desc1", "desc2"},
     ADR |-> {"params", "data1", "data2", "empty1", "empty2"},
     ASY |-> {"new", "mod", "del"}, AEX |-> {}]

\* The blocks that a call is working with, and those that outlive calls.
Held == pw \cup raw \cup parsed \cup copied
Kept == params \cup passcode \cup given

\* What a call works with was allocated by that call, each for its purpose.
HeldShape ==
    /\ \A b \in Held : b.call = calls
    /\ \A b \in pw : b.what = "pw"
    /\ \A b \in raw : b.what = "raw" /\ b.fn = fn
    /\ \A b \in parsed : b.fn = fn /\ b.reply = reply /\ b.what \in ParserWhats[reply]
    /\ \A b \in copied : b.what \in CopyWhats

\* What outlives calls was allocated by an earlier one.
KeptShape ==
    /\ \A b \in Kept : b.call <= calls /\ (InCall => b.call < calls)
    /\ \A b \in params : b.what \in ParserWhats["ADI"] /\ b.fn = "format" /\ b.reply = "ADI"
    /\ \A b \in passcode : b.what = "passcode"
    /\ \A b \in given : b.what \in CopyWhats

\* What is held at each place.
Places ==
    /\ phase \in {"idle", "sent", "recv", "final", "failed"} => Held = {}
    /\ phase = "send" => raw = {} /\ parsed = {} /\ copied = {}
    /\ phase = "parse" => copied = {} /\ (due => pw = {})
    /\ phase = "copy" => pw = {} /\ fn = "lists" /\ reply = "ASY"
    /\ InCall => calls # 0
    /\ lastSet <= calls
    /\ empty # {} => reply = "ADR" /\ empty \subseteq {"data1", "data2"}
    /\ InCall /\ fn = "format" => params = {}
    /\ IsFiniteSet(parsed) /\ IsFiniteSet(copied)

\* Why a block that nobody holds any more is still allocated.
Excused(b) ==
    \/ b.what \in {"model", "new", "mod", "del"}
    \/ b.what # "raw" /\ b.reply \in Replies /\ b.reply # Expected[b.fn]
    \/ b.what # "raw" /\ b.reply \in Replies /\ b.call \in unused
    \/ b.what = "raw" /\ b.fn = "info"
    \/ b.what = "passcode" /\ b.call < lastSet
    \/ b.what \in {"empty1", "empty2"}
    \/ phase = "failed" /\ b.what = "passcode"
    \/ phase = "failed" /\ b.fn = "format" /\ b.reply = "ADI" /\ b.what # "raw"

Accounted ==
    /\ Held \cup Kept \subseteq live
    /\ \A b \in live \ (Held \cup Kept) : Excused(b)

IInv == TypeOK /\ HeldShape /\ KeptShape /\ Places /\ Accounted /\ NoDoubleFree
-----------------------------------------------------------------------------
(***************************************************************************)
(* The operators.                                                          *)
(***************************************************************************)
LEMMA Bounds == MaxCalls \in Nat
BY HeapAssumption

LEMMA RepliesAre == Replies = {"AIG", "AEX", "ADI", "ASY", "ADR"}
BY DEF Replies, Fns, Expected

\* A parser allocates at most three blocks, each for a purpose of its reply.
LEMMA AllocatedFacts ==
    ASSUME NEW r \in Replies
    PROVE  /\ Len(Allocated[r]) \in Nat
           /\ DOMAIN Allocated[r] = 1..Len(Allocated[r])
           /\ \A n \in 1..Len(Allocated[r]) : Allocated[r][n] \in ParserWhats[r] \cap Purposes
<1>1. /\ Len(Allocated[r]) \in Nat
      /\ DOMAIN Allocated[r] = 1..Len(Allocated[r])
      /\ \A n \in 1..Len(Allocated[r]) : Allocated[r][n] \in ParserWhats[r]
  <2>1. CASE r = "AIG"
    <3>1. Allocated[r] = <<"model">> /\ ParserWhats[r] = {"model"}
      BY <2>1 DEF Allocated, ParserWhats
    <3> QED
      BY <3>1
  <2>2. CASE r = "ADI"
    <3>1. /\ Allocated[r] = <<"params", "desc1", "desc2">>
          /\ ParserWhats[r] = {"params", "desc1", "desc2"}
      BY <2>2 DEF Allocated, ParserWhats
    <3> QED
      BY <3>1
  <2>3. CASE r = "ADR"
    <3>1. /\ Allocated[r] = <<"params", "data1", "data2">>
          /\ {"params", "data1", "data2"} \subseteq ParserWhats[r]
      BY <2>3 DEF Allocated, ParserWhats
    <3> QED
      BY <3>1
  <2>4. CASE r = "ASY"
    <3>1. Allocated[r] = <<"new", "mod", "del">> /\ ParserWhats[r] = {"new", "mod", "del"}
      BY <2>4 DEF Allocated, ParserWhats
    <3> QED
      BY <3>1
  <2>5. CASE r = "AEX"
    <3>1. Allocated[r] = <<>>
      BY <2>5 DEF Allocated
    <3> QED
      BY <3>1
  <2> QED
    BY <2>1, <2>2, <2>3, <2>4, <2>5, RepliesAre
<1>2. \A n \in 1..Len(Allocated[r]) : Allocated[r][n] \in Purposes
  BY <1>1 DEF Purposes
<1> QED
  BY <1>1, <1>2

LEMMA CopiesFacts ==
    /\ Len(Copies) = 3
    /\ \A n \in 1..3 : Copies[n] \in CopyWhats \cap Purposes
<1>1. Len(Copies) = 3 /\ DOMAIN Copies = 1..3
  BY DEF Copies
<1>2. \A n \in 1..3 : Copies[n] \in CopyWhats
  BY DEF Copies, CopyWhats
<1> QED
  BY <1>1, <1>2 DEF Purposes

\* The purposes of parsers, of the copies and of the rest differ.
LEMMA WhatsDiffer ==
    ASSUME NEW r \in Replies, NEW w \in ParserWhats[r]
    PROVE  w \notin CopyWhats \cup {"raw", "pw", "passcode"}
BY RepliesAre DEF ParserWhats, CopyWhats

\* A block of the present call.
LEMMA BlockFacts ==
    ASSUME TypeOK, NEW w \in Purposes, NEW r \in Replies \cup {"none"}
    PROVE  /\ Block(w, r) \in Blocks
           /\ Block(w, r).call = calls /\ Block(w, r).fn = fn
           /\ Block(w, r).reply = r /\ Block(w, r).what = w
BY DEF TypeOK, Block, Blocks

LEMMA BlocksAre ==
    ASSUME NEW b \in Blocks
    PROVE  /\ b.call \in 0..MaxCalls /\ b.fn \in Fns \cup {"passcode"}
           /\ b.reply \in Replies \cup {"none"} /\ b.what \in Purposes
BY DEF Blocks

\* Freeing blocks that are allocated takes them away and does no harm.
LEMMA FreeFacts ==
    ASSUME NoDoubleFree, bad \in BOOLEAN, NEW bs \in SUBSET live, Free(bs)
    PROVE  live' = live \ bs /\ NoDoubleFree' /\ bad' \in BOOLEAN
<1>1. live' = live \ bs /\ bad' = (bad \/ ~(bs \subseteq live))
  BY DEF Free
<1>2. bs \subseteq live /\ ~bad
  BY DEF NoDoubleFree
<1>3. bad' = FALSE
  BY <1>1, <1>2
<1> QED
  BY <1>1, <1>3 DEF NoDoubleFree

\* What a call holds is not what outlives calls.
LEMMA HeldNotKept == ASSUME IInv, InCall PROVE Held \cap Kept = {}
<1>1. \A b \in Held : b.call = calls
  BY DEF IInv, HeldShape
<1>2. \A b \in Kept : b \in Blocks /\ b.call < calls
  BY DEF IInv, TypeOK, KeptShape, Kept
<1>3. calls \in Nat /\ ~(calls < calls)
  BY Bounds DEF IInv, TypeOK
<1> QED
  BY <1>1, <1>2, <1>3

\* The three things kept do not overlap.
LEMMA KeptApart ==
    ASSUME IInv
    PROVE  params \cap given = {} /\ passcode \cap given = {}
<1>1. "ADI" \in Replies
  BY RepliesAre
<1> QED
  BY <1>1, WhatsDiffer DEF IInv, KeptShape, CopyWhats

LEMMA InitInv == Init => IInv
<1> SUFFICES ASSUME Init PROVE IInv
  OBVIOUS
<1>1. Held = {} /\ Kept = {}
  BY DEF Init, Held, Kept
<1>2. TypeOK
  <2>1. "AEX" \in Replies /\ Len(Allocated["AEX"]) \in Nat
    BY RepliesAre, AllocatedFacts
  <2>2. Cardinality(parsed) = 0
    BY FS_EmptySet DEF Init
  <2>3. Len(Allocated[reply]) >= Cardinality(parsed)
    BY <2>1, <2>2 DEF Init
  <2>4. 0 \in 0..MaxCalls /\ "other" \in Fns
    BY Bounds DEF Fns
  <2> QED
    BY <2>1, <2>3, <2>4 DEF Init, TypeOK
<1>3. HeldShape /\ KeptShape
  BY <1>1 DEF Init, HeldShape, KeptShape, Held, Kept
<1>4. Places
  BY <1>1, FS_EmptySet DEF Init, Places, InCall
<1>5. Accounted /\ NoDoubleFree
  BY <1>1 DEF Init, Accounted, NoDoubleFree
<1> QED
  BY <1>2, <1>3, <1>4, <1>5 DEF IInv

-----------------------------------------------------------------------------
(***************************************************************************)
(* A step that ends a call: blocks it holds are freed, kept, or left to    *)
(* nobody for a reason.                                                    *)
(***************************************************************************)
KeptWhats ==
    /\ \A b \in params : b.what \in ParserWhats["ADI"] /\ b.fn = "format" /\ b.reply = "ADI"
    /\ \A b \in passcode : b.what = "passcode"
    /\ \A b \in given : b.what \in CopyWhats

LEMMA EndInv ==
    ASSUME IInv, InCall, Back, NEW bs \in SUBSET Held, Free(bs),
           Kept \subseteq Kept', Kept' \subseteq Kept \cup (Held \ bs), KeptWhats',
           lastSet' = lastSet, unused \subseteq unused', unused' \subseteq 1..MaxCalls,
           \A b \in Held : b \in bs \cup Kept' \/ Excused(b)'
    PROVE  IInv'
<1>1. live' = live \ bs /\ NoDoubleFree' /\ bad' \in BOOLEAN
  BY FreeFacts DEF IInv, TypeOK, Accounted
<1>2. phase' = "idle" /\ Held' = {} /\ ~InCall' /\ UNCHANGED <<calls, fn, reply>>
  BY DEF Back, Held, InCall
<1>3. /\ Held \cap Kept = {} /\ Held \cup Kept \subseteq live
      /\ \A b \in Held \cup Kept : b \in Blocks
  BY HeldNotKept DEF IInv, Accounted, TypeOK
<1>4. TypeOK'
  <2>1. /\ calls \in 0..MaxCalls /\ fn \in Fns /\ reply \in Replies /\ lastSet \in 0..MaxCalls
        /\ live \subseteq Blocks
    BY DEF IInv, TypeOK
  <2>2. Kept' \subseteq Blocks /\ live' \subseteq Blocks
    BY <1>1, <1>3, <2>1
  <2>3. {params', passcode', given'} \subseteq SUBSET Blocks
    BY <2>2 DEF Kept
  <2>4. /\ raw' = {} /\ pw' = {} /\ parsed' = {} /\ empty' = {} /\ copied' = {}
        /\ phase' = "idle" /\ due' \in BOOLEAN
    BY DEF Back
  <2>5. Len(Allocated[reply'])  >= Cardinality(parsed')
    BY <1>2, <2>1, <2>4, AllocatedFacts, FS_EmptySet
  <2> QED
    BY <1>1, <1>2, <2>1, <2>2, <2>3, <2>4, <2>5 DEF TypeOK
<1>5. HeldShape'
  BY <1>2 DEF HeldShape, Held
<1>6. KeptShape'
  <2>1. \A b \in Kept \cup Held : b.call <= calls
    <3>1. calls \in Nat /\ calls <= calls
      BY Bounds DEF IInv, TypeOK
    <3>2. \A b \in Held : b.call = calls
      BY DEF IInv, HeldShape
    <3> QED
      BY <3>1, <3>2 DEF IInv, KeptShape
  <2> QED
    BY <2>1, <1>2 DEF KeptShape, KeptWhats
<1>7. Places'
  <2>1. lastSet' <= calls'
    BY <1>2 DEF IInv, Places
  <2> QED
    BY <1>2, <2>1, FS_EmptySet DEF Places, Back, InCall
<1>8. Accounted'
  <2>1. Held' \cup Kept' \subseteq live'
    BY <1>1, <1>2, <1>3
  <2>2. ASSUME NEW b \in live' \ (Held' \cup Kept') PROVE Excused(b)'
    <3>1. CASE b \in Held
      BY <1>1, <1>2, <2>2, <3>1
    <3>2. CASE b \notin Held
      <4>1. Excused(b)
        BY <1>1, <2>2, <3>2 DEF IInv, Accounted
      <4> QED
        BY <4>1 DEF Excused, InCall
    <3> QED
      BY <3>1, <3>2
  <2> QED
    BY <2>1, <2>2 DEF Accounted
<1> QED
  BY <1>1, <1>4, <1>5, <1>6, <1>7, <1>8 DEF IInv

\* What a step that ends a call leaves of Kept, when it keeps nothing new.
LEMMA KeptSame ==
    ASSUME IInv, UNCHANGED <<params, passcode, given, lastSet>>
    PROVE  /\ Kept' = Kept /\ KeptWhats' /\ lastSet' = lastSet
           /\ unused \subseteq 1..MaxCalls
BY DEF IInv, TypeOK, KeptShape, KeptWhats, Kept

LEMMA NotAskedInv == ASSUME IInv, NotAsked PROVE IInv'
<1>1. InCall /\ Back /\ Free(pw) /\ Held = pw
  BY DEF NotAsked, InCall, IInv, Places, Held
<1>2. UNCHANGED <<params, passcode, given, lastSet, unused>>
  BY DEF NotAsked, envVars
<1>3. pw \in SUBSET Held /\ \A b \in Held : b \in pw
  BY <1>1
<1> QED
  BY <1>1, <1>2, <1>3, KeptSame, EndInv

LEMMA AfterSendInv == ASSUME IInv, AfterSend PROVE IInv'
<1>1. InCall /\ Free({}) /\ Held = {} /\ pw = {} /\ raw = {} /\ parsed = {} /\ copied = {}
  BY DEF AfterSend, InCall, IInv, Places, Held
<1>2. UNCHANGED <<params, passcode, given, lastSet, unused>>
  BY DEF AfterSend, envVars
<1>3. CASE Back
  BY <1>1, <1>2, <1>3, KeptSame, EndInv
<1>4. CASE /\ phase' = "recv" /\ pw' = {}
           /\ UNCHANGED <<calls, fn, raw, due, reply, parsed, empty, copied>>
  <2>1. live' = live /\ NoDoubleFree' /\ bad' \in BOOLEAN
    BY <1>1, FreeFacts DEF IInv, TypeOK
  <2>2. Held' = {} /\ Kept' = Kept
    BY <1>1, <1>2, <1>4 DEF Held, Kept
  <2>3. TypeOK'
    BY <1>1, <1>2, <1>4, <2>1 DEF IInv, TypeOK
  <2>4. HeldShape' /\ KeptShape'
    BY <1>1, <1>2, <1>4, <2>2 DEF IInv, HeldShape, KeptShape, InCall
  <2>5. Places'
    BY <1>1, <1>2, <1>4, <2>2 DEF IInv, Places, InCall
  <2>6. Accounted'
    BY <1>1, <1>2, <2>1, <2>2 DEF IInv, Accounted, Excused, InCall
  <2> QED
    BY <2>1, <2>3, <2>4, <2>5, <2>6 DEF IInv
<1> QED
  BY <1>3, <1>4 DEF AfterSend

LEMMA RecvFailsInv == ASSUME IInv, RecvFails PROVE IInv'
<1>1. InCall /\ Back /\ Held = {}
  BY DEF RecvFails, InCall, IInv, Places
<1>2. UNCHANGED <<live, bad, params, passcode, given, lastSet, unused>>
  BY DEF RecvFails, envVars, heapVars
<1>3. Free({})
  <2>1. bad \in BOOLEAN /\ ~bad
    BY DEF IInv, TypeOK, NoDoubleFree
  <2> QED
    BY <1>2, <2>1 DEF Free
<1> QED
  BY <1>1, <1>2, <1>3, KeptSame, EndInv

\* Between the receive and the end of a call: what it holds, and what may be
\* left to nobody.
LEMMA ReplyFacts ==
    ASSUME IInv, phase = "parse"
    PROVE  /\ InCall /\ Held = raw \cup parsed \cup pw /\ (due => Held = raw \cup parsed)
           /\ \A b \in raw : b.what = "raw" /\ b.fn = fn
           /\ \A b \in parsed :
                 /\ b.call = calls /\ b.fn = fn /\ b.reply = reply
                 /\ b.what \in ParserWhats[reply] /\ b.what # "raw"
           /\ raw \cap parsed = {}
           /\ reply \in Replies
<1>1. /\ InCall /\ Held = raw \cup parsed \cup pw /\ reply \in Replies
      /\ due => Held = raw \cup parsed
  BY DEF IInv, Places, Held, InCall, TypeOK
<1>2. /\ \A b \in raw : b.what = "raw" /\ b.fn = fn
      /\ \A b \in parsed : b.call = calls /\ b.fn = fn /\ b.reply = reply
                              /\ b.what \in ParserWhats[reply]
  BY <1>1 DEF IInv, HeldShape
<1>3. \A b \in parsed : b.what # "raw"
  BY <1>1, <1>2, WhatsDiffer
<1> QED
  BY <1>1, <1>2, <1>3

LEMMA ParseFailsInv == ASSUME IInv, ParseFails PROVE IInv'
<1>1. phase = "parse" /\ Back
  BY DEF ParseFails, Parsing
<1>2. UNCHANGED <<params, passcode, given, lastSet, unused>>
  BY DEF ParseFails, envVars
<1>3. PICK bs \in {parsed \cup pw, parsed \cup pw \cup raw} :
        Free(bs) /\ (fn # "info" => bs = parsed \cup pw \cup raw)
  BY DEF ParseFails
<1>4. bs \in SUBSET Held
  BY <1>1, ReplyFacts
<1>5. \A b \in Held : b \in bs \/ (b.what = "raw" /\ b.fn = "info")
  BY <1>1, <1>3, ReplyFacts
<1>6. \A b \in Held : b \in bs \/ Excused(b)'
  BY <1>5 DEF Excused
<1> QED
  BY <1>1, <1>2, <1>3, <1>4, <1>6, KeptSame, EndInv, ReplyFacts

LEMMA AckFailsInv == ASSUME IInv, AckFails PROVE IInv'
<1>1. phase = "parse" /\ due /\ Back /\ unused' = unused \cup {calls}
  BY DEF AckFails
<1>2. UNCHANGED <<params, passcode, given, lastSet>>
  BY DEF AckFails
<1>3. PICK bs \in {{}, raw} : Free(bs) /\ (fn # "info" => bs = raw)
  BY DEF AckFails
<1>4. bs \in SUBSET Held
  BY <1>1, ReplyFacts
<1>5. \A b \in Held : b \in bs \/ (b.what = "raw" /\ b.fn = "info")
                              \/ (b.what # "raw" /\ b.reply \in Replies /\ b.call = calls)
  BY <1>1, <1>3, ReplyFacts
<1>6. \A b \in Held : b \in bs \/ Excused(b)'
  BY <1>1, <1>5 DEF Excused
<1>7. unused' \subseteq 1..MaxCalls
  <2>1. Kept \subseteq Kept' /\ unused \subseteq 1..MaxCalls /\ calls \in 0..MaxCalls
    BY <1>2, KeptSame DEF IInv, TypeOK
  <2>2. calls # 0
    BY <1>1 DEF IInv, Places, InCall
  <2> QED
    BY <1>1, <2>1, <2>2, Bounds
<1> QED
  BY <1>1, <1>2, <1>3, <1>4, <1>6, <1>7, KeptSame, EndInv, ReplyFacts

LEMMA NotAwaitedInv == ASSUME IInv, NotAwaited PROVE IInv'
<1>1. phase = "parse" /\ Back /\ unused' = unused \cup {calls} /\ Free(raw \cup pw)
  BY DEF NotAwaited, Cleaned
<1>2. UNCHANGED <<params, passcode, given, lastSet>>
  BY DEF NotAwaited
<1>3. raw \cup pw \in SUBSET Held
  BY <1>1, ReplyFacts
<1>4. \A b \in Held : b \in raw \cup pw \/ (b.what # "raw" /\ b.reply \in Replies /\ b.call = calls)
  BY <1>1, ReplyFacts
<1>5. \A b \in Held : b \in raw \cup pw \/ Excused(b)'
  BY <1>1, <1>4 DEF Excused
<1>6. Kept \subseteq Kept' /\ unused \subseteq 1..MaxCalls /\ calls \in 0..MaxCalls /\ calls # 0
  BY <1>1, <1>2, KeptSame DEF IInv, TypeOK, Places, InCall
<1>7. unused' \subseteq 1..MaxCalls
  BY <1>1, <1>6, Bounds
<1> QED
  BY <1>1, <1>2, <1>3, <1>5, <1>7, KeptSame, EndInv, ReplyFacts

\* When the reply is complete the function cleans its message.
LEMMA CleanedFacts ==
    ASSUME IInv, Parsed
    PROVE  /\ phase = "parse" /\ due /\ Cleaned = raw /\ raw \in SUBSET Held
           /\ reply = "AEX" => parsed = {}
<1>1. phase = "parse" /\ due /\ Cardinality(parsed) = Len(Allocated[reply]) /\ IsFiniteSet(parsed)
  BY DEF Parsed, IInv, Places
<1>2. ASSUME reply = "AEX" PROVE parsed = {}
  <2>1. Len(Allocated[reply]) = 0
    BY <1>2 DEF Allocated
  <2> QED
    BY <1>1, <2>1, FS_EmptySet
<1> QED
  BY <1>1, <1>2, ReplyFacts DEF Cleaned

LEMMA WrongTypeInv == ASSUME IInv, WrongType PROVE IInv'
<1>1. Parsed /\ phase = "parse" /\ due /\ Back /\ Free(raw) /\ reply # Expected[fn] /\ raw \in SUBSET Held
  BY CleanedFacts DEF WrongType
<1>2. UNCHANGED <<params, passcode, given, lastSet, unused>>
  BY DEF WrongType, envVars
<1>3. \A b \in Held : b \in raw \/ (b.what # "raw" /\ b.reply \in Replies /\ b.reply # Expected[b.fn])
  BY <1>1, ReplyFacts
<1>4. \A b \in Held : b \in raw \/ Excused(b)'
  BY <1>3 DEF Excused
<1> QED
  BY <1>1, <1>2, <1>4, KeptSame, EndInv, ReplyFacts

LEMMA TakeNothingInv == ASSUME IInv, TakeNothing PROVE IInv'
<1>1. Parsed /\ phase = "parse" /\ due /\ Back /\ Free(raw) /\ raw \in SUBSET Held
  BY CleanedFacts DEF TakeNothing
<1>2. UNCHANGED <<params, passcode, given, lastSet, unused>>
  BY DEF TakeNothing, envVars
<1>3. reply = "AIG" \/ parsed = {}
  BY CleanedFacts DEF TakeNothing, Expected
<1>4. \A b \in Held : b \in raw \/ b.what = "model"
  BY <1>1, <1>3, ReplyFacts DEF ParserWhats
<1>5. \A b \in Held : b \in raw \/ Excused(b)'
  BY <1>4 DEF Excused
<1> QED
  BY <1>1, <1>2, <1>5, KeptSame, EndInv, ReplyFacts

LEMMA TakeFormatInv == ASSUME IInv, TakeFormat PROVE IInv'
<1>1. /\ Parsed /\ phase = "parse" /\ due /\ Back /\ Free(raw) /\ raw \in SUBSET Held
      /\ params' = parsed /\ reply = "ADI" /\ fn = "format"
  BY CleanedFacts DEF TakeFormat, Expected
<1>2. UNCHANGED <<passcode, given, lastSet, unused>>
  BY DEF TakeFormat
<1>3. params = {}
  BY <1>1 DEF IInv, Places, InCall
<1>4. Kept' = Kept \cup parsed
  BY <1>1, <1>2, <1>3 DEF Kept
<1>5. parsed \subseteq Held \ raw /\ Held = raw \cup parsed /\ InCall
  BY <1>1, ReplyFacts
<1>6. KeptWhats'
  BY <1>1, <1>2, ReplyFacts DEF IInv, KeptShape, KeptWhats
<1>7. unused \subseteq 1..MaxCalls
  BY DEF IInv, TypeOK
<1> QED
  BY <1>1, <1>2, <1>4, <1>5, <1>6, <1>7, EndInv

LEMMA TakeItemInv == ASSUME IInv, TakeItem PROVE IInv'
<1>1. /\ Parsed /\ phase = "parse" /\ due /\ Back /\ Free(raw \cup FreedParams)
  BY CleanedFacts DEF TakeItem
<1>2. UNCHANGED <<params, passcode, given, lastSet, unused>>
  BY DEF TakeItem, envVars
<1>3. raw \cup FreedParams \in SUBSET Held
  BY <1>1, ReplyFacts DEF FreedParams
<1>4. \A b \in Held : b \in raw \cup FreedParams \/ b.what \in {"empty1", "empty2"}
  BY <1>1, ReplyFacts DEF FreedParams
<1>5. \A b \in Held : b \in raw \cup FreedParams \/ Excused(b)'
  BY <1>4 DEF Excused
<1> QED
  BY <1>1, <1>2, <1>3, <1>5, KeptSame, EndInv, ReplyFacts

\* While zdtm_obtain_sync_id_lists copies.
LEMMA CopyFacts ==
    ASSUME IInv, phase = "copy"
    PROVE  /\ InCall /\ Held = raw \cup parsed \cup copied
           /\ \A b \in raw : b.what = "raw"
           /\ \A b \in parsed : b.what \in {"new", "mod", "del"}
           /\ \A b \in copied : b.what \in CopyWhats
           /\ copied \cap (raw \cup parsed) = {}
<1>1. InCall /\ Held = raw \cup parsed \cup copied /\ reply = "ASY"
  BY DEF IInv, Places, Held, InCall
<1>2. ParserWhats[reply] = {"new", "mod", "del"}
  BY <1>1 DEF ParserWhats
<1>3. /\ \A b \in raw : b.what = "raw"
      /\ \A b \in parsed : b.what \in {"new", "mod", "del"}
      /\ \A b \in copied : b.what \in CopyWhats
  BY <1>2 DEF IInv, HeldShape
<1> QED
  BY <1>1, <1>3 DEF CopyWhats

LEMMA CopyFailsInv == ASSUME IInv, CopyFails PROVE IInv'
<1>1. phase = "copy" /\ Back /\ Free(copied \cup raw)
  BY DEF CopyFails, Cleaned
<1>2. UNCHANGED <<params, passcode, given, lastSet, unused>>
  BY DEF CopyFails, envVars
<1>3. copied \cup raw \in SUBSET Held
  BY <1>1, CopyFacts
<1>4. \A b \in Held : b \in copied \cup raw \/ b.what \in {"new", "mod", "del"}
  BY <1>1, CopyFacts
<1>5. \A b \in Held : b \in copied \cup raw \/ Excused(b)'
  BY <1>4 DEF Excused
<1> QED
  BY <1>1, <1>2, <1>3, <1>5, KeptSame, EndInv, CopyFacts

LEMMA GiveListsInv == ASSUME IInv, GiveLists PROVE IInv'
<1>1. phase = "copy" /\ Back /\ Free(raw) /\ given' = given \cup copied
  BY DEF GiveLists, Cleaned
<1>2. UNCHANGED <<params, passcode, lastSet, unused>>
  BY DEF GiveLists, envVars
<1>3. Kept' = Kept \cup copied
  BY <1>1, <1>2 DEF Kept
<1>4. raw \in SUBSET Held /\ copied \subseteq Held \ raw /\ InCall
  BY <1>1, CopyFacts
<1>5. KeptWhats'
  BY <1>1, <1>2, CopyFacts DEF IInv, KeptShape, KeptWhats
<1>6. \A b \in Held : b \in raw \cup Kept' \/ b.what \in {"new", "mod", "del"}
  BY <1>1, <1>3, CopyFacts
<1>7. \A b \in Held : b \in raw \cup Kept' \/ Excused(b)'
  BY <1>6 DEF Excused
<1>8. unused \subseteq 1..MaxCalls
  BY DEF IInv, TypeOK
<1> QED
  BY <1>1, <1>2, <1>3, <1>4, <1>5, <1>7, <1>8, EndInv
-----------------------------------------------------------------------------
(***************************************************************************)
(* The steps inside a call.                                                *)
(***************************************************************************)
\* A call allocates a block b, which it then holds.
LEMMA MallocFacts ==
    ASSUME IInv, InCall, NEW b \in Blocks, live' = live \cup {b}, bad' = bad,
           Held' = Held \cup {b}, UNCHANGED <<params, passcode, given, lastSet, unused>>
    PROVE  /\ live' \subseteq Blocks /\ bad' \in BOOLEAN
           /\ NoDoubleFree' /\ Accounted' /\ Kept' = Kept
           /\ {params', passcode', given'} \subseteq SUBSET Blocks
           /\ lastSet' \in 0..MaxCalls /\ unused' \subseteq 1..MaxCalls
<1>1. Kept' = Kept
  BY DEF Kept
<1>2. Accounted'
  BY <1>1 DEF IInv, Accounted, Excused, InCall
<1>3. live' \subseteq Blocks /\ bad' \in BOOLEAN /\ NoDoubleFree'
  BY DEF IInv, TypeOK, NoDoubleFree
<1> QED
  BY <1>1, <1>2, <1>3 DEF IInv, TypeOK

\* A reply is stored, in its place or not.
LEMMA StoreInv ==
    ASSUME IInv, NEW r \in Replies, Store(r),
           \/ phase = "recv" /\ due' = TRUE
           \/ phase \in {"send", "sent"} /\ due' = FALSE
    PROVE  IInv'
<1>1. /\ reply' = r /\ raw' = {Block("raw", r)} /\ Malloc(Block("raw", r))
      /\ empty' \in SUBSET (IF r = "ADR" THEN {"data1", "data2"} ELSE {})
  BY DEF Store
<1>2. /\ phase \in {"send", "sent", "recv"} /\ phase' = "parse" /\ InCall
      /\ due' \in BOOLEAN
      /\ UNCHANGED <<calls, fn, pw, parsed, copied, params, passcode, lastSet, unused, given>>
  BY DEF Store, envVars, InCall
<1>3. Held = pw /\ (due' => pw = {}) /\ raw = {} /\ parsed = {} /\ copied = {}
  BY <1>2 DEF IInv, Places, Held
<1> DEFINE b == Block("raw", r)
<1>4. b \in Blocks /\ b.call = calls /\ b.fn = fn /\ b.reply = r /\ b.what = "raw"
  BY BlockFacts DEF IInv, Purposes
<1> HIDE DEF b
<1>5. live' = live \cup {b} /\ bad' = bad /\ raw' = {b}
  BY <1>1 DEF Malloc, b
<1>6. Held' = Held \cup {b}
  BY <1>2, <1>3, <1>5 DEF Held
<1>7. /\ live' \subseteq Blocks /\ bad' \in BOOLEAN
      /\ NoDoubleFree' /\ Accounted' /\ Kept' = Kept
      /\ {params', passcode', given'} \subseteq SUBSET Blocks
      /\ lastSet' \in 0..MaxCalls /\ unused' \subseteq 1..MaxCalls
  BY <1>2, <1>4, <1>5, <1>6, MallocFacts
<1>8. TypeOK'
  <2>1. Len(Allocated[r]) \in Nat /\ Cardinality(parsed') = 0
    BY <1>2, <1>3, AllocatedFacts, FS_EmptySet
  <2>2. Len(Allocated[reply']) >= Cardinality(parsed')
    BY <1>1, <2>1
  <2>3. empty' \subseteq Purposes
    BY <1>1 DEF Purposes, Copies, Allocated, Replies, Fns, Expected
  <2>4. /\ calls' \in 0..MaxCalls /\ fn' \in Fns /\ phase' = "parse" /\ reply' \in Replies
        /\ pw' \subseteq Blocks /\ (pw' # {} => fn' = "auth" /\ ~due') /\ due' \in BOOLEAN
        /\ parsed' = {} /\ copied' = {} /\ raw' = {b}
    BY <1>1, <1>2, <1>3, <1>5 DEF IInv, TypeOK
  <2> QED
    BY <1>4, <1>7, <2>2, <2>3, <2>4 DEF TypeOK
<1>9. HeldShape'
  BY <1>1, <1>2, <1>3, <1>4, <1>5, <1>6 DEF IInv, HeldShape
<1>10. KeptShape'
  BY <1>2, <1>7 DEF IInv, KeptShape, InCall
<1>11. Places'
  <2>1. empty' # {} => reply' = "ADR" /\ empty' \subseteq {"data1", "data2"}
    BY <1>1
  <2> QED
    BY <1>2, <1>3, <2>1 DEF IInv, Places, InCall
<1> QED
  BY <1>7, <1>8, <1>9, <1>10, <1>11 DEF IInv

LEMMA RecvInv == ASSUME IInv, Recv \/ RecvMisplaced PROVE IInv'
<1>1. Expected[fn] \in Replies
  BY DEF Replies, IInv, TypeOK
<1> QED
  BY <1>1, StoreInv DEF Recv, RecvMisplaced

\* The block a parser allocates next.
LEMMA ParserBlockFacts ==
    ASSUME IInv, Parsing
    PROVE  LET b == ParserBlock(Cardinality(parsed) + 1)
           IN  /\ b \in Blocks /\ b.call = calls /\ b.fn = fn /\ b.reply = reply
               /\ b.what \in ParserWhats[reply]
               /\ Len(Allocated[reply]) >= Cardinality(parsed \cup {b})
               /\ IsFiniteSet(parsed \cup {b})
<1>1. /\ reply \in Replies /\ IsFiniteSet(parsed) /\ Cardinality(parsed) \in Nat
      /\ Cardinality(parsed) < Len(Allocated[reply]) /\ Len(Allocated[reply]) \in Nat
  BY FS_CardinalityType, AllocatedFacts DEF IInv, TypeOK, Places, Parsing
<1> DEFINE n == Cardinality(parsed) + 1
           w == Allocated[reply][n]
           v == IF w \in empty THEN WithoutData[w] ELSE w
<1>2. n \in 1..Len(Allocated[reply])
  BY <1>1
<1>3. w \in ParserWhats[reply] \cap Purposes
  BY <1>1, <1>2, AllocatedFacts
<1>4. v \in ParserWhats[reply] \cap Purposes
  <2>1. CASE w \in empty
    <3>1. w \in {"data1", "data2"} /\ reply = "ADR"
      BY <2>1 DEF IInv, Places
    <3>2. v \in {"empty1", "empty2"}
      BY <2>1, <3>1 DEF WithoutData
    <3>3. v \in Purposes
      BY <3>2 DEF Purposes
    <3> QED
      BY <3>1, <3>2, <3>3 DEF ParserWhats
  <2> QED
    BY <2>1, <1>3
<1>5. ParserBlock(n) = Block(v, reply)
  BY DEF ParserBlock
<1> HIDE DEF v, w
<1>6. /\ Block(v, reply) \in Blocks /\ Block(v, reply).call = calls /\ Block(v, reply).fn = fn
      /\ Block(v, reply).reply = reply /\ Block(v, reply).what = v
  BY <1>1, <1>4, BlockFacts DEF IInv
<1>7. /\ IsFiniteSet(parsed \cup {ParserBlock(n)})
      /\ Cardinality(parsed \cup {ParserBlock(n)}) <= n
  <2>1. ASSUME NEW x
        PROVE  IsFiniteSet(parsed \cup {x}) /\ Cardinality(parsed \cup {x}) <= n
    <3>1. IsFiniteSet(parsed \cup {x})
      BY <1>1, FS_AddElement
    <3>2. \/ Cardinality(parsed \cup {x}) = Cardinality(parsed)
          \/ Cardinality(parsed \cup {x}) = Cardinality(parsed) + 1
      BY <1>1, FS_AddElement
    <3> QED
      BY <1>1, <3>1, <3>2
  <2> QED
    BY <2>1
<1>8. Cardinality(parsed \cup {ParserBlock(n)}) \in Nat
  BY <1>7, FS_CardinalityType
<1>9. Len(Allocated[reply]) >= Cardinality(parsed \cup {ParserBlock(n)})
  BY <1>1, <1>2, <1>7, <1>8
<1> QED
  BY <1>4, <1>5, <1>6, <1>7, <1>9

LEMMA ParseNextInv == ASSUME IInv, ParseNext PROVE IInv'
<1> DEFINE b == ParserBlock(Cardinality(parsed) + 1)
<1>1. Parsing /\ phase = "parse" /\ parsed' = parsed \cup {b} /\ live' = live \cup {b} /\ bad' = bad
  BY DEF ParseNext, Parsing, Malloc
<1>2. /\ UNCHANGED <<calls, fn, phase, raw, pw, due, reply, empty, copied, params, passcode, lastSet,
                     unused, given>>
  BY DEF ParseNext, envVars
<1>3. /\ b \in Blocks /\ b.call = calls /\ b.fn = fn /\ b.reply = reply
      /\ b.what \in ParserWhats[reply]
      /\ Len(Allocated[reply]) >= Cardinality(parsed \cup {b})
      /\ IsFiniteSet(parsed \cup {b})
  BY <1>1, ParserBlockFacts
<1> HIDE DEF b
<1>4. Held' = Held \cup {b}
  BY <1>1, <1>2 DEF Held
<1>5. /\ live' \subseteq Blocks /\ bad' \in BOOLEAN
      /\ NoDoubleFree' /\ Accounted' /\ Kept' = Kept
      /\ {params', passcode', given'} \subseteq SUBSET Blocks
      /\ lastSet' \in 0..MaxCalls /\ unused' \subseteq 1..MaxCalls
  BY <1>1, <1>2, <1>3, <1>4, MallocFacts, ReplyFacts
<1>6. TypeOK'
  BY <1>1, <1>2, <1>3, <1>5 DEF IInv, TypeOK
<1>7. HeldShape'
  BY <1>1, <1>2, <1>3, <1>4 DEF IInv, HeldShape
<1>8. KeptShape' /\ Places'
  BY <1>1, <1>2, <1>3, <1>5 DEF IInv, KeptShape, Places, InCall
<1> QED
  BY <1>5, <1>6, <1>7, <1>8 DEF IInv

LEMMA CopyListsInv == ASSUME IInv, CopyLists PROVE IInv'
<1>1. /\ phase = "parse" /\ phase' = "copy" /\ fn = "lists" /\ reply = "ASY" /\ due
      /\ UNCHANGED <<live, bad, calls, fn, raw, pw, due, reply, parsed, empty, copied, params, passcode,
                     lastSet, unused, given>>
  BY DEF CopyLists, Parsed, Expected, heapVars, msgVars, envVars
<1>2. Held' = Held /\ Kept' = Kept
  BY <1>1 DEF Held, Kept
<1>3. TypeOK'
  BY <1>1 DEF IInv, TypeOK
<1>4. HeldShape' /\ KeptShape'
  BY <1>1, <1>2 DEF IInv, HeldShape, KeptShape, InCall
<1>5. Places'
  BY <1>1 DEF IInv, Places, InCall
<1>6. Accounted' /\ NoDoubleFree'
  BY <1>1, <1>2 DEF IInv, Accounted, Excused, NoDoubleFree
<1> QED
  BY <1>3, <1>4, <1>5, <1>6 DEF IInv

LEMMA CopyNextInv == ASSUME IInv, CopyNext PROVE IInv'
<1> DEFINE n == Cardinality(copied) + 1
           b == Block(Copies[n], "none")
<1>1. phase = "copy" /\ copied' = copied \cup {b} /\ live' = live \cup {b} /\ bad' = bad
  BY DEF CopyNext, Malloc
<1>2. UNCHANGED <<calls, fn, phase, raw, pw, due, reply, parsed, empty, params, passcode, lastSet,
                  unused, given>>
  BY DEF CopyNext, envVars
<1>3. IsFiniteSet(copied) /\ n \in 1..3
  BY FS_CardinalityType, CopiesFacts DEF IInv, Places, CopyNext
<1>4. Copies[n] \in CopyWhats \cap Purposes
  BY <1>3, CopiesFacts
<1>5. b \in Blocks /\ b.call = calls /\ b.what \in CopyWhats
  BY <1>4, BlockFacts DEF IInv
<1>6. IsFiniteSet(copied \cup {b})
  BY <1>3, FS_AddElement
<1> HIDE DEF b
<1>7. Held' = Held \cup {b}
  BY <1>1, <1>2 DEF Held
<1>8. /\ live' \subseteq Blocks /\ bad' \in BOOLEAN
      /\ NoDoubleFree' /\ Accounted' /\ Kept' = Kept
      /\ {params', passcode', given'} \subseteq SUBSET Blocks
      /\ lastSet' \in 0..MaxCalls /\ unused' \subseteq 1..MaxCalls
  BY <1>1, <1>2, <1>5, <1>7, MallocFacts, CopyFacts
<1>9. TypeOK'
  BY <1>1, <1>2, <1>5, <1>8 DEF IInv, TypeOK
<1>10. HeldShape'
  BY <1>1, <1>2, <1>5, <1>7 DEF IInv, HeldShape
<1>11. KeptShape' /\ Places'
  BY <1>1, <1>2, <1>6, <1>8 DEF IInv, KeptShape, Places, InCall
<1> QED
  BY <1>8, <1>9, <1>10, <1>11 DEF IInv

LEMMA SentInv == ASSUME IInv, Sent PROVE IInv'
<1>1. /\ phase = "send" /\ phase' = "sent" /\ Free(pw) /\ pw' = {} /\ Held = pw
      /\ raw = {} /\ parsed = {} /\ copied = {}
  BY DEF Sent, CleanedPw, IInv, Places, Held
<1>2. UNCHANGED <<calls, fn, raw, due, reply, parsed, empty, copied, params, passcode, lastSet,
                  unused, given>>
  BY DEF Sent, envVars
<1>3. live' = live \ pw /\ NoDoubleFree' /\ bad' \in BOOLEAN
  BY <1>1, FreeFacts DEF IInv, TypeOK, Accounted
<1>4. Held' = {} /\ Kept' = Kept /\ Held \cap Kept = {}
  BY <1>1, <1>2, HeldNotKept DEF Held, Kept, InCall
<1>5. TypeOK'
  BY <1>1, <1>2, <1>3 DEF IInv, TypeOK
<1>6. HeldShape' /\ KeptShape' /\ Places'
  BY <1>1, <1>2, <1>4 DEF IInv, HeldShape, KeptShape, Places, InCall
<1>7. Accounted'
  BY <1>1, <1>2, <1>3, <1>4 DEF IInv, Accounted, Excused
<1> QED
  BY <1>3, <1>5, <1>6, <1>7 DEF IInv

-----------------------------------------------------------------------------
(***************************************************************************)
(* The steps of the program.                                               *)
(***************************************************************************)
LEMMA BeginInv == ASSUME IInv, NEW f \in Fns, Begin(f) PROVE IInv'
<1>1. /\ phase = "idle" /\ phase' \in {"idle", "send"} /\ calls' = calls + 1 /\ fn' = f
      /\ f = "format" => params = {}
      /\ UNCHANGED <<bad, raw, due, reply, parsed, empty, copied, params, passcode, lastSet, unused,
                     given>>
  BY DEF Begin, envVars
<1>2. calls \in Nat /\ calls' \in 0..MaxCalls /\ calls' # 0 /\ calls < calls'
  BY Bounds DEF Begin, IInv, TypeOK
<1>3. Held = {} /\ pw = {} /\ raw = {} /\ parsed = {} /\ copied = {}
  BY <1>1 DEF IInv, Places, Held
<1> DEFINE b == [call |-> calls', fn |-> f, reply |-> "none", what |-> "pw"]
<1>4. b \in Blocks /\ b.call = calls' /\ b.what = "pw"
  BY <1>2 DEF Blocks, Purposes
<1> HIDE DEF b
<1>5. \/ pw' = {b} /\ live' = live \cup {b} /\ phase' = "send" /\ f = "auth"
      \/ pw' = {} /\ live' = live
  BY <1>3 DEF Begin, b
<1>6. Held' = pw' /\ Kept' = Kept
  BY <1>1, <1>3 DEF Held, Kept
<1>7. TypeOK'
  BY <1>1, <1>2, <1>3, <1>4, <1>5 DEF IInv, TypeOK
<1>8. HeldShape'
  BY <1>1, <1>3, <1>4, <1>5, <1>6 DEF HeldShape
<1>9. KeptShape'
  <2>1. \A k \in Kept : k.call \in Nat /\ k.call <= calls
    BY BlocksAre, Bounds DEF IInv, TypeOK, KeptShape, Kept
  <2>2. \A k \in Kept : k.call < calls' /\ k.call <= calls'
    BY <1>2, <2>1
  <2> QED
    BY <1>1, <1>6, <2>2 DEF IInv, KeptShape
<1>10. Places'
  <2>1. lastSet' <= calls'
    <3>1. lastSet \in Nat /\ lastSet <= calls
      BY Bounds DEF IInv, TypeOK, Places
    <3> QED
      BY <1>1, <1>2, <3>1
  <2> QED
    BY <1>1, <1>2, <1>3, <1>5, <1>6, <2>1 DEF IInv, Places, InCall
<1>11. Accounted' /\ NoDoubleFree'
  BY <1>1, <1>3, <1>5, <1>6 DEF IInv, Accounted, Excused, NoDoubleFree
<1> QED
  BY <1>7, <1>8, <1>9, <1>10, <1>11 DEF IInv

LEMMA FreeListsInv == ASSUME IInv, FreeLists PROVE IInv'
<1>1. /\ phase = "idle" /\ Free(given) /\ given' = {}
      /\ UNCHANGED <<calls, fn, phase, raw, pw, due, reply, parsed, empty, copied, params, passcode,
                     lastSet, unused>>
  BY DEF FreeLists, msgVars, envVars
<1>2. live' = live \ given /\ NoDoubleFree' /\ bad' \in BOOLEAN
  BY <1>1, FreeFacts DEF IInv, TypeOK, Accounted, Kept
<1>3. Held = {} /\ Held' = {} /\ Kept' = params \cup passcode /\ Kept' \cup given = Kept
      /\ Kept' \cap given = {}
  BY <1>1, KeptApart DEF IInv, Places, Held, Kept
<1>4. TypeOK'
  BY <1>1, <1>2 DEF IInv, TypeOK
<1>5. HeldShape' /\ KeptShape' /\ Places'
  BY <1>1, <1>3 DEF IInv, HeldShape, KeptShape, Places, InCall
<1>6. Accounted'
  BY <1>1, <1>2, <1>3 DEF IInv, Accounted, Excused
<1> QED
  BY <1>2, <1>4, <1>5, <1>6 DEF IInv

LEMMA SetPasscodeInv == ASSUME IInv, SetPasscode PROVE IInv'
<1> DEFINE b == [call |-> calls', fn |-> "passcode", reply |-> "none", what |-> "passcode"]
<1>1. /\ phase = "idle" /\ calls' = calls + 1 /\ lastSet' = calls'
      /\ UNCHANGED <<bad, fn, phase, raw, pw, due, reply, parsed, empty, copied, params, unused, given>>
      /\ \/ passcode' = {b} /\ live' = live \cup {b}
         \/ passcode' = {} /\ live' = live
  BY DEF SetPasscode, msgVars
<1>2. calls \in Nat /\ lastSet \in Nat /\ calls' \in 0..MaxCalls /\ calls < calls'
  BY Bounds DEF SetPasscode, IInv, TypeOK
<1>3. b \in Blocks /\ b.call = calls' /\ b.what = "passcode"
  BY <1>2 DEF Blocks, Purposes
<1> HIDE DEF b
<1>4. Held = {} /\ Held' = {} /\ Kept = params \cup given \cup passcode
      /\ Kept' = params \cup given \cup passcode'
  BY <1>1 DEF IInv, Places, Held, Kept
<1>5. \A k \in live : k.call \in Nat
  BY BlocksAre, Bounds DEF IInv, TypeOK
<1>6. \A k \in passcode : k.what = "passcode" /\ k.call < lastSet'
  <2>1. \A k \in passcode : k.what = "passcode" /\ k.call <= calls /\ k \in live
    BY DEF IInv, KeptShape, Kept, Accounted
  <2> QED
    BY <1>1, <1>2, <1>5, <2>1
<1>7. lastSet <= calls
  BY DEF IInv, Places
<1>8. TypeOK'
  BY <1>1, <1>2, <1>3 DEF IInv, TypeOK
<1>9. HeldShape' /\ Places'
  <2>1. calls' <= calls'
    BY <1>2
  <2> QED
    BY <1>1, <1>4, <2>1 DEF IInv, HeldShape, Places, InCall
<1>10. KeptShape'
  <2>1. \A k \in Kept : k.call <= calls'
    <3>1. \A k \in Kept : k.call <= calls /\ k \in live
      BY DEF IInv, KeptShape, Accounted
    <3> QED
      BY <1>2, <1>5, <3>1
  <2>2. calls' <= calls'
    BY <1>2
  <2> QED
    BY <1>1, <1>3, <1>4, <2>1, <2>2 DEF IInv, KeptShape, InCall
<1>11. Accounted'
  <2>1. Held' \cup Kept' \subseteq live'
    BY <1>1, <1>4 DEF IInv, Accounted
  <2>2. ASSUME NEW k \in live' \ (Held' \cup Kept') PROVE Excused(k)'
    <3>1. k \in live
      BY <1>1, <1>4, <2>2
    <3>2. CASE k \in passcode
      BY <1>6, <3>2 DEF Excused
    <3>3. CASE k \notin passcode
      <4>1. Excused(k)
        BY <1>4, <2>2, <3>1, <3>3 DEF IInv, Accounted
      <4>2. k.call < lastSet => k.call < lastSet'
        BY <1>1, <1>2, <1>5, <1>7, <3>1
      <4> QED
        BY <1>1, <4>1, <4>2 DEF Excused
    <3> QED
      BY <3>2, <3>3
  <2> QED
    BY <2>1, <2>2 DEF Accounted
<1>12. NoDoubleFree'
  BY <1>1 DEF IInv, NoDoubleFree
<1> QED
  BY <1>8, <1>9, <1>10, <1>11, <1>12 DEF IInv

LEMMA FinalizeInv == ASSUME IInv, Finalize PROVE IInv'
<1>1. /\ phase = "idle" /\ phase' = "final" /\ Free(params \cup passcode)
      /\ params' = {} /\ passcode' = {}
      /\ UNCHANGED <<calls, fn, raw, pw, due, reply, parsed, empty, copied, lastSet, unused, given>>
  BY DEF Finalize, msgVars
<1>2. live' = live \ (params \cup passcode) /\ NoDoubleFree' /\ bad' \in BOOLEAN
  BY <1>1, FreeFacts DEF IInv, TypeOK, Accounted, Kept
<1>3. Held = {} /\ Held' = {} /\ Kept' = given /\ Kept = params \cup passcode \cup given
      /\ given \cap (params \cup passcode) = {}
  BY <1>1, KeptApart DEF IInv, Places, Held, Kept
<1>4. TypeOK'
  BY <1>1, <1>2 DEF IInv, TypeOK
<1>5. HeldShape' /\ KeptShape' /\ Places'
  BY <1>1, <1>3 DEF IInv, HeldShape, KeptShape, Places, InCall
<1>6. Accounted'
  BY <1>1, <1>2, <1>3 DEF IInv, Accounted, Excused
<1> QED
  BY <1>2, <1>4, <1>5, <1>6 DEF IInv

\* What nobody freed is the format and the passcode.
LEMMA FinalizeFailsInv == ASSUME IInv, FinalizeFails PROVE IInv'
<1>1. /\ phase = "idle" /\ phase' = "failed" /\ params' = {} /\ passcode' = {}
      /\ UNCHANGED <<live, bad, calls, fn, raw, pw, due, reply, parsed, empty, copied, lastSet, unused,
                     given>>
  BY DEF FinalizeFails, heapVars, msgVars
<1>2. Held = {} /\ Held' = {} /\ Kept' = given /\ Kept = params \cup passcode \cup given
  BY <1>1 DEF IInv, Places, Held, Kept
<1>3. TypeOK' /\ NoDoubleFree'
  BY <1>1 DEF IInv, TypeOK, NoDoubleFree
<1>4. HeldShape' /\ KeptShape' /\ Places'
  BY <1>1, <1>2 DEF IInv, HeldShape, KeptShape, Places, InCall
<1>5. ASSUME NEW b \in params \cup passcode PROVE Excused(b)'
  <2>1. "ADI" \in Replies
    BY RepliesAre
  <2>2. b \in params => b.what # "raw" /\ b.fn = "format" /\ b.reply = "ADI"
    BY <2>1, WhatsDiffer DEF IInv, KeptShape
  <2>3. b \in passcode => b.what = "passcode"
    BY DEF IInv, KeptShape
  <2> QED
    BY <1>1, <1>5, <2>2, <2>3 DEF Excused
<1>6. ASSUME NEW b \in live' \ (Held' \cup Kept'), b \notin params \cup passcode PROVE Excused(b)'
  <2>1. Excused(b)
    BY <1>1, <1>2, <1>6 DEF IInv, Accounted
  <2> QED
    BY <1>1, <2>1 DEF Excused
<1>7. Accounted'
  BY <1>1, <1>2, <1>5, <1>6 DEF IInv, Accounted
<1> QED
  BY <1>3, <1>4, <1>7 DEF IInv

LEMMA StutterInv == ASSUME IInv, UNCHANGED vars PROVE IInv'
<1>1. TypeOK' /\ NoDoubleFree'
  BY DEF IInv, TypeOK, NoDoubleFree, vars
<1>2. HeldShape' /\ KeptShape' /\ Places' /\ Accounted'
  BY DEF IInv, HeldShape, KeptShape, Places, Accounted, Excused, Held, Kept, InCall, vars
<1> QED
  BY <1>1, <1>2 DEF IInv

LEMMA NextInv == IInv /\ [Next]_vars => IInv'
<1> SUFFICES ASSUME IInv, [Next]_vars PROVE IInv'
  OBVIOUS
<1>1. ASSUME NEW f \in Fns, Begin(f) PROVE IInv'
  BY <1>1, BeginInv
<1>2. CASE \/ NotAsked \/ Sent \/ AfterSend \/ RecvFails \/ Recv \/ RecvMisplaced
           \/ ParseNext \/ ParseFails \/ AckFails \/ NotAwaited
  BY <1>2, NotAskedInv, SentInv, AfterSendInv, RecvFailsInv, RecvInv, ParseNextInv, ParseFailsInv,
     AckFailsInv, NotAwaitedInv
<1>3. CASE WrongType \/ TakeNothing \/ TakeFormat \/ TakeItem
  BY <1>3, WrongTypeInv, TakeNothingInv, TakeFormatInv, TakeItemInv
<1>4. CASE CopyLists \/ CopyNext \/ CopyFails \/ GiveLists
  BY <1>4, CopyListsInv, CopyNextInv, CopyFailsInv, GiveListsInv
<1>5. CASE FreeLists \/ SetPasscode \/ Finalize \/ FinalizeFails
  BY <1>5, FreeListsInv, SetPasscodeInv, FinalizeInv, FinalizeFailsInv
<1>6. CASE UNCHANGED vars
  BY <1>6, StutterInv
<1> QED
  BY <1>1, <1>2, <1>3, <1>4, <1>5, <1>6 DEF Next

LEMMA Invariant == Spec => []IInv
<1> QED
  BY InitInv, NextInv, PTL DEF Spec
-----------------------------------------------------------------------------
(***************************************************************************)
(* The theorems.                                                           *)
(***************************************************************************)
\* Type correctness: among others, a parser never allocates more blocks than
\* its reply has pointers for.
THEOREM TypeCorrect == Spec => []TypeOK
<1>1. IInv => TypeOK
  BY DEF IInv
<1> QED
  BY <1>1, Invariant, PTL

\* No block is freed that is not allocated: not the passcode's copy, which
\* _zdtm_clean_message and then its maker free, not what a failed parser has
\* freed already, not what the environment or the program frees in the end
\* (zdtm_proto.c:209-214, zdtm_sync.c:34-84).
THEOREM NothingFreedTwice == Spec => []NoDoubleFree
<1>1. IInv => NoDoubleFree
  BY DEF IInv
<1> QED
  BY <1>1, Invariant, PTL

\* What the environment keeps and what the program was given is allocated for
\* as long as they hold it (zdtm_proto.c:453-456, zdtm_sync.c:354-363).
THEOREM KeptIsAllocated == Spec => []NothingDangles
<1>1. IInv => NothingDangles
  BY DEF IInv, Accounted, Kept, NothingDangles
<1> QED
  BY <1>1, Invariant, PTL

\* Whatever fails, a zdtm_finalize that returns before it frees anything
\* included, and whichever replies come in whatever place, the library loses the
\* blocks that LossesKnown names and no others (zdtm_sync.c:515-537,
\* zdtm_net.c:526-573).
THEOREM OnlyKnownLosses == Spec => []LossesKnown
<1>1. IInv => LossesKnown
  <2> SUFFICES ASSUME IInv, phase \in {"idle", "final", "failed"}, NEW b \in Lost PROVE Excused(b)
    BY DEF LossesKnown, Excused
  <2>1. Held = {} /\ b \in live /\ b \notin Kept
    BY DEF IInv, Places, Lost, Kept
  <2> QED
    BY <2>1 DEF IInv, Accounted
<1> QED
  BY <1>1, Invariant, PTL
=============================================================================
