------------------------ MODULE ZdtmReceive_proofs --------------------------
(***************************************************************************)
(* Theorems about ZdtmReceive, for every script of messages, every body    *)
(* size, every way to cut the bytes and every number of calls.             *)
(***************************************************************************)
EXTENDS ZdtmReceive, SequenceTheorems, TLAPS

-----------------------------------------------------------------------------
(***************************************************************************)
(* Bytes and the messages they are of.                                     *)
(***************************************************************************)
LEMMA ScriptMessage ==
    ASSUME NEW k \in DOMAIN Script
    PROVE  Script[k] \in Message /\ Script[k].type \in MsgTypes
<1>1. k \in 1..Len(Script) /\ Script[k] \in Message
  BY ReceiveAssumption
<1> QED
  BY <1>1 DEF Message

\* A message is at least as long as a common one, and a general one ends with
\* the body and the checksum.
LEMMA Sizes ==
    ASSUME NEW k \in DOMAIN Script
    PROVE  /\ SizeOf(k) \in Nat \ {0} /\ COM_MSG_SIZE <= SizeOf(k)
           /\ IsCommon(Script[k]) => SizeOf(k) = COM_MSG_SIZE
           /\ ~IsCommon(Script[k]) =>
                /\ BodySize[Script[k].type] \in MSG_TYPE_SIZE..BODY_SIZE_MAX
                /\ SizeOf(k) = RestWanted + BodySize[Script[k].type] + 2
<1>1. BodySize[Script[k].type] \in MSG_TYPE_SIZE..BODY_SIZE_MAX
  BY ScriptMessage, WireAssumption
<1> QED
  BY <1>1, WireAssumption DEF SizeOf, WireSize, RestWanted, SIZE_FIELD

LEMMA BytesOf ==
    ASSUME NEW k \in DOMAIN Script
    PROVE  /\ Bytes(k) \in Seq(Byte) /\ Len(Bytes(k)) = SizeOf(k)
           /\ \A i \in 1..SizeOf(k) : Bytes(k)[i] = <<k, i>> /\ <<k, i>> \in Byte
<1>1. SizeOf(k) \in Nat
  BY Sizes
<1>2. \A i \in 1..SizeOf(k) : <<k, i>> \in Byte
  BY <1>1 DEF Byte
<1>3. Bytes(k) = [i \in 1..SizeOf(k) |-> <<k, i>>]
  BY DEF Bytes, WireBytes, SizeOf
<1> QED
  BY <1>1, <1>2, <1>3

LEMMA ByteParts ==
    ASSUME NEW b \in Byte
    PROVE  /\ b = <<b[1], b[2]>> /\ b[1] \in DOMAIN Script /\ b[2] \in 1..SizeOf(b[1])
           /\ b[1] \in Nat /\ b[2] \in Nat /\ SizeOf(b[1]) \in Nat
<1>1. b = <<b[1], b[2]>> /\ b[1] \in DOMAIN Script /\ b[2] \in 1..SizeOf(b[1])
  BY DEF Byte
<1>2. SizeOf(b[1]) \in Nat
  BY <1>1, Sizes
<1>3. DOMAIN Script \subseteq Nat
  BY ReceiveAssumption, SMT
<1>4. b[1] \in Nat /\ b[2] \in Nat
  BY <1>1, <1>2, <1>3
<1> QED
  BY <1>1, <1>2, <1>4

\* A piece of a message.
LEMMA Piece ==
    ASSUME NEW k \in DOMAIN Script, NEW f \in Nat, NEW u \in f+1 .. SizeOf(k)
    PROVE  /\ SubSeq(Bytes(k), f + 1, u) \in Seq(Byte)
           /\ Len(SubSeq(Bytes(k), f + 1, u)) = u - f
           /\ \A j \in 1..u-f : SubSeq(Bytes(k), f + 1, u)[j] = <<k, f + j>>
<1>1. SizeOf(k) \in Nat
  BY Sizes
<1> DEFINE B == Bytes(k)  P == SubSeq(B, f + 1, u)
<1>2. /\ B \in Seq(Byte) /\ Len(B) = SizeOf(k)
      /\ \A i \in 1..SizeOf(k) : B[i] = <<k, i>>
  BY BytesOf
<1> HIDE DEF B
<1>3. f + 1 \in Nat /\ u \in Nat /\ u <= Len(B) /\ f + 1 >= 1 /\ u - f \in Nat
  BY <1>1, <1>2
<1>4. P \in Seq(Byte) /\ Len(P) = u - f /\ \A j \in 1..u-f : P[j] = B[f + j]
  BY <1>2, <1>3, SubSeqProperties
<1>5. \A j \in 1..u-f : P[j] = <<k, f + j>>
  BY <1>1, <1>2, <1>3, <1>4
<1> QED
  BY <1>4, <1>5 DEF B
-----------------------------------------------------------------------------
(***************************************************************************)
(* Sequences and sizes.                                                    *)
(***************************************************************************)
LEMMA Dropped ==
    ASSUME NEW S, NEW w \in Seq(S), NEW n \in 1..Len(w),
           NEW r, r = SubSeq(w, n + 1, Len(w))
    PROVE  /\ r \in Seq(S) /\ Len(r) = Len(w) - n /\ DOMAIN r = 1..Len(w) - n
           /\ \A j \in 1..Len(w) - n : r[j] = w[n + j]
<1>1. n \in Int /\ Len(w) \in Int /\ n + 1 \in Int /\ n <= Len(w) /\ n >= 1
  OBVIOUS
<1>2. \A i \in n+1 .. Len(w) : w[i] \in S
  BY <1>1
<1>3. /\ r \in Seq(S)
      /\ Len(r) = IF n + 1 <= Len(w) THEN Len(w) - (n + 1) + 1 ELSE 0
      /\ \A j \in 1..Len(w) - (n + 1) + 1 : r[j] = w[n + 1 + j - 1]
  BY <1>1, <1>2, SubSeqProperties
<1>4. Len(r) = Len(w) - n
  BY <1>1, <1>3
<1>5. \A j \in 1..Len(w) - n : r[j] = w[n + j]
  <2> SUFFICES ASSUME NEW j \in 1..Len(w) - n PROVE r[j] = w[n + j]
    OBVIOUS
  <2>1. j \in 1..Len(w) - (n + 1) + 1 /\ n + 1 + j - 1 = n + j
    BY <1>1
  <2>2. r[j] = w[n + 1 + j - 1]
    BY <1>3, <2>1
  <2> QED
    BY <2>1, <2>2
<1> QED
  BY <1>3, <1>4, <1>5

LEMMA Joined ==
    ASSUME NEW S, NEW v \in Seq(S), NEW w \in Seq(S)
    PROVE  /\ v \o w \in Seq(S) /\ Len(v \o w) = Len(v) + Len(w)
           /\ \A j \in 1..Len(v) : (v \o w)[j] = v[j]
           /\ \A j \in 1..Len(w) : (v \o w)[Len(v) + j] = w[j]
BY ConcatProperties

LEMMA Arriving ==
    ASSUME NEW got \in Seq(Byte), wire \in Seq(Byte), NEW wanted \in Nat,
           NEW h \in Arrivals(got, wanted)
    PROVE  \E n \in 1..Len(wire) :
             /\ h = got \o SubSeq(wire, 1, n) /\ h \in Seq(Byte)
             /\ Len(h) = Len(got) + n /\ Len(h) <= wanted
             /\ Len(h) - Len(got) + 1 = n + 1
             /\ SubSeq(wire, n + 1, Len(wire)) \in Seq(Byte)
             /\ Len(SubSeq(wire, n + 1, Len(wire))) = Len(wire) - n
             /\ \A j \in 1..Len(wire) - n : SubSeq(wire, n + 1, Len(wire))[j] = wire[n + j]
             /\ \A j \in 1..n : h[Len(got) + j] = wire[j]
             /\ \A j \in 1..Len(got) : h[j] = got[j]
<1>1. PICK n \in 1..Len(wire) \cap 1..wanted - Len(got) :
           h = got \o SubSeq(wire, 1, n)
  BY DEF Arrivals
<1>2. n \in 1..Len(wire) /\ n <= wanted - Len(got) /\ Len(got) \in Nat
  BY <1>1
<1>3. /\ SubSeq(wire, 1, n) \in Seq(Byte) /\ Len(SubSeq(wire, 1, n)) = n
      /\ \A j \in 1..n : SubSeq(wire, 1, n)[j] = wire[j]
  BY <1>2
<1>4. /\ SubSeq(wire, n + 1, Len(wire)) \in Seq(Byte)
      /\ Len(SubSeq(wire, n + 1, Len(wire))) = Len(wire) - n
      /\ \A j \in 1..Len(wire) - n : SubSeq(wire, n + 1, Len(wire))[j] = wire[n + j]
  BY <1>2, Dropped
<1>5. /\ h \in Seq(Byte) /\ Len(h) = Len(got) + n
      /\ Len(h) <= wanted /\ Len(h) - Len(got) + 1 = n + 1
  BY <1>1, <1>2, <1>3
<1>6. /\ \A j \in 1..n : h[Len(got) + j] = wire[j]
      /\ \A j \in 1..Len(got) : h[j] = got[j]
  BY <1>1, <1>2, <1>3
<1> QED
  BY <1>1, <1>2, <1>4, <1>5, <1>6

LEMMA WantedSizes ==
    /\ RestWanted \in Nat \ {0} /\ COM_MSG_SIZE \in Nat \ {0}
    /\ COM_MSG_SIZE < RestWanted
<1>1. RestWanted \in Nat \ {0}
  BY WireAssumption DEF RestWanted, SIZE_FIELD
<1>2. COM_MSG_SIZE \in Nat \ {0}
  BY WireAssumption
<1>3. COM_MSG_SIZE < RestWanted
  BY WireAssumption DEF RestWanted, SIZE_FIELD
<1> QED
  BY <1>1, <1>2, <1>3

LEMMA GarbageBound == GarbageSizes \subseteq 0..BODY_SIZE_MAX
<1>1. MSG_TYPE_SIZE \in Nat
  BY WireAssumption, SMT
<1>2. GarbageSizes \subseteq MSG_TYPE_SIZE..BODY_SIZE_MAX
  BY ReceiveAssumption, SMT
<1> QED
  BY <1>1, <1>2, SMT

LEMMA SlotNames == \A s \in Slots : s \in {"fresh", "null", "used"}
BY ReceiveAssumption, SMT

LEMMA EndingNames == \A e \in Endings : e \in {"closed", "reset"}
BY ReceiveAssumption, SMT

LEMMA ReadingsAreKnown ==
    ASSUME NEW h \in Seq(Byte), Len(h) = COM_MSG_SIZE, NEW r \in Readings(h)
    PROVE  r = "general" \/ (r \in CommonTypes /\ CommonCode[r] \in {1, 2, 3})
<1>1. r = "general" \/ r \in CommonTypes
  BY DEF Readings, IsCommon
<1> QED
  BY <1>1 DEF CommonTypes, CommonCode

LEMMA SpelledIsSize ==
    ASSUME NEW h \in Seq(Byte), Len(h) = RestWanted
    PROVE  Spelled(h) \subseteq 0..BODY_SIZE_MAX
<1>1. h[1] \in Byte
  BY WantedSizes
<1>2. h[1][1] \in DOMAIN Script
  BY <1>1, ByteParts
<1>3. BodySize[Script[h[1][1]].type] \in 0..BODY_SIZE_MAX
  BY <1>2, ScriptMessage, WireAssumption
<1> QED
  BY <1>3, GarbageBound DEF Spelled

\* n bytes are taken from the front of w.
Shorter(w, rest, n) ==
    /\ rest \in Seq(Byte) /\ Len(rest) = Len(w) - n
    /\ \A j \in 1..Len(w) - n : rest[j] = w[n + j]

\* The bytes f+1 to u of message k are put behind w.
Longer(w, w2, k, f, u) ==
    /\ w2 \in Seq(Byte) /\ Len(w2) = Len(w) + (u - f)
    /\ \A j \in 1..Len(w) : w2[j] = w[j]
    /\ \A j \in 1..u-f : w2[Len(w) + j] = <<k, f + j>>

\* What the three loops do with the bytes that arrive.
ReadFrame(got, wanted, n, h) ==
    /\ n \in 1..Len(wire) /\ h \in Seq(Byte)
    /\ Len(h) = Len(got) + n /\ Len(h) <= wanted
    /\ \A j \in 1..n : h[Len(got) + j] = wire[j]
    /\ \A j \in 1..Len(got) : h[j] = got[j]
    /\ Shorter(wire, wire', n)
    /\ UNCHANGED <<written, ended>>

LEMMA Framed ==
    ASSUME NEW got \in Seq(Byte), wire \in Seq(Byte), NEW wanted \in Nat,
           NEW h \in Arrivals(got, wanted),
           wire' = SubSeq(wire, Len(h) - Len(got) + 1, Len(wire)), UNCHANGED zaurusVars
    PROVE  \E n \in 1..Len(wire) : ReadFrame(got, wanted, n, h)
<1>1. PICK n \in 1..Len(wire) :
        /\ h \in Seq(Byte)
        /\ Len(h) = Len(got) + n /\ Len(h) <= wanted
        /\ Len(h) - Len(got) + 1 = n + 1
        /\ SubSeq(wire, n + 1, Len(wire)) \in Seq(Byte)
        /\ Len(SubSeq(wire, n + 1, Len(wire))) = Len(wire) - n
        /\ \A j \in 1..Len(wire) - n : SubSeq(wire, n + 1, Len(wire))[j] = wire[n + j]
        /\ \A j \in 1..n : h[Len(got) + j] = wire[j]
        /\ \A j \in 1..Len(got) : h[j] = got[j]
  BY Arriving
<1>2. wire' = SubSeq(wire, n + 1, Len(wire))
  BY <1>1
<1>3. UNCHANGED <<written, ended>>
  BY DEF zaurusVars
<1> QED
  BY <1>1, <1>2, <1>3 DEF ReadFrame, Shorter

LEMMA ReadCommonFrame ==
    ASSUME header \in Seq(Byte), wire \in Seq(Byte), ReadCommon
    PROVE  /\ phase = "common"
           /\ \E h, n :
                /\ ReadFrame(header, COM_MSG_SIZE, n, h)
                /\ \/ /\ Len(h) < COM_MSG_SIZE /\ header' = h
                      /\ UNCHANGED <<phase, slot, buff, bodySize, returned>>
                   \/ /\ Len(h) = COM_MSG_SIZE /\ "general" \in Readings(h)
                      /\ header' = h /\ phase' = "rest"
                      /\ UNCHANGED <<slot, buff, bodySize, returned>>
                   \/ /\ Len(h) = COM_MSG_SIZE
                      /\ \E r \in Readings(h) \ {"general"} : Return(CommonCode[r], h)
<1>1. PICK h \in Arrivals(header, COM_MSG_SIZE) :
        /\ wire' = SubSeq(wire, Len(h) - Len(header) + 1, Len(wire))
        /\ IF Len(h) < COM_MSG_SIZE
           THEN header' = h /\ UNCHANGED <<phase, slot, buff, bodySize, returned>>
           ELSE \E r \in Readings(h) :
                  IF r = "general"
                  THEN /\ header' = h /\ phase' = "rest"
                       /\ UNCHANGED <<slot, buff, bodySize, returned>>
                  ELSE Return(CommonCode[r], h)
  BY DEF ReadCommon
<1>2. PICK n \in 1..Len(wire) : ReadFrame(header, COM_MSG_SIZE, n, h)
  BY <1>1, Framed, WantedSizes DEF ReadCommon
<1>3. Len(h) \in Nat /\ Len(h) <= COM_MSG_SIZE /\ COM_MSG_SIZE \in Nat
  BY <1>2, WantedSizes DEF ReadFrame
<1>4. phase = "common"
  BY DEF ReadCommon
<1>5. CASE Len(h) < COM_MSG_SIZE
  BY <1>1, <1>2, <1>4, <1>5
<1>6. CASE ~(Len(h) < COM_MSG_SIZE)
  <2>1. Len(h) = COM_MSG_SIZE
    BY <1>3, <1>6
  <2>2. PICK r \in Readings(h) :
          IF r = "general"
          THEN /\ header' = h /\ phase' = "rest"
               /\ UNCHANGED <<slot, buff, bodySize, returned>>
          ELSE Return(CommonCode[r], h)
    BY <1>1, <1>6
  <2> QED
    BY <1>2, <1>4, <2>1, <2>2
<1> QED
  BY <1>5, <1>6

LEMMA ReadRestFrame ==
    ASSUME header \in Seq(Byte), wire \in Seq(Byte), ReadRest
    PROVE  /\ phase = "rest"
           /\ \E h, n :
                /\ ReadFrame(header, RestWanted, n, h)
                /\ \/ /\ Len(h) < RestWanted /\ header' = h
                      /\ UNCHANGED <<phase, slot, buff, bodySize, returned>>
                   \/ /\ Len(h) = RestWanted /\ header' = h /\ phase' = "body"
                      /\ bodySize' \in Spelled(h) /\ UNCHANGED <<slot, buff, returned>>
                   \/ Return(-4, <<>>)
<1>1. PICK h \in Arrivals(header, RestWanted) :
        /\ wire' = SubSeq(wire, Len(h) - Len(header) + 1, Len(wire))
        /\ IF Len(h) < RestWanted
           THEN header' = h /\ UNCHANGED <<phase, slot, buff, bodySize, returned>>
           ELSE \/ /\ header' = h /\ phase' = "body" /\ bodySize' \in Spelled(h)
                   /\ UNCHANGED <<slot, buff, returned>>
                \/ "buffer" \in Failures /\ Return(-4, <<>>)
  BY DEF ReadRest
<1>2. PICK n \in 1..Len(wire) : ReadFrame(header, RestWanted, n, h)
  BY <1>1, Framed, WantedSizes DEF ReadRest
<1>3. Len(h) \in Nat /\ Len(h) <= RestWanted /\ RestWanted \in Nat
  BY <1>2, WantedSizes DEF ReadFrame
<1>4. phase = "rest"
  BY DEF ReadRest
<1>5. CASE Len(h) < RestWanted
  BY <1>1, <1>2, <1>4, <1>5
<1>6. CASE ~(Len(h) < RestWanted)
  <2>1. Len(h) = RestWanted
    BY <1>3, <1>6
  <2> QED
    BY <1>1, <1>2, <1>4, <1>6, <2>1
<1> QED
  BY <1>5, <1>6

LEMMA ReadBodyFrame ==
    ASSUME buff \in Seq(Byte), wire \in Seq(Byte), bodySize \in 0..BODY_SIZE_MAX,
           slot \in Slots, ReadBody
    PROVE  /\ phase = "body"
           /\ \E b, n :
                /\ ReadFrame(buff, BodyWanted, n, b)
                /\ \/ /\ Len(b) < BodyWanted /\ buff' = b
                      /\ UNCHANGED <<phase, slot, header, bodySize, returned>>
                   \/ /\ Len(b) = BodyWanted
                      /\ \E code \in {-14, -9, -6, -5, 0} : Return(code, header \o b)
<1>1. PICK b \in Arrivals(buff, BodyWanted) :
        /\ wire' = SubSeq(wire, Len(b) - Len(buff) + 1, Len(wire))
        /\ IF Len(b) < BodyWanted
           THEN buff' = b /\ UNCHANGED <<phase, slot, header, bodySize, returned>>
           ELSE \E code \in Verdicts(bodySize) : Return(code, header \o b)
  BY DEF ReadBody
<1>0. BodyWanted \in Nat
  BY DEF BodyWanted, SIZE_FIELD
<1>2. PICK n \in 1..Len(wire) : ReadFrame(buff, BodyWanted, n, b)
  BY <1>0, <1>1, Framed DEF ReadBody
<1>3. Len(b) \in Nat /\ Len(b) <= BodyWanted
  BY <1>2 DEF ReadFrame
<1>4. phase = "body"
  BY DEF ReadBody
<1>5. CASE Len(b) < BodyWanted
  BY <1>1, <1>2, <1>4, <1>5
<1>6. CASE ~(Len(b) < BodyWanted)
  <2>1. Len(b) = BodyWanted
    BY <1>0, <1>3, <1>6
  <2>2. PICK code \in Verdicts(bodySize) : Return(code, header \o b)
    BY <1>1, <1>6
  <2>3. code \in {-14, -9, -6, -5, 0}
    <3>1. slot \in {"fresh", "null", "used"}
      BY SlotNames
    <3> QED
      BY <2>2, <3>1 DEF Verdicts
  <2> QED
    BY <1>2, <1>4, <2>1, <2>2, <2>3
<1> QED
  BY <1>5, <1>6
-----------------------------------------------------------------------------
(***************************************************************************)
(* Types.                                                                  *)
(***************************************************************************)
LEMMA ReturnTyped ==
    ASSUME returned \in Seq([code: Codes, bytes: Seq(Byte)]),
           NEW c \in Codes, NEW b \in Seq(Byte), Return(c, b)
    PROVE  /\ phase' = "idle" /\ header' = <<>> /\ buff' = <<>>
           /\ bodySize' = 0 /\ slot' = "none"
           /\ returned' = Append(returned, [code |-> c, bytes |-> b])
           /\ returned' \in Seq([code: Codes, bytes: Seq(Byte)])
<1>1. [code |-> c, bytes |-> b] \in [code: Codes, bytes: Seq(Byte)]
  OBVIOUS
<1>2. returned' = Append(returned, [code |-> c, bytes |-> b])
  BY DEF Return
<1>3. returned' \in Seq([code: Codes, bytes: Seq(Byte)])
  BY <1>1, <1>2, AppendProperties
<1> QED
  BY <1>2, <1>3 DEF Return

CallTyped ==
    /\ phase \in {"idle", "common", "rest", "body"}
    /\ slot \in Slots \cup {"none"}
    /\ header \in Seq(Byte) /\ buff \in Seq(Byte)
    /\ bodySize \in 0..BODY_SIZE_MAX
    /\ returned \in Seq([code: Codes, bytes: Seq(Byte)])
    /\ phase # "idle" => slot # "none"     \* a call has its p_msg

Typed == TypeOK /\ CallTyped

LEMMA ReturnCallTyped ==
    ASSUME CallTyped, NEW c \in Codes, NEW b \in Seq(Byte), Return(c, b)
    PROVE  CallTyped'
<1>1. /\ phase' = "idle" /\ header' = <<>> /\ buff' = <<>>
      /\ bodySize' = 0 /\ slot' = "none"
      /\ returned' \in Seq([code: Codes, bytes: Seq(Byte)])
  BY ReturnTyped DEF CallTyped
<1>2. 0 \in 0..BODY_SIZE_MAX
  BY SMT DEF BODY_SIZE_MAX
<1> QED
  BY <1>1, <1>2 DEF CallTyped

\* A loop that goes on, or hands over to the next, keeps its types.
LEMMA ReadOn ==
    ASSUME CallTyped, header' \in Seq(Byte), buff' \in Seq(Byte),
           bodySize' \in 0..BODY_SIZE_MAX, phase # "idle",
           phase' \in {"common", "rest", "body"}, UNCHANGED <<slot, returned>>
    PROVE  CallTyped'
BY DEF CallTyped

LEMMA ReadTyped == ASSUME Typed, Read PROVE CallTyped'
<1>a. CallTyped /\ wire \in Seq(Byte) /\ header \in Seq(Byte) /\ buff \in Seq(Byte)
  BY DEF Typed, TypeOK
<1>b. <<>> \in Seq(Byte)
  OBVIOUS
<1>1. CASE ReadCommon
  <2>1. PICK h, n :
          /\ ReadFrame(header, COM_MSG_SIZE, n, h)
          /\ \/ /\ Len(h) < COM_MSG_SIZE /\ header' = h
                /\ UNCHANGED <<phase, slot, buff, bodySize, returned>>
             \/ /\ Len(h) = COM_MSG_SIZE /\ "general" \in Readings(h)
                /\ header' = h /\ phase' = "rest"
                /\ UNCHANGED <<slot, buff, bodySize, returned>>
             \/ /\ Len(h) = COM_MSG_SIZE
                /\ \E r \in Readings(h) \ {"general"} : Return(CommonCode[r], h)
    BY <1>1, <1>a, ReadCommonFrame
  <2>2. h \in Seq(Byte) /\ phase = "common"
    BY <1>1, <2>1 DEF ReadFrame, ReadCommon
  <2>3. CASE header' = h /\ phase' \in {"common", "rest"} /\ UNCHANGED <<slot, buff, bodySize, returned>>
    <3>1. bodySize \in 0..BODY_SIZE_MAX /\ buff \in Seq(Byte)
      BY <1>a DEF CallTyped
    <3> QED
      BY <1>a, <2>2, <2>3, <3>1, ReadOn
  <2>4. ASSUME NEW r \in Readings(h) \ {"general"}, Len(h) = COM_MSG_SIZE,
               Return(CommonCode[r], h)
        PROVE  CallTyped'
    <3>1. CommonCode[r] \in Codes
      BY <2>2, <2>4, ReadingsAreKnown DEF Codes
    <3> QED
      BY <1>a, <2>2, <2>4, <3>1, ReturnCallTyped
  <2> QED
    BY <2>1, <2>2, <2>3, <2>4
<1>2. CASE ReadRest
  <2>1. PICK h, n :
          /\ ReadFrame(header, RestWanted, n, h)
          /\ \/ /\ Len(h) < RestWanted /\ header' = h
                /\ UNCHANGED <<phase, slot, buff, bodySize, returned>>
             \/ /\ Len(h) = RestWanted /\ header' = h /\ phase' = "body"
                /\ bodySize' \in Spelled(h) /\ UNCHANGED <<slot, buff, returned>>
             \/ Return(-4, <<>>)
    BY <1>2, <1>a, ReadRestFrame
  <2>2. h \in Seq(Byte) /\ phase = "rest"
    BY <1>2, <2>1 DEF ReadFrame, ReadRest
  <2>3. CASE header' = h /\ UNCHANGED <<phase, slot, buff, bodySize, returned>>
    <3>1. bodySize \in 0..BODY_SIZE_MAX /\ buff \in Seq(Byte)
      BY <1>a DEF CallTyped
    <3> QED
      BY <1>a, <2>2, <2>3, <3>1, ReadOn
  <2>4. CASE /\ Len(h) = RestWanted /\ header' = h /\ phase' = "body"
             /\ bodySize' \in Spelled(h) /\ UNCHANGED <<slot, buff, returned>>
    <3>1. bodySize' \in 0..BODY_SIZE_MAX
      BY <2>2, <2>4, SpelledIsSize
    <3> QED
      BY <1>a, <2>2, <2>4, <3>1, ReadOn
  <2>5. CASE Return(-4, <<>>)
    <3>1. -4 \in Codes
      BY DEF Codes
    <3> QED
      BY <1>a, <1>b, <2>5, <3>1, ReturnCallTyped
  <2> QED
    BY <2>1, <2>3, <2>4, <2>5
<1>3. CASE ReadBody
  <2>1. bodySize \in 0..BODY_SIZE_MAX /\ slot \in Slots /\ phase = "body"
    BY <1>3, <1>a DEF CallTyped, ReadBody
  <2>2. PICK b, n :
          /\ ReadFrame(buff, BodyWanted, n, b)
          /\ \/ /\ Len(b) < BodyWanted /\ buff' = b
                /\ UNCHANGED <<phase, slot, header, bodySize, returned>>
             \/ /\ Len(b) = BodyWanted
                /\ \E code \in {-14, -9, -6, -5, 0} : Return(code, header \o b)
    BY <1>3, <1>a, <2>1, ReadBodyFrame
  <2>3. b \in Seq(Byte)
    BY <2>2 DEF ReadFrame
  <2>4. CASE buff' = b /\ UNCHANGED <<phase, slot, header, bodySize, returned>>
    BY <1>a, <2>1, <2>3, <2>4, ReadOn
  <2>5. ASSUME NEW code \in {-14, -9, -6, -5, 0}, Return(code, header \o b) PROVE CallTyped'
    <3>1. code \in Codes
      BY DEF Codes
    <3>2. header \o b \in Seq(Byte)
      BY <1>a, <2>3
    <3> QED
      BY <1>a, <2>5, <3>1, <3>2, ReturnCallTyped
  <2> QED
    BY <2>2, <2>4, <2>5
<1>4. CASE ReadClosed
  <2>1. ClosedCode(TotBytesRead) \in Codes
    BY DEF ClosedCode, Codes
  <2> QED
    BY <1>a, <1>b, <1>4, <2>1, ReturnCallTyped DEF ReadClosed
<1>5. CASE ReadError
  <2>1. -3 \in Codes
    BY DEF Codes
  <2> QED
    BY <1>a, <1>b, <1>5, <2>1, ReturnCallTyped DEF ReadError
<1> QED
  BY <1>1, <1>2, <1>3, <1>4, <1>5 DEF Read

\* The other end writes messages to their end, one after the other.
WriteTyped ==
    /\ written \in Nat \X Nat /\ written[1] \in 1..Len(Script) + 1
    /\ written[1] \in DOMAIN Script => written[2] < SizeOf(written[1])
    /\ written[1] \notin DOMAIN Script => written[2] = 0
    /\ ended \in {"open", "closed", "reset"}
    /\ wire \in Seq(Byte)
-----------------------------------------------------------------------------
(***************************************************************************)
(* The stream.                                                             *)
(***************************************************************************)
\* The byte that follows b.
After(b) == IF b[2] < SizeOf(b[1]) THEN <<b[1], b[2] + 1>> ELSE <<b[1] + 1, 1>>

\* The bytes of a message follow each other, and the first of the next message
\* follows the last.
Laid(w) ==
    /\ \A j \in 1..Len(w), d \in Nat :
         j + d <= Len(w) /\ w[j][2] + d <= SizeOf(w[j][1])
           => w[j + d] = <<w[j][1], w[j][2] + d>>
    /\ \A j \in 1..Len(w) :
         j + 1 <= Len(w) /\ w[j][2] = SizeOf(w[j][1])
           => w[j + 1] = <<w[j][1] + 1, 1>>

\* w is what lies between two places of the stream.
Stream(w, from, to) ==
    /\ Laid(w)
    /\ w # <<>> => w[1] = from /\ After(w[Len(w)]) = to

\* The message the call under way takes, or the next call.
Here == Len(returned) + 1

\* The bytes it has of it.
Taken == Len(header) + Len(buff)

\* The place the next byte is read from, and the one it is written to.
ReadAt  == <<Here, Taken + 1>>
WriteAt == <<written[1], written[2] + 1>>

\* What the call has of its message, by the loop it is in.
ReadSoFar ==
    /\ \A i \in DOMAIN header : header[i] = <<Here, i>>
    /\ \A i \in DOMAIN buff : buff[i] = <<Here, RestWanted + i>>
    /\ phase = "idle" => header = <<>>
    /\ phase = "common" => Len(header) < COM_MSG_SIZE
    /\ phase \in {"rest", "body"} => Here \in DOMAIN Script /\ ~IsCommon(Script[Here])
    /\ phase = "rest" => COM_MSG_SIZE <= Len(header) /\ Len(header) < RestWanted
    /\ phase = "body" => /\ Len(header) = RestWanted
                         /\ bodySize = BodySize[Script[Here].type]
                         /\ Len(buff) < BodyWanted
    /\ phase # "body" => buff = <<>>

\* What is on the wire begins where the call stopped reading and ends where
\* the Zaurus stopped writing; nothing in between is missing, unless a reset
\* took all of it.
OnTheWire ==
    /\ Stream(wire, ReadAt, WriteAt)
    /\ wire = <<>> /\ ended # "reset" => ReadAt = WriteAt
    /\ Here <= written[1]
    /\ \A j \in DOMAIN wire : wire[j][1] <= written[1]

InPlace == InStep => ReadSoFar /\ OnTheWire

\* The end of the stream is reported when there is one.
EndSeen == ended = "open" => \A i \in DOMAIN returned : returned[i].code \notin {-2, -1}

ReceiveInv ==
    Typed /\ WriteTyped /\ InPlace /\ EndSeen /\ EachCallItsMessage /\ ClosedInsideReported

\* rest is what is left of the stream w when n bytes of message k are read.
TakesOff(w, rest, n, k, i, to) ==
    /\ w \in Seq(Byte) /\ n \in 1..Len(w) /\ Shorter(w, rest, n)
    /\ i \in Nat \ {0} /\ i + n - 1 <= SizeOf(k) /\ Stream(w, <<k, i>>, to)

\* What holds then of the bytes taken and of those left.
TookOff(w, rest, n, k, i, to) ==
    /\ k \in DOMAIN Script
    /\ \A j \in 1..n : w[j] = <<k, i + j - 1>>
    /\ Stream(rest, After(<<k, i + n - 1>>), to)
    /\ rest = <<>> => to = After(<<k, i + n - 1>>)

LEMMA TakePiece ==
    ASSUME NEW w, NEW rest, NEW n, NEW k, NEW i, NEW to, TakesOff(w, rest, n, k, i, to)
    PROVE  TookOff(w, rest, n, k, i, to)
<1>0. /\ w \in Seq(Byte) /\ n \in 1..Len(w) /\ Shorter(w, rest, n)
      /\ i \in Nat \ {0} /\ i + n - 1 <= SizeOf(k) /\ Stream(w, <<k, i>>, to)
  BY DEF TakesOff
<1> USE <1>0
<1>1. w # <<>> /\ n \in Nat /\ n >= 1 /\ n <= Len(w) /\ Len(w) \in Nat /\ DOMAIN w = 1..Len(w)
  OBVIOUS
<1>2. w[1] = <<k, i>> /\ After(w[Len(w)]) = to /\ Laid(w)
  BY <1>1 DEF Stream
<1>3. k \in DOMAIN Script
  <2>1. w[1] \in Byte
    BY <1>1
  <2> QED
    BY <1>2, <2>1, ByteParts
<1>4. SizeOf(k) \in Nat
  BY <1>3, Sizes
<1>b. i + n - 1 \in Nat /\ i \in Nat
  BY <1>1
<1>5. \A j \in 1..n : w[j] = <<k, i + j - 1>>
  <2> SUFFICES ASSUME NEW j \in 1..n PROVE w[j] = <<k, i + j - 1>>
    OBVIOUS
  <2>1. 1 \in 1..Len(w) /\ j - 1 \in Nat /\ 1 + (j - 1) = j /\ 1 + (j - 1) <= Len(w)
    BY <1>1
  <2>2. w[1][1] = k /\ w[1][2] = i
    BY <1>2
  <2>3. w[1][2] + (j - 1) <= SizeOf(w[1][1])
    BY <1>1, <1>4, <2>2
  <2>4. w[1 + (j - 1)] = <<w[1][1], w[1][2] + (j - 1)>>
    BY <1>2, <2>1, <2>3 DEF Laid
  <2> QED
    BY <2>1, <2>2, <2>4
<1>6. /\ Len(rest) = Len(w) - n /\ DOMAIN rest = 1..Len(w) - n
      /\ rest \in Seq(Byte)
      /\ \A j \in 1..Len(w) - n : rest[j] = w[n + j]
  BY DEF Shorter
<1>7. Laid(rest)
  <2>1. ASSUME NEW j \in 1..Len(rest), NEW d \in Nat, j + d <= Len(rest),
               rest[j][2] + d <= SizeOf(rest[j][1])
        PROVE  rest[j + d] = <<rest[j][1], rest[j][2] + d>>
    <3>0. j \in 1..Len(w) - n /\ j + d \in 1..Len(w) - n
      BY <1>6, <2>1
    <3>1. /\ n + j \in 1..Len(w) /\ (n + j) + d <= Len(w) /\ n + (j + d) = (n + j) + d
          /\ rest[j] = w[n + j] /\ rest[j + d] = w[(n + j) + d]
      BY <1>1, <1>6, <2>1, <3>0
    <3> QED
      BY <1>2, <2>1, <3>1 DEF Laid
  <2>2. ASSUME NEW j \in 1..Len(rest), j + 1 <= Len(rest),
               rest[j][2] = SizeOf(rest[j][1])
        PROVE  rest[j + 1] = <<rest[j][1] + 1, 1>>
    <3>0. j \in 1..Len(w) - n /\ j + 1 \in 1..Len(w) - n
      BY <1>6, <2>2
    <3>a. rest[j] = w[n + j] /\ rest[j + 1] = w[n + (j + 1)]
      BY <1>6, <3>0
    <3>1. /\ n + j \in 1..Len(w) /\ (n + j) + 1 <= Len(w) /\ n + (j + 1) = (n + j) + 1
          /\ rest[j] = w[n + j] /\ rest[j + 1] = w[(n + j) + 1]
      <4>1. n + j \in 1..Len(w) /\ (n + j) + 1 <= Len(w) /\ n + (j + 1) = (n + j) + 1
        BY <1>1, <3>0
      <4> QED
        BY <3>a, <4>1
    <3> QED
      BY <1>2, <2>2, <3>1 DEF Laid
  <2> QED
    BY <2>1, <2>2 DEF Laid
<1>8. w[n] = <<k, i + n - 1>>
  BY <1>1, <1>5
<1>9. rest # <<>> => rest[1] = After(<<k, i + n - 1>>) /\ After(rest[Len(rest)]) = to
  <2> SUFFICES ASSUME rest # <<>>
               PROVE  rest[1] = After(<<k, i + n - 1>>) /\ After(rest[Len(rest)]) = to
    OBVIOUS
  <2>0. Len(w) - n >= 1
    BY <1>1, <1>6, EmptySeq
  <2>1. /\ n < Len(w) /\ rest[1] = w[n + 1] /\ rest[Len(rest)] = w[Len(w)]
        /\ n \in 1..Len(w) /\ n + 1 <= Len(w)
    BY <1>1, <1>6, <2>0
  <2>2. w[n][1] = k /\ w[n][2] = i + n - 1
    BY <1>8
  <2>3. CASE i + n - 1 < SizeOf(k)
    <3>a. w[n][2] + 1 <= SizeOf(w[n][1])
      BY <1>b, <1>4, <2>2, <2>3
    <3>b. w[n + 1] = <<w[n][1], w[n][2] + 1>>
      BY <1>2, <2>1, <3>a DEF Laid
    <3>1. w[n + 1] = <<k, i + n - 1 + 1>>
      BY <2>2, <3>b
    <3> QED
      BY <1>2, <2>1, <2>3, <3>1 DEF After
  <2>4. CASE i + n - 1 = SizeOf(k)
    <3>1. w[n + 1] = <<k + 1, 1>>
      BY <1>2, <2>1, <2>2, <2>4 DEF Laid
    <3>2. ~(i + n - 1 < SizeOf(k))
      BY <1>4, <2>4
    <3> QED
      BY <1>2, <2>1, <3>1, <3>2 DEF After
  <2>5. i + n - 1 < SizeOf(k) \/ i + n - 1 = SizeOf(k)
    BY <1>b, <1>4
  <2> QED
    BY <2>3, <2>4, <2>5
<1>10. rest = <<>> => to = After(<<k, i + n - 1>>)
  <2> SUFFICES ASSUME rest = <<>> PROVE to = After(<<k, i + n - 1>>)
    OBVIOUS
  <2>1. Len(rest) = 0
    BY EmptySeq
  <2>2. n = Len(w)
    <3> DEFINE L == Len(w)
    <3>1. L - n = 0 /\ L \in Nat /\ n \in Nat
      BY <1>1, <1>6, <2>1
    <3> HIDE DEF L
    <3>2. n = L
      BY <3>1
    <3> QED
      BY <3>2 DEF L
  <2> QED
    BY <1>2, <1>8, <2>2
<1> QED
  BY <1>3, <1>5, <1>6, <1>7, <1>9, <1>10 DEF Stream, TookOff

\* w2 is the stream w with a piece of message k written behind it.
Put(w, w2, from, k, f, u) ==
    /\ w \in Seq(Byte) /\ Longer(w, w2, k, f, u)
    /\ k \in DOMAIN Script /\ f \in Nat /\ u \in f+1 .. SizeOf(k) /\ f < SizeOf(k)
    /\ Stream(w, from, <<k, f + 1>>) /\ (w = <<>> => from = <<k, f + 1>>)

LEMMA PutPiece ==
    ASSUME NEW w, NEW w2, NEW from, NEW k, NEW f, NEW u, Put(w, w2, from, k, f, u)
    PROVE  /\ w2 # <<>>
           /\ Stream(w2, from, After(<<k, u>>))
           /\ \A j \in DOMAIN w2 : (j \in DOMAIN w /\ w2[j] = w[j]) \/ w2[j][1] = k
<1>0. /\ w \in Seq(Byte) /\ Longer(w, w2, k, f, u)
      /\ k \in DOMAIN Script /\ f \in Nat /\ u \in f+1 .. SizeOf(k) /\ f < SizeOf(k)
      /\ Stream(w, from, <<k, f + 1>>) /\ (w = <<>> => from = <<k, f + 1>>)
  BY DEF Put
<1> USE <1>0
<1>1. SizeOf(k) \in Nat /\ k \in Nat /\ u \in Nat /\ u > f /\ u <= SizeOf(k)
  <2>1. DOMAIN Script \subseteq Nat
    BY ReceiveAssumption, SMT
  <2> QED
    BY <2>1, Sizes
<1>4. /\ Len(w2) = Len(w) + (u - f) /\ Len(w) \in Nat
      /\ DOMAIN w2 = 1..Len(w2) /\ DOMAIN w = 1..Len(w)
      /\ \A j \in 1..Len(w) : w2[j] = w[j]
      /\ w2 \in Seq(Byte)
  BY DEF Longer
<1>3. Len(w) \in Nat /\ Len(w2) \in Nat /\ Len(w2) = Len(w) + (u - f) /\ u - f \in Nat /\ u - f >= 1
  BY <1>1, <1>4
<1>a. \A j \in 1..Len(w) : w2[j] = w[j]
  BY DEF Longer
<1>5. \A j \in Len(w)+1 .. Len(w2) : w2[j] = <<k, f + (j - Len(w))>>
  <2> SUFFICES ASSUME NEW j \in Len(w)+1 .. Len(w2)
               PROVE  w2[j] = <<k, f + (j - Len(w))>>
    OBVIOUS
  <2>1. j - Len(w) \in 1..u-f /\ Len(w) + (j - Len(w)) = j
    BY <1>1, <1>3
  <2>2. w2[Len(w) + (j - Len(w))] = <<k, f + (j - Len(w))>>
    BY <2>1 DEF Longer
  <2> QED
    BY <2>1, <2>2
<1>6. Laid(w)
  BY DEF Stream
<1>7. \A j \in 1..Len(w) : w[j][1] \in DOMAIN Script /\ w[j][2] \in Nat /\ SizeOf(w[j][1]) \in Nat
                          /\ w[j][2] <= SizeOf(w[j][1]) /\ w[j][1] \in Nat
  <2> SUFFICES ASSUME NEW j \in 1..Len(w)
               PROVE  w[j][1] \in DOMAIN Script /\ w[j][2] \in Nat /\ SizeOf(w[j][1]) \in Nat
                      /\ w[j][2] <= SizeOf(w[j][1]) /\ w[j][1] \in Nat
    OBVIOUS
  <2>1. w[j] \in Byte
    OBVIOUS
  <2>2. w[j][1] \in DOMAIN Script /\ w[j][2] \in 1..SizeOf(w[j][1])
        /\ w[j][1] \in Nat /\ w[j][2] \in Nat /\ SizeOf(w[j][1]) \in Nat
    BY <2>1, ByteParts
  <2> QED
    BY <2>2
\* The last byte before the piece, and the first of it.
<1>8. ASSUME w # <<>>
      PROVE  LET b == w[Len(w)]
             IN  \/ b[2] < SizeOf(b[1]) /\ b[1] = k /\ b[2] = f
                 \/ b[2] = SizeOf(b[1]) /\ b[1] + 1 = k /\ f = 0
  <2> DEFINE b == w[Len(w)]
  <2>1. Len(w) \in 1..Len(w)
    BY <1>4, <1>8, EmptySeq
  <2>2. After(b) = <<k, f + 1>>
    BY <1>8 DEF Stream
  <2>3. b[2] \in Nat /\ SizeOf(b[1]) \in Nat /\ b[2] <= SizeOf(b[1]) /\ b[1] \in Nat
    BY <1>7, <2>1
  <2> HIDE DEF b
  <2>4. CASE b[2] < SizeOf(b[1])
    <3>1. <<b[1], b[2] + 1>> = <<k, f + 1>>
      BY <2>2, <2>4 DEF After
    <3>2. b[1] = k /\ b[2] + 1 = f + 1
      BY <3>1
    <3>3. b[2] = f
      BY <2>3, <3>2
    <3> QED
      BY <2>4, <3>2, <3>3 DEF b
  <2>5. CASE ~(b[2] < SizeOf(b[1]))
    <3>1. <<b[1] + 1, 1>> = <<k, f + 1>>
      BY <2>2, <2>5 DEF After
    <3>2. b[1] + 1 = k /\ 1 = f + 1
      BY <3>1
    <3>3. f = 0 /\ b[2] = SizeOf(b[1])
      BY <2>3, <2>5, <3>2
    <3> QED
      BY <3>2, <3>3 DEF b
  <2> QED
    BY <2>4, <2>5
<1>9. Laid(w2)
  <2>1. ASSUME NEW j \in 1..Len(w2), NEW d \in Nat, j + d <= Len(w2),
               w2[j][2] + d <= SizeOf(w2[j][1])
        PROVE  w2[j + d] = <<w2[j][1], w2[j][2] + d>>
    <3>1. CASE j + d <= Len(w)
      <4>1. j \in 1..Len(w) /\ j + d <= Len(w) /\ w2[j] = w[j] /\ w2[j + d] = w[j + d]
        <5>1. j \in 1..Len(w) /\ j + d \in 1..Len(w) /\ j + d <= Len(w)
          BY <1>3, <2>1, <3>1
        <5> QED
          BY <1>a, <5>1
      <4> QED
        BY <1>6, <2>1, <4>1 DEF Laid
    <3>2. CASE j > Len(w)
      <4>a. j \in Len(w)+1 .. Len(w2) /\ j + d \in Len(w)+1 .. Len(w2)
        BY <1>3, <2>1, <3>2
      <4>1. w2[j] = <<k, f + (j - Len(w))>> /\ w2[j + d] = <<k, f + (j + d - Len(w))>>
        BY <1>5, <4>a
      <4>2. f + (j + d - Len(w)) = f + (j - Len(w)) + d
        BY <1>3, <2>1
      <4> QED
        BY <4>1, <4>2
    <3>3. CASE j <= Len(w) /\ j + d > Len(w)
      <4>1. j \in 1..Len(w) /\ w2[j] = w[j] /\ w # <<>>
            /\ Len(w) - j \in Nat /\ j + (Len(w) - j) = Len(w) /\ Len(w) - j < d
        <5>1. w # <<>>
          BY <1>3, <2>1, <3>3, EmptySeq
        <5> QED
          BY <1>3, <1>a, <2>1, <3>3, <5>1
      <4>a. w[j][2] \in Nat /\ SizeOf(w[j][1]) \in Nat /\ w[j][2] + d <= SizeOf(w[j][1])
        BY <1>7, <2>1, <4>1
      <4> DEFINE a == w[j][2]  e == Len(w) - j  z == SizeOf(w[j][1])
      <4>b. a \in Nat /\ e \in Nat /\ z \in Nat /\ a + d <= z /\ e < d
        BY <4>1, <4>a
      <4> HIDE DEF a, e, z
      <4>c. a + e < z
        BY <4>b
      <4>2. w[j][2] + (Len(w) - j) < SizeOf(w[j][1])
        BY <4>c DEF a, e, z
      <4>d. w[j][2] + (Len(w) - j) <= SizeOf(w[j][1])
        BY <4>b, <4>c DEF a, e, z
      <4>e. w[j + (Len(w) - j)] = <<w[j][1], w[j][2] + (Len(w) - j)>>
        BY <1>4, <1>6, <4>1, <4>d DEF Laid
      <4>3. w[Len(w)] = <<w[j][1], w[j][2] + (Len(w) - j)>>
        BY <4>1, <4>e
      <4>4. w[Len(w)][1] = w[j][1] /\ w[Len(w)][2] = w[j][2] + (Len(w) - j)
        BY <4>3
      <4>5. w[j][1] = k /\ w[j][2] + (Len(w) - j) = f
        BY <1>8, <4>1, <4>2, <4>4, <4>a
      <4>h. j + d \in Len(w)+1 .. Len(w2)
        BY <1>3, <2>1, <3>3
      <4>6. w2[j + d] = <<k, f + (j + d - Len(w))>>
        BY <1>5, <4>h
      <4>f. a + e = f /\ j \in Nat /\ j + d - Len(w) = d - e
        BY <1>3, <2>1, <4>5 DEF a, e
      <4>g. f + (d - e) = a + d
        BY <4>b, <4>f
      <4>7. f + (j + d - Len(w)) = w[j][2] + d
        BY <4>f, <4>g DEF a
      <4> QED
        BY <4>1, <4>5, <4>6, <4>7
    <3>4. j + d <= Len(w) \/ j > Len(w) \/ (j <= Len(w) /\ j + d > Len(w))
      BY <1>3, <2>1
    <3> QED
      BY <3>1, <3>2, <3>3, <3>4
  <2>2. ASSUME NEW j \in 1..Len(w2), j + 1 <= Len(w2), w2[j][2] = SizeOf(w2[j][1])
        PROVE  w2[j + 1] = <<w2[j][1] + 1, 1>>
    <3>1. CASE j + 1 <= Len(w)
      <4>1. j \in 1..Len(w) /\ j + 1 <= Len(w) /\ w2[j] = w[j] /\ w2[j + 1] = w[j + 1]
        BY <1>3, <1>a, <2>2, <3>1
      <4> QED
        BY <1>6, <2>2, <4>1 DEF Laid
    <3>2. CASE j > Len(w)
      <4>1. w2[j] = <<k, f + (j - Len(w))>> /\ j + 1 <= Len(w) + (u - f)
        <5>1. j \in Len(w)+1 .. Len(w2)
          BY <1>3, <2>2, <3>2
        <5> QED
          BY <1>3, <1>5, <2>2, <5>1
      <4>2. f + (j - Len(w)) = SizeOf(k)
        BY <2>2, <4>1
      <4> QED
        BY <1>1, <1>3, <2>2, <4>1, <4>2
    <3>3. CASE j = Len(w)
      <4>1. w # <<>> /\ w2[j] = w[j]
        <5>1. w # <<>>
          BY <1>3, <2>2, <3>3, EmptySeq
        <5> QED
          BY <1>3, <1>a, <2>2, <3>3, <5>1
      <4>2. w[j][1] + 1 = k /\ f = 0
        BY <1>1, <1>8, <2>2, <3>3, <4>1
      <4>3. w2[j + 1] = <<k, f + 1>>
        <5>1. Len(w) + 1 \in Len(w)+1 .. Len(w2) /\ Len(w) + 1 - Len(w) = 1
          BY <1>3
        <5>2. w2[Len(w) + 1] = <<k, f + (Len(w) + 1 - Len(w))>>
          BY <1>5, <5>1
        <5> QED
          BY <3>3, <5>1, <5>2
      <4> QED
        BY <4>1, <4>2, <4>3
    <3>4. j + 1 <= Len(w) \/ j > Len(w) \/ j = Len(w)
      BY <1>3, <2>2
    <3> QED
      BY <3>1, <3>2, <3>3, <3>4
  <2> QED
    BY <2>1, <2>2 DEF Laid
<1>10. w2 # <<>> /\ w2[1] = from
  <2>1. w2 # <<>>
    BY <1>3, EmptySeq
  <2>2. CASE w = <<>>
    <3>1. Len(w) = 0
      BY <2>2, EmptySeq
    <3>2. 1 \in Len(w)+1 .. Len(w2) /\ f + (1 - Len(w)) = f + 1
      BY <1>3, <3>1
    <3> QED
      BY <1>5, <2>1, <2>2, <3>2
  <2>3. CASE w # <<>>
    <3>1. 1 \in 1..Len(w)
      BY <2>3, EmptySeq
    <3>2. w[1] = from
      BY <2>3 DEF Stream
    <3> QED
      BY <1>a, <2>1, <3>1, <3>2
  <2> QED
    BY <2>2, <2>3
<1>11. w2[Len(w2)] = <<k, u>>
  <2>1. Len(w2) \in Len(w)+1 .. Len(w2) /\ f + (Len(w2) - Len(w)) = u
    BY <1>1, <1>3
  <2> QED
    BY <1>5, <2>1
<1>12. \A j \in DOMAIN w2 : (j \in DOMAIN w /\ w2[j] = w[j]) \/ w2[j][1] = k
  <2> SUFFICES ASSUME NEW j \in 1..Len(w2)
               PROVE  (j \in 1..Len(w) /\ w2[j] = w[j]) \/ w2[j][1] = k
    BY <1>4
  <2>1. j \in 1..Len(w) \/ j \in Len(w)+1 .. Len(w2)
    BY <1>3
  <2> QED
    BY <1>a, <1>5, <2>1
<1> QED
  BY <1>9, <1>10, <1>11, <1>12 DEF Stream
-----------------------------------------------------------------------------
(***************************************************************************)
(* A piece is written.                                                     *)
(***************************************************************************)
\* The bytes f+1 to u of message k.
Written(k, f, u) ==
    /\ k \in DOMAIN Script /\ f \in Nat /\ u \in f+1 .. SizeOf(k)
    /\ written = <<k, f>> /\ f < SizeOf(k) /\ ended = "open"
    /\ Longer(wire, wire', k, f, u)
    /\ written' = IF u = SizeOf(k) THEN <<k + 1, 0>> ELSE <<k, u>>
    /\ UNCHANGED <<ended, callVars, returned>>

LEMMA ScriptDomain ==
    /\ Script \in Seq(Message) /\ Len(Script) \in Nat
    /\ DOMAIN Script = 1..Len(Script) /\ DOMAIN Script \subseteq Nat
<1>1. Script \in Seq(Message)
  BY ReceiveAssumption, SMT
<1> QED
  BY <1>1

LEMMA WriteFrame ==
    ASSUME WriteTyped, Write
    PROVE  \E k, f, u : Written(k, f, u)
<1> DEFINE k == written[1]  f == written[2]
<1>1. /\ written = <<k, f>> /\ k \in DOMAIN Script /\ f \in Nat /\ f < SizeOf(k)
      /\ wire \in Seq(Byte)
  <2>1. /\ written = <<k, f>> /\ k \in 1..Len(Script) + 1 /\ f \in Nat /\ k \in Nat
        /\ k \in DOMAIN Script => f < SizeOf(k)
        /\ wire \in Seq(Byte)
    BY DEF WriteTyped
  <2>2. k <= Len(Script)
    BY DEF Write
  <2>3. k \in DOMAIN Script
    BY <2>1, <2>2, ScriptDomain
  <2> QED
    BY <2>1, <2>3
<1>2. PICK u \in f+1 .. SizeOf(k) :
        /\ wire' = wire \o SubSeq(Bytes(k), f + 1, u)
        /\ written' = IF u = SizeOf(k) THEN <<k + 1, 0>> ELSE <<k, u>>
  BY DEF Write
<1>3. ended = "open" /\ UNCHANGED <<ended, callVars, returned>>
  BY DEF Write
<1> HIDE DEF k, f
<1> DEFINE p == SubSeq(Bytes(k), f + 1, u)
<1>4. p \in Seq(Byte) /\ Len(p) = u - f /\ \A j \in 1..u-f : p[j] = <<k, f + j>>
  BY <1>1, <1>2, Piece
<1>5. wire' = wire \o p
  BY <1>2
<1> HIDE DEF p
<1> DEFINE w2 == wire \o p
<1>6. /\ w2 \in Seq(Byte) /\ Len(w2) = Len(wire) + Len(p)
      /\ \A j \in 1..Len(wire) : w2[j] = wire[j]
      /\ \A j \in 1..Len(p) : w2[Len(wire) + j] = p[j]
  <2>1. wire \in Seq(Byte) /\ p \in Seq(Byte)
    BY <1>1, <1>4
  <2> QED
    BY <2>1, Joined
<1>7. wire' = w2
  BY <1>5
<1> HIDE DEF w2
<1>8. Longer(wire, w2, k, f, u)
  BY <1>4, <1>6 DEF Longer
<1>9. Written(k, f, u)
  BY <1>1, <1>2, <1>3, <1>7, <1>8 DEF Written
<1> QED
  BY <1>9

LEMMA WriteStep ==
    ASSUME Typed, WriteTyped, InPlace, Write
    PROVE  WriteTyped' /\ InPlace'
<1>1. PICK k, f, u : Written(k, f, u)
  BY WriteFrame
<1>2. /\ k \in DOMAIN Script /\ f \in Nat /\ u \in f+1 .. SizeOf(k)
      /\ written = <<k, f>> /\ f < SizeOf(k) /\ ended = "open" /\ ended' = ended
      /\ wire' \in Seq(Byte) /\ Longer(wire, wire', k, f, u)
      /\ UNCHANGED <<callVars, returned>>
  BY <1>1 DEF Written, Longer
<1>3. SizeOf(k) \in Nat \ {0} /\ u \in Nat /\ u > f /\ u <= SizeOf(k)
  BY <1>2, Sizes
<1>4. k \in Nat /\ k <= Len(Script)
  BY <1>2, ScriptDomain
<1>5. WriteTyped' /\ WriteAt' = After(<<k, u>>) /\ k <= written'[1] /\ written'[1] \in Nat
  <2>1. CASE u = SizeOf(k)
    <3>1. written' = <<k + 1, 0>>
      BY <1>1, <2>1 DEF Written
    <3>2. k + 1 \in 1..Len(Script) + 1
      BY <1>4, ScriptDomain
    <3>3. k + 1 \in DOMAIN Script => 0 < SizeOf(k + 1)
      BY Sizes
    <3>4. ~(u < SizeOf(k)) /\ k <= k + 1
      BY <1>3, <1>4, <2>1
    <3> QED
      BY <1>2, <1>4, <3>1, <3>2, <3>3, <3>4 DEF WriteTyped, WriteAt, After
  <2>2. CASE u # SizeOf(k)
    <3>1. written' = <<k, u>>
      BY <1>1, <2>2 DEF Written
    <3>2. u < SizeOf(k)
      BY <1>3, <2>2
    <3>3. k \in 1..Len(Script) + 1
      BY <1>2, <1>4, ScriptDomain
    <3> QED
      BY <1>2, <1>3, <1>4, <3>1, <3>2, <3>3 DEF WriteTyped, WriteAt, After
  <2> QED
    BY <2>1, <2>2
<1>6. InPlace'
  <2> SUFFICES ASSUME InStep' PROVE ReadSoFar' /\ OnTheWire'
    BY DEF InPlace
  <2>1. InStep /\ ReadSoFar /\ OnTheWire /\ Here' = Here /\ ReadAt' = ReadAt
    BY <1>2 DEF InPlace, InStep, InStepBefore, Here, ReadAt, Taken, callVars
  <2>2. ReadSoFar'
    BY <1>2, <2>1 DEF ReadSoFar, callVars, BodyWanted
  <2>3. /\ Stream(wire, ReadAt, <<k, f + 1>>) /\ wire \in Seq(Byte)
        /\ wire = <<>> => ReadAt = <<k, f + 1>>
        /\ \A j \in DOMAIN wire : wire[j][1] <= k
        /\ Here <= k
    BY <1>2, <2>1 DEF OnTheWire, WriteAt, WriteTyped
  <2>4. /\ wire' # <<>> /\ Stream(wire', ReadAt, After(<<k, u>>))
        /\ \A j \in DOMAIN wire' : (j \in DOMAIN wire /\ wire'[j] = wire[j]) \/ wire'[j][1] = k
    <3>1. /\ k \in DOMAIN Script /\ f \in Nat /\ u \in f+1 .. SizeOf(k) /\ f < SizeOf(k)
          /\ Longer(wire, wire', k, f, u)
      BY <1>2
    <3>2. ASSUME NEW w2, Longer(wire, w2, k, f, u)
          PROVE  /\ w2 # <<>> /\ Stream(w2, ReadAt, After(<<k, u>>))
                 /\ \A j \in DOMAIN w2 : (j \in DOMAIN wire /\ w2[j] = wire[j]) \/ w2[j][1] = k
      <4>1. /\ wire \in Seq(Byte) /\ Stream(wire, ReadAt, <<k, f + 1>>)
            /\ wire = <<>> => ReadAt = <<k, f + 1>>
        BY <2>3
      <4>2. Put(wire, w2, ReadAt, k, f, u)
        BY <3>1, <3>2, <4>1 DEF Put
      <4> QED
        BY <4>2, PutPiece
    <3> QED
      BY <3>1, <3>2
  <2>5. \A j \in DOMAIN wire' : wire'[j][1] <= written'[1]
    <3> SUFFICES ASSUME NEW j \in DOMAIN wire' PROVE wire'[j][1] <= written'[1]
      OBVIOUS
    <3>1. wire'[j] \in Byte
      BY <1>2
    <3>2. wire'[j][1] \in Nat
      BY <3>1, ByteParts
    <3>3. wire'[j][1] <= k
      BY <1>4, <2>3, <2>4
    <3> QED
      BY <1>4, <1>5, <3>2, <3>3
  <2>6. Here \in Nat
    BY DEF Here, Typed, CallTyped
  <2>7. Here <= written'[1]
    BY <1>4, <1>5, <2>3, <2>6
  <2>8. Stream(wire', ReadAt', WriteAt')
    BY <1>5, <2>1, <2>4
  <2> QED
    BY <2>1, <2>2, <2>4, <2>5, <2>7, <2>8 DEF OnTheWire
<1> QED
  BY <1>5, <1>6
-----------------------------------------------------------------------------
(***************************************************************************)
(* A piece is read.                                                        *)
(***************************************************************************)
LEMMA HereNat == ASSUME CallTyped PROVE Here \in Nat \ {0} /\ Taken \in Nat
<1>1. header \in Seq(Byte) /\ buff \in Seq(Byte)
  BY DEF CallTyped
<1>2. returned \in Seq([code: Codes, bytes: Seq(Byte)])
  BY DEF CallTyped
<1>3. Here \in Nat \ {0}
  BY <1>2 DEF Here
<1>4. Taken \in Nat
  BY <1>1 DEF Taken
<1> QED
  BY <1>3, <1>4

\* What is read next belongs to the message the call is at.
LEMMA NextByte ==
    ASSUME OnTheWire, wire \in Seq(Byte), wire # <<>>
    PROVE  Here \in DOMAIN Script /\ Taken + 1 \in 1..SizeOf(Here)
<1>1. wire[1] \in Byte
  BY EmptySeq
<1>2. wire[1] = <<Here, Taken + 1>>
  BY DEF OnTheWire, Stream, ReadAt
<1> QED
  BY <1>1, <1>2, ByteParts

LEMMA Consumed ==
    ASSUME CallTyped, OnTheWire, wire \in Seq(Byte), NEW n \in 1..Len(wire),
           Taken + n <= SizeOf(Here), Shorter(wire, wire', n)
    PROVE  /\ Here \in DOMAIN Script
           /\ \A j \in 1..n : wire[j] = <<Here, Taken + j>>
           /\ Stream(wire', After(<<Here, Taken + n>>), WriteAt)
           /\ wire' = <<>> => WriteAt = After(<<Here, Taken + n>>)
<1> DEFINE i == Taken + 1
<1>1. i \in Nat \ {0} /\ n \in Nat /\ Taken \in Nat /\ i + n - 1 = Taken + n
  BY HereNat
<1>2. Stream(wire, <<Here, i>>, WriteAt)
  BY DEF OnTheWire, ReadAt
<1>3. i + n - 1 <= SizeOf(Here)
  BY <1>1
<1>4. \A j \in 1..n : i + j - 1 = Taken + j
  BY <1>1
<1> HIDE DEF i
<1>5. /\ Here \in DOMAIN Script
      /\ \A j \in 1..n : wire[j] = <<Here, i + j - 1>>
      /\ Stream(wire', After(<<Here, i + n - 1>>), WriteAt)
      /\ wire' = <<>> => WriteAt = After(<<Here, i + n - 1>>)
  <2>1. TakesOff(wire, wire', n, Here, i, WriteAt)
    BY <1>1, <1>2, <1>3 DEF TakesOff
  <2>2. TookOff(wire, wire', n, Here, i, WriteAt)
    BY <2>1, TakePiece
  <2> QED
    BY <2>2 DEF TookOff
<1> QED
  BY <1>1, <1>4, <1>5

\* The stream when a loop goes on, hands over or returns.
LEMMA WireAfter ==
    ASSUME CallTyped, OnTheWire, wire \in Seq(Byte), NEW n \in 1..Len(wire),
           Taken + n <= SizeOf(Here), Shorter(wire, wire', n), written \in Nat \X Nat,
           written' = written,
           ReadAt' = After(<<Here, Taken + n>>),
           Here' = Here \/ (Taken + n = SizeOf(Here) /\ Here' = Here + 1)
    PROVE  OnTheWire'
<1>1. /\ Here \in DOMAIN Script
      /\ Stream(wire', After(<<Here, Taken + n>>), WriteAt)
      /\ wire' = <<>> => WriteAt = After(<<Here, Taken + n>>)
  BY Consumed
<1>2. WriteAt' = WriteAt /\ WriteAt[1] = written[1] /\ written[1] \in Nat
  BY DEF WriteAt
<1>3. Stream(wire', ReadAt', WriteAt')
  BY <1>1, <1>2
<1>4. wire' = <<>> => ReadAt' = WriteAt'
  BY <1>1, <1>2
<1>5. \A j \in DOMAIN wire' : wire'[j][1] <= written'[1]
  <2> SUFFICES ASSUME NEW j \in DOMAIN wire' PROVE wire'[j][1] <= written'[1]
    OBVIOUS
  <2>1. /\ wire' \in Seq(Byte) /\ Len(wire') = Len(wire) - n /\ n \in Nat /\ n >= 1
        /\ Len(wire) \in Nat
    BY DEF Shorter
  <2>2. j \in 1..Len(wire) - n
    BY <2>1
  <2>3. wire'[j] = wire[n + j]
    BY <2>2 DEF Shorter
  <2>4. n + j \in DOMAIN wire
    BY <2>1, <2>2
  <2>5. wire[n + j][1] <= written[1]
    BY <2>4 DEF OnTheWire
  <2> QED
    BY <2>3, <2>5
<1>6. Here' <= written'[1]
  <2>1. Here \in Nat /\ Here <= written[1]
    BY HereNat DEF OnTheWire
  <2>2. CASE Here' = Here
    BY <2>1, <2>2
  <2>3. CASE Taken + n = SizeOf(Here) /\ Here' = Here + 1
    <3>1. After(<<Here, Taken + n>>) = <<Here + 1, 1>>
      <4>1. ~(Taken + n < SizeOf(Here))
        BY <1>1, <2>3, Sizes, HereNat
      <4> QED
        BY <4>1 DEF After
    <3>2. CASE wire' = <<>>
      <4>1. WriteAt[1] = Here + 1
        BY <1>1, <3>1, <3>2
      <4> QED
        BY <1>2, <2>1, <2>3, <4>1
    <3>3. CASE wire' # <<>>
      <4>1. wire'[1] = <<Here + 1, 1>>
        BY <1>1, <3>1, <3>3 DEF Stream
      <4>2. 1 \in DOMAIN wire'
        <5>1. wire' \in Seq(Byte)
          BY DEF Shorter
        <5> QED
          BY <3>3, <5>1, EmptySeq
      <4>3. wire'[1][1] <= written'[1]
        BY <1>5, <4>2
      <4> QED
        BY <2>3, <4>1, <4>3
    <3> QED
      BY <3>2, <3>3
  <2> QED
    BY <2>2, <2>3
<1> QED
  BY <1>3, <1>4, <1>5, <1>6 DEF OnTheWire

\* Bytes that are the first of a message.
LEMMA FirstBytes ==
    ASSUME NEW k \in DOMAIN Script, NEW h \in Seq(Byte), Len(h) >= 1, Len(h) <= SizeOf(k),
           \A i \in 1..Len(h) : h[i] = <<k, i>>
    PROVE  h = SubSeq(Bytes(k), 1, Len(h)) /\ h[1][1] = k
<1> DEFINE p == SubSeq(Bytes(k), 0 + 1, Len(h))
<1>1. Len(h) \in 0+1 .. SizeOf(k) /\ Len(h) \in Nat
  BY Sizes
<1>2. /\ p \in Seq(Byte) /\ Len(p) = Len(h) - 0
      /\ \A j \in 1..Len(h) - 0 : p[j] = <<k, 0 + j>>
  BY <1>1, Piece
<1>3. p = SubSeq(Bytes(k), 1, Len(h))
  OBVIOUS
<1> HIDE DEF p
<1>4. Len(p) = Len(h) /\ \A j \in 1..Len(h) : p[j] = h[j]
  <2>1. Len(h) - 0 = Len(h) /\ \A j \in 1..Len(h) : 0 + j = j
    BY <1>1
  <2>2. Len(p) = Len(h)
    BY <1>2, <2>1
  <2>3. ASSUME NEW j \in 1..Len(h) PROVE p[j] = h[j]
    <3>1. p[j] = <<k, 0 + j>> /\ 0 + j = j
      BY <1>2, <2>1
    <3> QED
      BY <3>1
  <2> QED
    BY <2>2, <2>3
<1>5. h = p
  BY <1>2, <1>4, SeqEqual
<1>6. h[1] = <<k, 1>>
  BY <1>1
<1> QED
  BY <1>3, <1>5, <1>6

LEMMA WholeMessage ==
    ASSUME NEW k \in DOMAIN Script, NEW h \in Seq(Byte), Len(h) = SizeOf(k),
           \A i \in 1..Len(h) : h[i] = <<k, i>>
    PROVE  h = Bytes(k)
<1>1. Bytes(k) \in Seq(Byte) /\ Len(Bytes(k)) = Len(h)
  BY BytesOf
<1>2. \A i \in 1..Len(h) : h[i] = Bytes(k)[i]
  BY BytesOf
<1> QED
  BY <1>1, <1>2, SeqEqual

LEMMA ReadingsInStep ==
    ASSUME NEW k \in DOMAIN Script, NEW h \in Seq(Byte), Len(h) = COM_MSG_SIZE,
           \A i \in 1..Len(h) : h[i] = <<k, i>>
    PROVE  Readings(h) = IF IsCommon(Script[k]) THEN {Script[k].type} ELSE {"general"}
<1>1. Len(h) >= 1 /\ Len(h) <= SizeOf(k)
  BY Sizes, WantedSizes
<1>2. h = SubSeq(Bytes(k), 1, COM_MSG_SIZE) /\ h[1][1] = k
  BY <1>1, FirstBytes
<1> QED
  BY <1>2 DEF Readings

LEMMA SpelledInStep ==
    ASSUME NEW k \in DOMAIN Script, NEW h \in Seq(Byte), Len(h) = RestWanted,
           ~IsCommon(Script[k]), \A i \in 1..Len(h) : h[i] = <<k, i>>
    PROVE  Spelled(h) = {BodySize[Script[k].type]}
<1>a. BodySize[Script[k].type] \in Nat /\ SizeOf(k) = RestWanted + BodySize[Script[k].type] + 2
  <2>1. BodySize[Script[k].type] \in MSG_TYPE_SIZE..BODY_SIZE_MAX
    BY Sizes
  <2>2. MSG_TYPE_SIZE \in Nat
    BY WireAssumption, SMT
  <2> QED
    BY <2>1, <2>2, Sizes
<1>1. Len(h) >= 1 /\ Len(h) <= SizeOf(k)
  BY <1>a, WantedSizes
<1>2. h = SubSeq(Bytes(k), 1, RestWanted) /\ h[1][1] = k
  BY <1>1, FirstBytes
<1>3. RestWanted = MSG_HDR_SIZE + SIZE_FIELD
  BY DEF RestWanted
<1> QED
  BY <1>2, <1>3 DEF Spelled
-----------------------------------------------------------------------------
(***************************************************************************)
(* The calls keep their place.                                             *)
(***************************************************************************)
\* The codes of calls that leave the stream in the middle of a message.
Lost == {-4, -3, -2, -1}

LEMMA ReturnFrame ==
    ASSUME CallTyped, NEW c \in Codes, NEW b \in Seq(Byte), Return(c, b)
    PROVE  /\ Len(returned') = Here /\ Here' = Here + 1 /\ ReadAt' = <<Here + 1, 1>>
           /\ DOMAIN returned = 1..Len(returned) /\ DOMAIN returned' = 1..Here
           /\ \A i \in 1..Len(returned) : returned'[i] = returned[i]
           /\ returned'[Here] = [code |-> c, bytes |-> b]
           /\ \A i \in 1..Here : InStepBefore(i)' = InStepBefore(i)
           /\ InStep' = (InStep /\ c \notin Lost)
<1>1. /\ returned \in Seq([code: Codes, bytes: Seq(Byte)])
      /\ returned' = Append(returned, [code |-> c, bytes |-> b])
      /\ header' = <<>> /\ buff' = <<>>
  BY DEF CallTyped, Return
<1>2. /\ Len(returned) \in Nat /\ Len(returned') = Len(returned) + 1
      /\ DOMAIN returned = 1..Len(returned) /\ DOMAIN returned' = 1..Len(returned) + 1
      /\ \A i \in 1..Len(returned) : returned'[i] = returned[i]
      /\ returned'[Len(returned) + 1] = [code |-> c, bytes |-> b]
  BY <1>1
<1>3. Len(returned') = Here /\ Here' = Here + 1 /\ Here = Len(returned) + 1
  BY <1>2 DEF Here
<1>4. ReadAt' = <<Here + 1, 1>>
  <2>1. Len(header') = 0 /\ Len(buff') = 0
    BY <1>1, EmptySeq
  <2> QED
    BY <1>3, <2>1 DEF ReadAt, Taken
<1>5. ASSUME NEW i \in 1..Here PROVE InStepBefore(i)' = InStepBefore(i)
  <2>1. \A j \in 1..i-1 : returned'[j] = returned[j]
    BY <1>2, <1>3
  <2> QED
    BY <2>1 DEF InStepBefore
<1>6. InStep' = (InStep /\ c \notin Lost)
  <2>1. InStep' <=> \A j \in 1..Here : returned'[j].code \notin Lost
    BY <1>2, <1>3 DEF InStep, InStepBefore, Lost
  <2>2. InStep <=> \A j \in 1..Len(returned) : returned[j].code \notin Lost
    BY <1>2 DEF InStep, InStepBefore, Lost
  <2>3. returned'[Here].code = c
    BY <1>2, <1>3
  <2>4. 1..Here = (1..Len(returned)) \cup {Here}
    BY <1>2, <1>3
  <2>5. (\A j \in 1..Here : returned'[j].code \notin Lost)
        <=> (\A j \in 1..Len(returned) : returned[j].code \notin Lost) /\ c \notin Lost
    BY <1>2, <2>3, <2>4
  <2> QED
    BY <2>1, <2>2, <2>5 DEF InStep, InStepBefore
<1> QED
  BY <1>2, <1>3, <1>4, <1>5, <1>6

\* A call that returns has taken its message or lost its place.
LEMMA ReturnStep ==
    ASSUME Typed, WriteTyped, InPlace, EachCallItsMessage,
           NEW c \in Codes, NEW b \in Seq(Byte), Return(c, b), written' = written,
           InStep /\ c \notin Lost =>
             /\ Here \in DOMAIN Script /\ b = Bytes(Here)
             /\ IF IsCommon(Script[Here]) THEN c = CommonCode[Script[Here].type]
                ELSE c \in {-14, -9, -6, -5, 0}
             /\ \E n \in 1..Len(wire) :
                  Taken + n = SizeOf(Here) /\ Shorter(wire, wire', n)
    PROVE  InPlace' /\ EachCallItsMessage'
<1>a. CallTyped /\ wire \in Seq(Byte) /\ written \in Nat \X Nat
  BY DEF Typed, WriteTyped
<1>b. /\ Len(returned') = Here /\ Here' = Here + 1 /\ ReadAt' = <<Here + 1, 1>>
      /\ DOMAIN returned = 1..Len(returned) /\ DOMAIN returned' = 1..Here
      /\ \A i \in 1..Len(returned) : returned'[i] = returned[i]
      /\ returned'[Here] = [code |-> c, bytes |-> b]
      /\ \A i \in 1..Here : InStepBefore(i)' = InStepBefore(i)
      /\ InStep' = (InStep /\ c \notin Lost)
  BY <1>a, ReturnFrame
<1>c. Here \in Nat /\ Taken \in Nat /\ Here = Len(returned) + 1 /\ Len(returned) \in Nat
  <2>1. returned \in Seq([code: Codes, bytes: Seq(Byte)])
    BY <1>a DEF CallTyped
  <2> QED
    BY <1>a, <2>1, HereNat DEF Here
<1>1. InPlace'
  <2> SUFFICES ASSUME InStep' PROVE ReadSoFar' /\ OnTheWire'
    BY DEF InPlace
  <2>1. InStep /\ c \notin Lost /\ ReadSoFar /\ OnTheWire
    BY <1>b DEF InPlace
  <2>2. header' = <<>> /\ buff' = <<>> /\ phase' = "idle"
    BY DEF Return
  <2>3. ReadSoFar'
    BY <2>2 DEF ReadSoFar
  <2>4. PICK n \in 1..Len(wire) : Taken + n = SizeOf(Here) /\ Shorter(wire, wire', n)
    BY <2>1
  <2>5. SizeOf(Here) \in Nat /\ Taken + n <= SizeOf(Here)
    BY <1>c, <2>1, <2>4, Sizes
  <2>6. After(<<Here, Taken + n>>) = <<Here + 1, 1>>
    BY <2>4, <2>5 DEF After
  <2>7. ReadAt' = After(<<Here, Taken + n>>)
    BY <1>b, <2>6
  <2>8. Here' = Here + 1
    BY <1>b
  <2>9. OnTheWire'
    BY <1>a, <2>1, <2>4, <2>5, <2>7, <2>8, WireAfter
  <2> QED
    BY <2>3, <2>9
<1>2. EachCallItsMessage'
  <2> SUFFICES ASSUME NEW i \in 1..Here, InStepBefore(i)', returned'[i].code \notin Lost
               PROVE  /\ i <= Len(Script)
                      /\ returned'[i].bytes = Bytes(i)
                      /\ IF IsCommon(Script[i])
                         THEN returned'[i].code = CommonCode[Script[i].type]
                         ELSE returned'[i].code \in {-14, -9, -6, -5, 0}
    BY <1>b DEF EachCallItsMessage, Lost
  <2>1. InStepBefore(i)
    BY <1>b
  <2>2. CASE i \in 1..Len(returned)
    BY <1>b, <2>1, <2>2 DEF EachCallItsMessage, Lost
  <2>3. CASE i = Here
    <3>1. InStep /\ c \notin Lost
      BY <1>b, <2>1, <2>3 DEF InStep, Here
    <3>2. returned'[i].code = c /\ returned'[i].bytes = b
      BY <1>b, <2>3
    <3> QED
      BY <2>3, <3>1, <3>2, ScriptDomain
  <2> QED
    BY <1>c, <2>2, <2>3
<1> QED
  BY <1>1, <1>2

\* The header as far as the first two loops have it.
LEMMA HeaderGrows ==
    ASSUME NEW h \in Seq(Byte), header' = h, buff' = <<>>, Here' = Here,
           \A i \in 1..Len(h) : h[i] = <<Here, i>>,
           \/ phase' = "common" /\ Len(h) < COM_MSG_SIZE
           \/ /\ phase' = "rest" /\ Here \in DOMAIN Script /\ ~IsCommon(Script[Here])
              /\ COM_MSG_SIZE <= Len(h) /\ Len(h) < RestWanted
    PROVE  ReadSoFar'
<1>1. \A i \in DOMAIN header' : header'[i] = <<Here', i>>
  <2>1. DOMAIN h = 1..Len(h)
    BY LenProperties
  <2>2. \A i \in DOMAIN h : h[i] = <<Here, i>>
    BY <2>1
  <2> QED
    BY <2>2
<1>2. \A i \in DOMAIN buff' : buff'[i] = <<Here', RestWanted + i>>
  OBVIOUS
<1>3. CASE phase' = "common" /\ Len(h) < COM_MSG_SIZE
  BY <1>1, <1>2, <1>3 DEF ReadSoFar
<1>4. CASE /\ phase' = "rest" /\ Here \in DOMAIN Script /\ ~IsCommon(Script[Here])
           /\ COM_MSG_SIZE <= Len(h) /\ Len(h) < RestWanted
  BY <1>1, <1>2, <1>4 DEF ReadSoFar
<1> QED
  BY <1>3, <1>4

LEMMA CommonStep ==
    ASSUME Typed, WriteTyped, InPlace, EachCallItsMessage, ReadCommon
    PROVE  InPlace' /\ EachCallItsMessage'
<1>a. CallTyped /\ wire \in Seq(Byte) /\ header \in Seq(Byte) /\ written \in Nat \X Nat
  BY DEF Typed, WriteTyped, CallTyped
<1>b. phase = "common"
  BY DEF ReadCommon
<1>1. PICK h, n :
        /\ ReadFrame(header, COM_MSG_SIZE, n, h)
        /\ \/ /\ Len(h) < COM_MSG_SIZE /\ header' = h
              /\ UNCHANGED <<phase, slot, buff, bodySize, returned>>
           \/ /\ Len(h) = COM_MSG_SIZE /\ "general" \in Readings(h)
              /\ header' = h /\ phase' = "rest"
              /\ UNCHANGED <<slot, buff, bodySize, returned>>
           \/ /\ Len(h) = COM_MSG_SIZE
              /\ \E r \in Readings(h) \ {"general"} : Return(CommonCode[r], h)
  BY <1>a, ReadCommonFrame
<1>2. /\ n \in 1..Len(wire) /\ h \in Seq(Byte) /\ Len(h) = Len(header) + n
      /\ Len(h) <= COM_MSG_SIZE /\ Shorter(wire, wire', n) /\ written' = written
      /\ Len(h) \in Nat /\ Len(header) \in Nat
  BY <1>1, <1>a DEF ReadFrame
\* In step, what was read is the beginning of the message.
<1>3. ASSUME InStep
      PROVE  /\ ReadSoFar /\ OnTheWire /\ Here \in DOMAIN Script /\ buff = <<>>
             /\ Taken = Len(header) /\ Taken + n = Len(h) /\ Len(h) >= 1
             /\ Len(h) <= SizeOf(Here) /\ Taken + n <= SizeOf(Here)
             /\ \A i \in 1..Len(h) : h[i] = <<Here, i>>
  <2>1. ReadSoFar /\ OnTheWire
    BY <1>3 DEF InPlace
  <2>2. buff = <<>>
    BY <1>b, <2>1 DEF ReadSoFar
  <2>3. Len(buff) = 0
    BY <2>2, EmptySeq
  <2>4. Taken = Len(header) /\ Taken + n = Len(h) /\ Len(h) >= 1
    BY <1>2, <2>3 DEF Taken
  <2>5. wire # <<>>
    BY <1>2, EmptySeq
  <2>6. Here \in DOMAIN Script
    BY <1>a, <2>1, <2>5, NextByte
  <2>7. Len(h) <= SizeOf(Here)
    <3>1. SizeOf(Here) \in Nat /\ COM_MSG_SIZE <= SizeOf(Here)
      BY <2>6, Sizes
    <3> QED
      BY <1>2, <3>1, WantedSizes
  <2>8. \A j \in 1..n : wire[j] = <<Here, Taken + j>>
    BY <1>2, <1>a, <2>1, <2>4, <2>7, Consumed
  <2>9. ASSUME NEW i \in 1..Len(h) PROVE h[i] = <<Here, i>>
    <3>1. CASE i <= Len(header)
      <4>1. i \in 1..Len(header) /\ h[i] = header[i]
        BY <1>1, <1>2, <3>1 DEF ReadFrame
      <4>2. i \in DOMAIN header
        BY <1>a, <4>1
      <4> QED
        BY <2>1, <4>1, <4>2 DEF ReadSoFar
    <3>2. CASE i > Len(header)
      <4> DEFINE j == i - Len(header)
      <4>1. j \in 1..n /\ Len(header) + j = i /\ Taken + j = i
        BY <1>2, <2>4, <3>2
      <4> HIDE DEF j
      <4>2. h[Len(header) + j] = wire[j]
        BY <1>1, <4>1 DEF ReadFrame
      <4> QED
        BY <2>8, <4>1, <4>2
    <3> QED
      BY <1>2, <3>1, <3>2
  <2> QED
    BY <2>1, <2>2, <2>4, <2>6, <2>7, <2>9
<1>4. CASE /\ header' = h /\ UNCHANGED <<slot, buff, bodySize, returned>>
           /\ \/ Len(h) < COM_MSG_SIZE /\ phase' = phase
              \/ Len(h) = COM_MSG_SIZE /\ "general" \in Readings(h) /\ phase' = "rest"
  <2>1. InStep' = InStep /\ EachCallItsMessage'
    BY <1>4 DEF InStep, InStepBefore, EachCallItsMessage
  <2> SUFFICES ASSUME InStep PROVE ReadSoFar' /\ OnTheWire'
    BY <2>1 DEF InPlace
  <2>a. Here' = Here /\ buff' = <<>>
    BY <1>3, <1>4 DEF Here
  <2>2. Len(h) < SizeOf(Here) /\ ReadSoFar'
    <3>1. SizeOf(Here) \in Nat /\ COM_MSG_SIZE <= SizeOf(Here)
      BY <1>3, Sizes
    <3>2. CASE Len(h) < COM_MSG_SIZE /\ phase' = phase
      <4>1. Len(h) < SizeOf(Here)
        BY <1>2, <3>1, <3>2, WantedSizes
      <4> QED
        BY <1>b, <1>2, <1>3, <1>4, <2>a, <3>2, <4>1, HeaderGrows
    <3>3. CASE Len(h) = COM_MSG_SIZE /\ "general" \in Readings(h) /\ phase' = "rest"
      <4>1. ~IsCommon(Script[Here])
        <5>1. Readings(h) = IF IsCommon(Script[Here]) THEN {Script[Here].type} ELSE {"general"}
          BY <1>2, <1>3, <3>3, ReadingsInStep
        <5>2. IsCommon(Script[Here]) => Script[Here].type # "general"
          BY DEF IsCommon, CommonTypes
        <5> QED
          BY <3>3, <5>1, <5>2
      <4>2. Len(h) < SizeOf(Here)
        <5>1. SizeOf(Here) = RestWanted + BodySize[Script[Here].type] + 2
              /\ BodySize[Script[Here].type] \in Nat
          <6>1. BodySize[Script[Here].type] \in MSG_TYPE_SIZE..BODY_SIZE_MAX
            BY <1>3, <4>1, Sizes
          <6>2. MSG_TYPE_SIZE \in Nat
            BY WireAssumption, SMT
          <6> QED
            BY <1>3, <4>1, <6>1, <6>2, Sizes
        <5> QED
          BY <1>2, <3>3, <5>1, WantedSizes
      <4>3. COM_MSG_SIZE <= Len(h) /\ Len(h) < RestWanted
        BY <1>2, <3>3, WantedSizes
      <4> QED
        BY <1>2, <1>3, <1>4, <2>a, <3>3, <4>1, <4>2, <4>3, HeaderGrows
    <3> QED
      BY <1>4, <3>2, <3>3
  <2>3. ReadAt' = <<Here, Len(h) + 1>> /\ Here' = Here
    <3>1. Len(buff') = 0
      BY <1>3, <1>4, EmptySeq
    <3> QED
      BY <1>2, <1>4, <3>1 DEF ReadAt, Taken, Here
  <2>4. ReadAt' = After(<<Here, Taken + n>>)
    BY <1>3, <2>2, <2>3 DEF After
  <2>5. OnTheWire'
    BY <1>2, <1>3, <1>a, <2>3, <2>4, WireAfter
  <2> QED
    BY <2>2, <2>5
<1>5. ASSUME NEW r \in Readings(h) \ {"general"}, Len(h) = COM_MSG_SIZE,
             Return(CommonCode[r], h)
      PROVE  InPlace' /\ EachCallItsMessage'
  <2>1. CommonCode[r] \in {1, 2, 3}
    BY <1>2, <1>5, ReadingsAreKnown
  <2>2. CommonCode[r] \in Codes
    BY <2>1 DEF Codes
  <2>3. ASSUME InStep
        PROVE  /\ Here \in DOMAIN Script /\ h = Bytes(Here) /\ IsCommon(Script[Here])
               /\ CommonCode[r] = CommonCode[Script[Here].type]
               /\ \E m \in 1..Len(wire) :
                    Taken + m = SizeOf(Here) /\ Shorter(wire, wire', m)
    <3>1. Readings(h) = IF IsCommon(Script[Here]) THEN {Script[Here].type} ELSE {"general"}
      BY <1>2, <1>3, <1>5, <2>3, ReadingsInStep
    <3>2. IsCommon(Script[Here]) /\ r = Script[Here].type
      BY <1>5, <3>1
    <3>3. Len(h) = SizeOf(Here)
      BY <1>3, <1>5, <2>3, <3>2, Sizes
    <3>4. h = Bytes(Here)
      BY <1>2, <1>3, <2>3, <3>3, WholeMessage
    <3> QED
      BY <1>2, <1>3, <2>3, <3>2, <3>3, <3>4
  <2> QED
    BY <1>2, <1>5, <2>2, <2>3, ReturnStep
<1>6. \/ /\ header' = h /\ UNCHANGED <<slot, buff, bodySize, returned>>
         /\ \/ Len(h) < COM_MSG_SIZE /\ phase' = phase
            \/ Len(h) = COM_MSG_SIZE /\ "general" \in Readings(h) /\ phase' = "rest"
      \/ /\ Len(h) = COM_MSG_SIZE
         /\ \E r \in Readings(h) \ {"general"} : Return(CommonCode[r], h)
  BY <1>1
<1> QED
  BY <1>4, <1>5, <1>6

LEMMA GeneralSize ==
    ASSUME NEW k \in DOMAIN Script, ~IsCommon(Script[k])
    PROVE  /\ BodySize[Script[k].type] \in Nat
           /\ SizeOf(k) = RestWanted + BodySize[Script[k].type] + 2
           /\ RestWanted < SizeOf(k) /\ SizeOf(k) \in Nat
<1>1. BodySize[Script[k].type] \in MSG_TYPE_SIZE..BODY_SIZE_MAX
  BY Sizes
<1>2. MSG_TYPE_SIZE \in Nat
  BY WireAssumption, SMT
<1>3. BodySize[Script[k].type] \in Nat
  BY <1>1, <1>2
<1>4. SizeOf(k) = RestWanted + BodySize[Script[k].type] + 2
  BY Sizes
<1>5. RestWanted < SizeOf(k) /\ SizeOf(k) \in Nat
  BY <1>3, <1>4, WantedSizes
<1> QED
  BY <1>3, <1>4, <1>5

LEMMA Fits == \A s \in Nat : 0 < s + 2
OBVIOUS

LEMMA RestStep ==
    ASSUME Typed, WriteTyped, InPlace, EachCallItsMessage, ReadRest
    PROVE  InPlace' /\ EachCallItsMessage'
<1>a. CallTyped /\ wire \in Seq(Byte) /\ header \in Seq(Byte) /\ written \in Nat \X Nat
  BY DEF Typed, WriteTyped, CallTyped
<1>b. phase = "rest"
  BY DEF ReadRest
<1>1. PICK h, n :
        /\ ReadFrame(header, RestWanted, n, h)
        /\ \/ /\ Len(h) < RestWanted /\ header' = h
              /\ UNCHANGED <<phase, slot, buff, bodySize, returned>>
           \/ /\ Len(h) = RestWanted /\ header' = h /\ phase' = "body"
              /\ bodySize' \in Spelled(h) /\ UNCHANGED <<slot, buff, returned>>
           \/ Return(-4, <<>>)
  BY <1>a, ReadRestFrame
<1>2. /\ n \in 1..Len(wire) /\ h \in Seq(Byte) /\ Len(h) = Len(header) + n
      /\ Len(h) <= RestWanted /\ Shorter(wire, wire', n) /\ written' = written
      /\ Len(h) \in Nat /\ Len(header) \in Nat
  BY <1>1, <1>a DEF ReadFrame
<1>3. ASSUME InStep
      PROVE  /\ ReadSoFar /\ OnTheWire /\ Here \in DOMAIN Script /\ buff = <<>>
             /\ ~IsCommon(Script[Here]) /\ COM_MSG_SIZE <= Len(h)
             /\ Taken = Len(header) /\ Taken + n = Len(h)
             /\ Len(h) < SizeOf(Here) /\ Taken + n <= SizeOf(Here)
             /\ \A i \in 1..Len(h) : h[i] = <<Here, i>>
  <2>1. ReadSoFar /\ OnTheWire
    BY <1>3 DEF InPlace
  <2>2. /\ buff = <<>> /\ Here \in DOMAIN Script /\ ~IsCommon(Script[Here])
        /\ COM_MSG_SIZE <= Len(header)
    BY <1>b, <2>1 DEF ReadSoFar
  <2>3. Len(buff) = 0
    BY <2>2, EmptySeq
  <2>4. Taken = Len(header) /\ Taken + n = Len(h) /\ COM_MSG_SIZE <= Len(h)
    <3>1. Taken = Len(header) /\ Taken + n = Len(h)
      BY <1>2, <2>3 DEF Taken
    <3>2. COM_MSG_SIZE <= Len(h)
      BY <1>2, <2>2, WantedSizes
    <3> QED
      BY <3>1, <3>2
  <2>7. Len(h) < SizeOf(Here) /\ Len(h) <= SizeOf(Here)
    <3>1. SizeOf(Here) \in Nat /\ RestWanted < SizeOf(Here)
      BY <2>2, GeneralSize
    <3> QED
      BY <1>2, <3>1, WantedSizes
  <2>8. \A j \in 1..n : wire[j] = <<Here, Taken + j>>
    BY <1>2, <1>a, <2>1, <2>4, <2>7, Consumed
  <2>9. ASSUME NEW i \in 1..Len(h) PROVE h[i] = <<Here, i>>
    <3>1. CASE i <= Len(header)
      <4>1. i \in 1..Len(header) /\ h[i] = header[i]
        BY <1>1, <1>2, <3>1 DEF ReadFrame
      <4>2. i \in DOMAIN header
        BY <1>a, <4>1
      <4> QED
        BY <2>1, <4>1, <4>2 DEF ReadSoFar
    <3>2. CASE i > Len(header)
      <4> DEFINE j == i - Len(header)
      <4>1. j \in 1..n /\ Len(header) + j = i /\ Taken + j = i
        BY <1>2, <2>4, <3>2
      <4> HIDE DEF j
      <4>2. h[Len(header) + j] = wire[j]
        BY <1>1, <4>1 DEF ReadFrame
      <4> QED
        BY <2>8, <4>1, <4>2
    <3> QED
      BY <1>2, <3>1, <3>2
  <2> QED
    BY <2>1, <2>2, <2>4, <2>7, <2>9
<1>4. CASE /\ header' = h /\ UNCHANGED <<slot, buff, returned>>
           /\ \/ Len(h) < RestWanted /\ phase' = phase
              \/ Len(h) = RestWanted /\ phase' = "body" /\ bodySize' \in Spelled(h)
  <2>1. InStep' = InStep /\ EachCallItsMessage'
    BY <1>4 DEF InStep, InStepBefore, EachCallItsMessage
  <2> SUFFICES ASSUME InStep PROVE ReadSoFar' /\ OnTheWire'
    BY <2>1 DEF InPlace
  <2>a. Here' = Here /\ buff' = <<>>
    BY <1>3, <1>4 DEF Here
  <2>2. ReadSoFar'
    <3>1. CASE Len(h) < RestWanted /\ phase' = phase
      BY <1>b, <1>2, <1>3, <1>4, <2>a, <3>1, HeaderGrows
    <3>2. CASE Len(h) = RestWanted /\ phase' = "body" /\ bodySize' \in Spelled(h)
      <4>1. bodySize' = BodySize[Script[Here].type]
        <5>1. Spelled(h) = {BodySize[Script[Here].type]}
          BY <1>2, <1>3, <3>2, SpelledInStep
        <5> QED
          BY <3>2, <5>1
      <4>2. \A i \in DOMAIN header' : header'[i] = <<Here', i>>
        <5>1. DOMAIN h = 1..Len(h)
          BY <1>2, LenProperties
        <5>2. \A i \in DOMAIN h : h[i] = <<Here, i>>
          BY <1>3, <5>1
        <5> QED
          BY <1>4, <2>a, <5>2
      <4>3. \A i \in DOMAIN buff' : buff'[i] = <<Here', RestWanted + i>>
        BY <2>a
      <4>4. Len(buff') < BodyWanted'
        <5>1. Len(buff') = 0
          BY <2>a, EmptySeq
        <5>2. bodySize' \in Nat
          BY <1>3, <4>1, GeneralSize
        <5>3. BodyWanted' = bodySize' + 2
          BY DEF BodyWanted, SIZE_FIELD
        <5> QED
          BY <5>1, <5>2, <5>3, Fits
      <4>5. Here' \in DOMAIN Script /\ ~IsCommon(Script[Here'])
            /\ Len(header') = RestWanted /\ bodySize' = BodySize[Script[Here'].type]
        BY <1>3, <1>4, <2>a, <3>2, <4>1
      <4> QED
        BY <3>2, <4>2, <4>3, <4>4, <4>5 DEF ReadSoFar
    <3> QED
      BY <1>4, <3>1, <3>2
  <2>3. ReadAt' = <<Here, Len(h) + 1>>
    <3>1. Len(buff') = 0
      BY <2>a, EmptySeq
    <3> QED
      BY <1>2, <1>4, <2>a, <3>1 DEF ReadAt, Taken
  <2>4. ReadAt' = After(<<Here, Taken + n>>)
    BY <1>3, <2>3 DEF After
  <2>5. OnTheWire'
    BY <1>2, <1>3, <1>a, <2>a, <2>4, WireAfter
  <2> QED
    BY <2>2, <2>5
<1>5. CASE Return(-4, <<>>)
  <2>1. -4 \in Codes /\ -4 \in Lost /\ <<>> \in Seq(Byte)
    BY DEF Codes, Lost
  <2> QED
    BY <1>2, <1>5, <2>1, ReturnStep
<1> QED
  BY <1>1, <1>4, <1>5

\* A general message is its header, as far as the body size, and what the third
\* loop wants.
LEMMA BodySizeOf ==
    ASSUME NEW k \in DOMAIN Script, ~IsCommon(Script[k]), bodySize = BodySize[Script[k].type]
    PROVE  BodyWanted \in Nat /\ RestWanted \in Nat /\ SizeOf(k) = RestWanted + BodyWanted
<1>1. BodySize[Script[k].type] \in Nat /\ SizeOf(k) = RestWanted + BodySize[Script[k].type] + 2
  BY GeneralSize
<1>2. BodyWanted = bodySize + 2
  BY DEF BodyWanted, SIZE_FIELD
<1>3. RestWanted \in Nat
  BY WantedSizes
<1> QED
  BY <1>1, <1>2, <1>3

LEMMA BodyStep ==
    ASSUME Typed, WriteTyped, InPlace, EachCallItsMessage, ReadBody
    PROVE  InPlace' /\ EachCallItsMessage'
<1>a. /\ CallTyped /\ wire \in Seq(Byte) /\ header \in Seq(Byte) /\ buff \in Seq(Byte)
      /\ written \in Nat \X Nat
  BY DEF Typed, WriteTyped, CallTyped
<1>b. phase = "body"
  BY DEF ReadBody
<1>c. bodySize \in 0..BODY_SIZE_MAX /\ slot \in Slots
  BY <1>a, <1>b DEF CallTyped
<1>1. PICK b, n :
        /\ ReadFrame(buff, BodyWanted, n, b)
        /\ \/ /\ Len(b) < BodyWanted /\ buff' = b
              /\ UNCHANGED <<phase, slot, header, bodySize, returned>>
           \/ /\ Len(b) = BodyWanted
              /\ \E code \in {-14, -9, -6, -5, 0} : Return(code, header \o b)
  BY <1>a, <1>c, ReadBodyFrame
<1>2. /\ n \in 1..Len(wire) /\ b \in Seq(Byte) /\ Len(b) = Len(buff) + n
      /\ Len(b) <= BodyWanted /\ Shorter(wire, wire', n) /\ written' = written
      /\ Len(b) \in Nat /\ Len(buff) \in Nat
  BY <1>1, <1>a DEF ReadFrame
<1>3. ASSUME InStep
      PROVE  /\ ReadSoFar /\ OnTheWire /\ Here \in DOMAIN Script
             /\ ~IsCommon(Script[Here]) /\ Len(header) = RestWanted
             /\ bodySize = BodySize[Script[Here].type]
             /\ Taken + n = RestWanted + Len(b) /\ Taken + n <= SizeOf(Here)
             /\ SizeOf(Here) = RestWanted + BodyWanted
             /\ RestWanted \in Nat /\ BodyWanted \in Nat
             /\ \A i \in 1..Len(b) : b[i] = <<Here, RestWanted + i>>
  <2>1. ReadSoFar /\ OnTheWire
    BY <1>3 DEF InPlace
  <2>2. /\ Here \in DOMAIN Script /\ ~IsCommon(Script[Here])
        /\ Len(header) = RestWanted /\ bodySize = BodySize[Script[Here].type]
    BY <1>b, <2>1 DEF ReadSoFar
  <2>3. RestWanted \in Nat /\ BodyWanted \in Nat /\ SizeOf(Here) = RestWanted + BodyWanted
    BY <2>2, BodySizeOf
  <2>4. Taken = RestWanted + Len(buff)
    BY <2>2 DEF Taken
  <2>5. Taken + n = RestWanted + Len(b) /\ Taken + n <= SizeOf(Here)
    BY <1>2, <2>3, <2>4
  <2>6. \A j \in 1..n : wire[j] = <<Here, Taken + j>>
    BY <1>2, <1>a, <2>1, <2>5, Consumed
  <2>7. ASSUME NEW i \in 1..Len(b) PROVE b[i] = <<Here, RestWanted + i>>
    <3>1. CASE i <= Len(buff)
      <4>1. i \in 1..Len(buff) /\ b[i] = buff[i]
        BY <1>1, <1>2, <3>1 DEF ReadFrame
      <4>2. i \in DOMAIN buff
        BY <1>a, <4>1
      <4> QED
        BY <2>1, <4>1, <4>2 DEF ReadSoFar
    <3>2. CASE i > Len(buff)
      <4> DEFINE j == i - Len(buff)
      <4>1. j \in 1..n /\ Len(buff) + j = i /\ Taken + j = RestWanted + i
        BY <1>2, <2>3, <2>4, <3>2
      <4> HIDE DEF j
      <4>2. b[Len(buff) + j] = wire[j]
        BY <1>1, <4>1 DEF ReadFrame
      <4> QED
        BY <2>6, <4>1, <4>2
    <3> QED
      BY <1>2, <3>1, <3>2
  <2> QED
    BY <2>1, <2>2, <2>3, <2>5, <2>7
<1>4. CASE /\ Len(b) < BodyWanted /\ buff' = b
           /\ UNCHANGED <<phase, slot, header, bodySize, returned>>
  <2>1. InStep' = InStep /\ EachCallItsMessage'
    BY <1>4 DEF InStep, InStepBefore, EachCallItsMessage
  <2> SUFFICES ASSUME InStep PROVE ReadSoFar' /\ OnTheWire'
    BY <2>1 DEF InPlace
  <2>a. Here' = Here /\ BodyWanted' = BodyWanted
    BY <1>4 DEF Here, BodyWanted
  <2>2. ReadSoFar'
    <3>1. \A i \in DOMAIN header' : header'[i] = <<Here', i>>
      BY <1>3, <1>4, <2>a DEF ReadSoFar
    <3>2. \A i \in DOMAIN buff' : buff'[i] = <<Here', RestWanted + i>>
      <4>1. DOMAIN b = 1..Len(b)
        BY <1>2, LenProperties
      <4>2. \A i \in DOMAIN b : b[i] = <<Here, RestWanted + i>>
        BY <1>3, <4>1
      <4> QED
        BY <1>4, <2>a, <4>2
    <3>3. Here' \in DOMAIN Script /\ ~IsCommon(Script[Here'])
          /\ Len(header') = RestWanted /\ bodySize' = BodySize[Script[Here'].type]
          /\ Len(buff') < BodyWanted' /\ phase' = "body"
      BY <1>3, <1>4, <1>b, <2>a
    <3> QED
      BY <3>1, <3>2, <3>3 DEF ReadSoFar
  <2>3. ReadAt' = <<Here, RestWanted + Len(b) + 1>>
    BY <1>3, <1>4, <2>a DEF ReadAt, Taken
  <2>4. ReadAt' = After(<<Here, Taken + n>>)
    <3>1. RestWanted + Len(b) < SizeOf(Here)
      BY <1>2, <1>3, <1>4
    <3> QED
      BY <1>3, <2>3, <3>1 DEF After
  <2>5. OnTheWire'
    BY <1>2, <1>3, <1>a, <2>a, <2>4, WireAfter
  <2> QED
    BY <2>2, <2>5
<1>5. ASSUME NEW code \in {-14, -9, -6, -5, 0}, Len(b) = BodyWanted,
             Return(code, header \o b)
      PROVE  InPlace' /\ EachCallItsMessage'
  <2> DEFINE m == header \o b
  <2>1. code \in Codes
    BY DEF Codes
  <2>2. /\ m \in Seq(Byte) /\ Len(m) = Len(header) + Len(b)
        /\ \A j \in 1..Len(header) : m[j] = header[j]
        /\ \A j \in 1..Len(b) : m[Len(header) + j] = b[j]
    <3>1. header \in Seq(Byte) /\ b \in Seq(Byte)
      BY <1>2, <1>a
    <3> QED
      BY <3>1, Joined
  <2>a. Return(code, m)
    BY <1>5
  <2> HIDE DEF m
  <2>3. ASSUME InStep
        PROVE  /\ Here \in DOMAIN Script /\ m = Bytes(Here) /\ ~IsCommon(Script[Here])
               /\ \E i \in 1..Len(wire) :
                    Taken + i = SizeOf(Here) /\ Shorter(wire, wire', i)
    <3>1. Len(m) = SizeOf(Here) /\ Taken + n = SizeOf(Here) /\ Here \in DOMAIN Script
      BY <1>3, <1>5, <2>2, <2>3
    <3>2. ASSUME NEW i \in 1..Len(m) PROVE m[i] = <<Here, i>>
      <4>1. CASE i <= Len(header)
        <5>1. i \in 1..Len(header) /\ i \in DOMAIN header
          BY <1>a, <4>1
        <5>2. header[i] = <<Here, i>>
          BY <1>3, <2>3, <5>1 DEF ReadSoFar
        <5> QED
          BY <2>2, <5>1, <5>2
      <4>2. CASE i > Len(header)
        <5> DEFINE j == i - Len(header)
        <5>a. Len(header) = RestWanted /\ RestWanted \in Nat
          BY <1>3, <2>3
        <5>b. i \in 1..RestWanted + Len(b) /\ i > RestWanted /\ Len(b) \in Nat
          BY <1>2, <2>2, <4>2, <5>a
        <5>1. j \in 1..Len(b) /\ Len(header) + j = i /\ RestWanted + j = i
          BY <5>a, <5>b
        <5> HIDE DEF j
        <5>2. m[Len(header) + j] = b[j] /\ b[j] = <<Here, RestWanted + j>>
          BY <1>3, <2>2, <2>3, <5>1
        <5> QED
          BY <5>1, <5>2
      <4>3. i <= Len(header) \/ i > Len(header)
        BY <1>a, <2>2
      <4> QED
        BY <4>1, <4>2, <4>3
    <3>3. m = Bytes(Here)
      BY <2>2, <3>1, <3>2, WholeMessage
    <3> QED
      BY <1>2, <1>3, <2>3, <3>1, <3>3
  <2> QED
    BY <1>2, <1>5, <2>a, <2>1, <2>2, <2>3, ReturnStep
<1> QED
  BY <1>1, <1>4, <1>5

LEMMA LostStep ==
    ASSUME Typed, WriteTyped, InPlace, EachCallItsMessage,
           NEW c \in Lost, Return(c, <<>>), written' = written
    PROVE  InPlace' /\ EachCallItsMessage'
<1>1. c \in Codes /\ <<>> \in Seq(Byte)
  BY DEF Lost, Codes
<1> QED
  BY <1>1, ReturnStep

LEMMA ReadStep ==
    ASSUME Typed, WriteTyped, InPlace, EachCallItsMessage, Read
    PROVE  InPlace' /\ EachCallItsMessage'
<1>1. CASE ReadCommon
  BY <1>1, CommonStep
<1>2. CASE ReadRest
  BY <1>2, RestStep
<1>3. CASE ReadBody
  BY <1>3, BodyStep
<1>4. CASE ReadClosed
  <2>1. /\ ClosedCode(TotBytesRead) \in Lost
        /\ Return(ClosedCode(TotBytesRead), <<>>) /\ written' = written
    BY <1>4 DEF ReadClosed, ClosedCode, Lost, zaurusVars
  <2> QED
    BY <2>1, LostStep
<1>5. CASE ReadError
  <2>1. -3 \in Lost /\ Return(-3, <<>>) /\ written' = written
    BY <1>5 DEF ReadError, Lost
  <2> QED
    BY <2>1, LostStep
<1> QED
  BY <1>1, <1>2, <1>3, <1>4, <1>5 DEF Read
-----------------------------------------------------------------------------
(***************************************************************************)
(* The end of the connection.                                              *)
(***************************************************************************)
LEMMA EndStep ==
    ASSUME Typed, WriteTyped, InPlace, End
    PROVE  WriteTyped' /\ InPlace'
<1>1. /\ ended = "open" /\ ended' \in {"closed", "reset"}
      /\ wire' = wire \/ (wire' = <<>> /\ ended' = "reset")
      /\ UNCHANGED <<written, callVars, returned>>
  BY EndingNames DEF End
<1>2. WriteTyped'
  <2>a. wire \in Seq(Byte) /\ <<>> \in Seq(Byte)
    BY DEF WriteTyped
  <2>b. wire' \in Seq(Byte)
    BY <1>1, <2>a
  <2>1. wire' \in Seq(Byte) /\ ended' \in {"open", "closed", "reset"}
    BY <1>1, <2>b
  <2> QED
    BY <1>1, <2>1 DEF WriteTyped
<1>3. /\ Here' = Here /\ ReadAt' = ReadAt /\ WriteAt' = WriteAt /\ InStep' = InStep
      /\ ReadSoFar' = ReadSoFar
  BY <1>1 DEF Here, ReadAt, WriteAt, Taken, InStep, InStepBefore, ReadSoFar, callVars,
              BodyWanted
<1>4. ASSUME OnTheWire PROVE OnTheWire'
  <2>1. CASE wire' = wire
    BY <1>1, <1>3, <1>4, <2>1 DEF OnTheWire
  <2>2. CASE wire' = <<>> /\ ended' = "reset"
    <3>1. Stream(<<>>, ReadAt, WriteAt)
      BY DEF Stream, Laid
    <3> QED
      BY <1>1, <1>3, <1>4, <2>2, <3>1 DEF OnTheWire
  <2> QED
    BY <1>1, <2>1, <2>2
<1> QED
  BY <1>2, <1>3, <1>4 DEF InPlace

\* What a read leaves behind: with bytes on the wire a call goes on or returns,
\* without them it sees the end of the stream or an error.
LEMMA ReadOutcome ==
    ASSUME Typed, WriteTyped, Read
    PROVE  /\ written' = written /\ wire' \in Seq(Byte)
           /\ \/ /\ wire # <<>> /\ ended' = ended
                 /\ \/ returned' = returned
                    \/ \E c \in Codes \ {-2, -1}, b \in Seq(Byte) : Return(c, b)
              \/ ReadClosed
              \/ ReadError
<1>a. wire \in Seq(Byte) /\ header \in Seq(Byte) /\ buff \in Seq(Byte) /\ CallTyped
  BY DEF Typed, WriteTyped, CallTyped
<1>1. CASE ReadCommon
  <2>1. PICK h, n :
          /\ ReadFrame(header, COM_MSG_SIZE, n, h)
          /\ \/ /\ Len(h) < COM_MSG_SIZE /\ header' = h
                /\ UNCHANGED <<phase, slot, buff, bodySize, returned>>
             \/ /\ Len(h) = COM_MSG_SIZE /\ "general" \in Readings(h)
                /\ header' = h /\ phase' = "rest"
                /\ UNCHANGED <<slot, buff, bodySize, returned>>
             \/ /\ Len(h) = COM_MSG_SIZE
                /\ \E r \in Readings(h) \ {"general"} : Return(CommonCode[r], h)
    BY <1>1, <1>a, ReadCommonFrame
  <2>2. /\ written' = written /\ ended' = ended /\ wire' \in Seq(Byte) /\ h \in Seq(Byte)
        /\ n \in 1..Len(wire)
    BY <2>1 DEF ReadFrame, Shorter
  <2>a. wire # <<>>
    BY <2>2, EmptySeq
  <2>3. ASSUME NEW r \in Readings(h) \ {"general"}, Len(h) = COM_MSG_SIZE,
               Return(CommonCode[r], h)
        PROVE  \E c \in Codes \ {-2, -1}, b \in Seq(Byte) : Return(c, b)
    <3>1. CommonCode[r] \in {1, 2, 3}
      BY <2>2, <2>3, ReadingsAreKnown
    <3>2. CommonCode[r] \in Codes \ {-2, -1}
      BY <3>1 DEF Codes
    <3> QED
      BY <2>2, <2>3, <3>2
  <2>4. UNCHANGED returned
        \/ (Len(h) = COM_MSG_SIZE
            /\ \E r \in Readings(h) \ {"general"} : Return(CommonCode[r], h))
    BY <2>1
  <2> QED
    BY <2>2, <2>3, <2>4, <2>a
<1>2. CASE ReadRest
  <2>1. PICK h, n :
          /\ ReadFrame(header, RestWanted, n, h)
          /\ \/ /\ Len(h) < RestWanted /\ header' = h
                /\ UNCHANGED <<phase, slot, buff, bodySize, returned>>
             \/ /\ Len(h) = RestWanted /\ header' = h /\ phase' = "body"
                /\ bodySize' \in Spelled(h) /\ UNCHANGED <<slot, buff, returned>>
             \/ Return(-4, <<>>)
    BY <1>2, <1>a, ReadRestFrame
  <2>2. /\ written' = written /\ ended' = ended /\ wire' \in Seq(Byte)
        /\ n \in 1..Len(wire)
    BY <2>1 DEF ReadFrame, Shorter
  <2>a. wire # <<>>
    BY <2>2, EmptySeq
  <2>3. UNCHANGED returned \/ Return(-4, <<>>)
    BY <2>1
  <2>4. -4 \in Codes \ {-2, -1} /\ <<>> \in Seq(Byte)
    BY DEF Codes
  <2> QED
    BY <2>2, <2>3, <2>4, <2>a
<1>3. CASE ReadBody
  <2>1. bodySize \in 0..BODY_SIZE_MAX /\ slot \in Slots
    BY <1>3, <1>a DEF CallTyped, ReadBody
  <2>2. PICK b, n :
          /\ ReadFrame(buff, BodyWanted, n, b)
          /\ \/ /\ Len(b) < BodyWanted /\ buff' = b
                /\ UNCHANGED <<phase, slot, header, bodySize, returned>>
             \/ /\ Len(b) = BodyWanted
                /\ \E code \in {-14, -9, -6, -5, 0} : Return(code, header \o b)
    BY <1>3, <1>a, <2>1, ReadBodyFrame
  <2>3. /\ written' = written /\ ended' = ended /\ wire' \in Seq(Byte) /\ b \in Seq(Byte)
        /\ n \in 1..Len(wire)
    BY <2>2 DEF ReadFrame, Shorter
  <2>a. wire # <<>>
    BY <2>3, EmptySeq
  <2>4. header \o b \in Seq(Byte)
    BY <1>a, <2>3
  <2>5. \A code \in {-14, -9, -6, -5, 0} : code \in Codes \ {-2, -1}
    BY DEF Codes
  <2>6. UNCHANGED returned
        \/ \E code \in {-14, -9, -6, -5, 0} : Return(code, header \o b)
    BY <2>2
  <2> QED
    BY <2>3, <2>4, <2>5, <2>6, <2>a
<1>4. CASE ReadClosed
  BY <1>4, <1>a DEF ReadClosed, zaurusVars
<1>5. CASE ReadError
  BY <1>5, <1>a DEF ReadError
<1> QED
  BY <1>1, <1>2, <1>3, <1>4, <1>5 DEF Read

\* A call that returns reports the end of the stream as it is.
LEMMA ReportStep ==
    ASSUME CallTyped, EndSeen, ClosedInsideReported, NEW c \in Codes, NEW b \in Seq(Byte),
           Return(c, b), written' = written, (ended' = "open") = (ended = "open"),
           ended = "open" => c \notin {-2, -1},
           InStep => /\ c = -2 => CutMidMessage
                     /\ c = -1 /\ CutMidMessage => written[2] = RestWanted
    PROVE  EndSeen' /\ ClosedInsideReported'
<1>1. /\ DOMAIN returned = 1..Len(returned) /\ DOMAIN returned' = 1..Here
      /\ \A i \in 1..Len(returned) : returned'[i] = returned[i]
      /\ returned'[Here] = [code |-> c, bytes |-> b]
      /\ \A i \in 1..Here : InStepBefore(i)' = InStepBefore(i)
  BY ReturnFrame
<1>2. Here = Len(returned) + 1 /\ Len(returned) \in Nat
  <2>1. returned \in Seq([code: Codes, bytes: Seq(Byte)])
    BY DEF CallTyped
  <2> QED
    BY <2>1 DEF Here
<1>3. \A i \in 1..Here : i \in 1..Len(returned) \/ i = Here
  BY <1>2
<1>4. EndSeen'
  <2> SUFFICES ASSUME ended' = "open", NEW i \in 1..Here
               PROVE  returned'[i].code \notin {-2, -1}
    BY <1>1 DEF EndSeen
  <2>1. CASE i \in 1..Len(returned)
    BY <1>1, <2>1 DEF EndSeen
  <2>2. CASE i = Here
    BY <1>1, <2>2
  <2> QED
    BY <1>3, <2>1, <2>2
<1>5. ClosedInsideReported'
  <2>1. CutMidMessage' = CutMidMessage
    BY DEF CutMidMessage
  <2> SUFFICES ASSUME NEW i \in 1..Here, InStepBefore(i)'
               PROVE  /\ returned'[i].code = -2 => CutMidMessage
                      /\ returned'[i].code = -1 /\ CutMidMessage => written[2] = RestWanted
    BY <1>1, <2>1 DEF ClosedInsideReported, RestWanted
  <2>2. InStepBefore(i)
    BY <1>1
  <2>3. CASE i \in 1..Len(returned)
    BY <1>1, <2>2, <2>3 DEF ClosedInsideReported, RestWanted
  <2>4. CASE i = Here
    <3>1. InStep
      BY <2>2, <2>4 DEF InStep, Here
    <3> QED
      BY <1>1, <2>4, <3>1
  <2> QED
    BY <1>3, <2>3, <2>4
<1> QED
  BY <1>4, <1>5

\* At the end of the stream a call in step has what was written of its message.
LEMMA ClosedReport ==
    ASSUME Typed, WriteTyped, InPlace, ReadClosed, InStep,
           NEW c, c = ClosedCode(TotBytesRead)
    PROVE  /\ c = -2 => CutMidMessage
           /\ c = -1 /\ CutMidMessage => written[2] = RestWanted
<1>1. wire = <<>> /\ ended = "closed" /\ phase # "idle"
  BY DEF ReadClosed, InAnyLoop
<1>2. ReadSoFar /\ OnTheWire /\ CallTyped
  BY DEF InPlace, Typed
<1>3. Taken = written[2]
  <2>1. ReadAt = WriteAt
    BY <1>1, <1>2 DEF OnTheWire
  <2>2. Taken + 1 = written[2] + 1
    BY <2>1 DEF ReadAt, WriteAt
  <2>3. Taken \in Nat /\ written[2] \in Nat
    BY <1>2, HereNat DEF WriteTyped
  <2> QED
    BY <2>2, <2>3
<1>4. Len(header) \in Nat /\ Len(buff) \in Nat
  BY <1>2 DEF CallTyped
<1>5. c = -1 => TotBytesRead = 0
  BY DEF ClosedCode
<1>6. c = -2 => TotBytesRead # 0
  BY DEF ClosedCode
<1>7. CASE phase = "body"
  <2>1. TotBytesRead = Len(buff) /\ Taken = RestWanted + Len(buff)
    BY <1>2, <1>7 DEF TotBytesRead, Taken, ReadSoFar
  <2>2. c = -1 => written[2] = RestWanted
    BY <1>3, <1>5, <2>1, WantedSizes
  <2>3. c = -2 => written[2] > 0
    BY <1>3, <1>4, <2>1, WantedSizes
  <2> QED
    BY <1>1, <2>2, <2>3 DEF CutMidMessage
<1>8. CASE phase # "body"
  <2>1. buff = <<>>
    BY <1>2, <1>8 DEF ReadSoFar
  <2>2. Len(buff) = 0
    BY <2>1, EmptySeq
  <2>3. TotBytesRead = written[2]
    BY <1>3, <1>4, <1>8, <2>2 DEF TotBytesRead, Taken
  <2>4. c = -1 => ~(written[2] > 0)
    BY <1>5, <2>3
  <2>5. c = -2 => written[2] > 0
    BY <1>4, <1>6, <1>8, <2>3 DEF TotBytesRead
  <2> QED
    BY <1>1, <2>4, <2>5 DEF CutMidMessage
<1> QED
  BY <1>7, <1>8
-----------------------------------------------------------------------------
(***************************************************************************)
(* The inductive invariant.                                                *)
(***************************************************************************)
LEMMA InitReceive == ASSUME Init PROVE ReceiveInv
<1>1. /\ written = <<1, 0>> /\ wire = <<>> /\ ended = "open" /\ phase = "idle"
      /\ slot = "none" /\ header = <<>> /\ buff = <<>> /\ bodySize = 0 /\ returned = <<>>
  BY DEF Init
<1>2. 0 \in 0..BODY_SIZE_MAX
  BY SMT DEF BODY_SIZE_MAX
<1>3. Len(Script) \in Nat /\ 1 \in 1..Len(Script) + 1
  BY ScriptDomain
<1>4. CallTyped
  BY <1>1, <1>2 DEF CallTyped
<1>5. TypeOK
  BY <1>1, <1>2, <1>3 DEF TypeOK
<1>6. WriteTyped
  <2>1. 1 \in DOMAIN Script => 0 < SizeOf(1)
    BY Sizes
  <2> QED
    BY <1>1, <1>3, <2>1 DEF WriteTyped
<1>7. InPlace
  <2>1. Here = 1 /\ Taken = 0
    BY <1>1 DEF Here, Taken
  <2>2. ReadAt = <<1, 1>> /\ WriteAt = <<1, 1>>
    BY <1>1, <2>1 DEF ReadAt, WriteAt
  <2>3. ReadSoFar
    BY <1>1 DEF ReadSoFar
  <2>4. Stream(wire, ReadAt, WriteAt)
    BY <1>1 DEF Stream, Laid
  <2>5. OnTheWire
    BY <1>1, <2>1, <2>2, <2>4 DEF OnTheWire
  <2> QED
    BY <2>3, <2>5 DEF InPlace
<1>8. EndSeen /\ EachCallItsMessage /\ ClosedInsideReported
  BY <1>1 DEF EndSeen, EachCallItsMessage, ClosedInsideReported
<1> QED
  BY <1>4, <1>5, <1>6, <1>7, <1>8 DEF ReceiveInv, Typed

LEMMA TypedFrom == ASSUME CallTyped', WriteTyped' PROVE Typed'
BY DEF Typed, TypeOK, CallTyped, WriteTyped

LEMMA NextReceive == ASSUME ReceiveInv, [Next]_vars PROVE ReceiveInv'
<1>a. /\ Typed /\ WriteTyped /\ InPlace /\ EndSeen /\ EachCallItsMessage
      /\ ClosedInsideReported /\ CallTyped
  BY DEF ReceiveInv, Typed
<1>1. CASE Write
  <2>1. WriteTyped' /\ InPlace'
    BY <1>1, <1>a, WriteStep
  <2>2. /\ UNCHANGED <<ended, phase, slot, header, buff, bodySize, returned>>
        /\ ended = "open"
    BY <1>1 DEF Write, callVars
  <2>3. CallTyped'
    BY <1>a, <2>2 DEF CallTyped
  <2>4. EndSeen' /\ EachCallItsMessage'
    BY <1>a, <2>2 DEF EndSeen, EachCallItsMessage, InStepBefore
  <2>5. ClosedInsideReported'
    BY <1>a, <2>2 DEF EndSeen, ClosedInsideReported
  <2>6. Typed'
    BY <2>1, <2>3, TypedFrom
  <2> QED
    BY <2>1, <2>4, <2>5, <2>6 DEF ReceiveInv
<1>2. CASE End
  <2>1. WriteTyped' /\ InPlace'
    BY <1>2, <1>a, EndStep
  <2>2. /\ UNCHANGED <<written, phase, slot, header, buff, bodySize, returned>>
        /\ ended = "open" /\ ended' # "open"
    BY <1>2, EndingNames DEF End, callVars
  <2>3. CallTyped'
    BY <1>a, <2>2 DEF CallTyped
  <2>4. EndSeen' /\ EachCallItsMessage'
    BY <1>a, <2>2 DEF EndSeen, EachCallItsMessage, InStepBefore
  <2>5. ClosedInsideReported'
    BY <1>a, <2>2 DEF EndSeen, ClosedInsideReported
  <2>6. Typed'
    BY <2>1, <2>3, TypedFrom
  <2> QED
    BY <2>1, <2>4, <2>5, <2>6 DEF ReceiveInv
<1>3. CASE Begin
  <2>1. /\ UNCHANGED <<written, ended, wire, header, buff, bodySize, returned>>
        /\ phase = "idle" /\ phase' = "common" /\ slot' \in Slots
    BY <1>3 DEF Begin, zaurusVars
  <2>2. WriteTyped'
    BY <1>a, <2>1 DEF WriteTyped
  <2>3. CallTyped'
    BY <1>a, <2>1, SlotNames DEF CallTyped
  <2>4. EndSeen' /\ EachCallItsMessage' /\ ClosedInsideReported'
    BY <1>a, <2>1 DEF EndSeen, EachCallItsMessage, ClosedInsideReported, InStepBefore,
                      CutMidMessage
  <2>5. InPlace'
    <3> SUFFICES ASSUME InStep' PROVE ReadSoFar' /\ OnTheWire'
      BY DEF InPlace
    <3>1. InStep /\ ReadSoFar /\ OnTheWire
      BY <1>a, <2>1 DEF InPlace, InStep, InStepBefore
    <3>2. Here' = Here /\ ReadAt' = ReadAt /\ WriteAt' = WriteAt
      BY <2>1 DEF Here, ReadAt, WriteAt, Taken
    <3>3. OnTheWire'
      BY <2>1, <3>1, <3>2 DEF OnTheWire
    <3>4. header' = <<>> /\ buff' = <<>>
      BY <2>1, <3>1 DEF ReadSoFar
    <3>5. Len(header') < COM_MSG_SIZE
      <4>1. Len(header') = 0
        BY <3>4, EmptySeq
      <4> QED
        BY <4>1, WantedSizes
    <3>6. ReadSoFar'
      BY <2>1, <3>4, <3>5 DEF ReadSoFar
    <3> QED
      BY <3>3, <3>6
  <2>6. Typed'
    BY <2>2, <2>3, TypedFrom
  <2> QED
    BY <2>2, <2>4, <2>5, <2>6 DEF ReceiveInv
<1>4. CASE Read
  <2>1. InPlace' /\ EachCallItsMessage'
    BY <1>4, <1>a, ReadStep
  <2>2. CallTyped'
    BY <1>4, <1>a, ReadTyped
  <2>3. /\ written' = written /\ wire' \in Seq(Byte)
        /\ \/ /\ wire # <<>> /\ ended' = ended
              /\ \/ returned' = returned
                 \/ \E c \in Codes \ {-2, -1}, b \in Seq(Byte) : Return(c, b)
           \/ ReadClosed
           \/ ReadError
    BY <1>4, <1>a, ReadOutcome
  <2>4. EndSeen' /\ ClosedInsideReported' /\ ended' \in {"open", "closed", "reset"}
    <3>a. ended \in {"open", "closed", "reset"}
      BY <1>a DEF WriteTyped
    <3>1. CASE UNCHANGED <<ended, returned>>
      <4>1. written' = written
        BY <2>3
      <4> QED
        BY <1>a, <3>a, <3>1, <4>1 DEF EndSeen, ClosedInsideReported, InStepBefore,
                                     CutMidMessage
    <3>2. ASSUME ended' = ended \/ (ended = "reset" /\ ended' = "closed"),
                 NEW c \in Codes \ {-2, -1}, NEW b \in Seq(Byte), Return(c, b)
          PROVE  EndSeen' /\ ClosedInsideReported' /\ ended' \in {"open", "closed", "reset"}
      <4>1. (ended' = "open") = (ended = "open") /\ ended' \in {"open", "closed", "reset"}
        BY <3>2, <3>a
      <4>2. c \in Codes /\ c \notin {-2, -1} /\ c # -2 /\ c # -1
        BY <3>2
      <4>3. EndSeen' /\ ClosedInsideReported'
        BY <1>a, <2>3, <3>2, <4>1, <4>2, ReportStep
      <4> QED
        BY <4>1, <4>3
    <3>3. CASE ReadClosed
      <4> DEFINE c == ClosedCode(TotBytesRead)
      <4>1. c \in Codes /\ <<>> \in Seq(Byte)
        BY DEF ClosedCode, Codes
      <4>2. Return(c, <<>>) /\ ended = "closed" /\ ended' = ended
        BY <3>3 DEF ReadClosed, zaurusVars
      <4>3. InStep => /\ c = -2 => CutMidMessage
                      /\ c = -1 /\ CutMidMessage => written[2] = RestWanted
        BY <1>a, <3>3, ClosedReport
      <4> HIDE DEF c
      <4>4. (ended' = "open") = (ended = "open") /\ (ended = "open" => c \notin {-2, -1})
        BY <4>2
      <4>5. EndSeen' /\ ClosedInsideReported'
        BY <1>a, <2>3, <4>1, <4>2, <4>3, <4>4, ReportStep
      <4> QED
        BY <3>a, <4>2, <4>5
    <3>4. CASE ReadError
      <4>1. /\ ended' = ended \/ (ended = "reset" /\ ended' = "closed")
            /\ Return(-3, <<>>)
        BY <3>4 DEF ReadError
      <4>2. -3 \in Codes \ {-2, -1} /\ <<>> \in Seq(Byte)
        BY DEF Codes
      <4> QED
        BY <3>2, <4>1, <4>2
    <3> QED
      BY <2>3, <3>1, <3>2, <3>3, <3>4
  <2>5. WriteTyped'
    BY <1>a, <2>3, <2>4 DEF WriteTyped
  <2>6. Typed'
    BY <2>2, <2>5, TypedFrom
  <2> QED
    BY <2>1, <2>4, <2>5, <2>6 DEF ReceiveInv
<1>5. CASE UNCHANGED vars
  <2>1. UNCHANGED <<written, wire, ended, phase, slot, header, buff, bodySize, returned>>
    BY <1>5 DEF vars
  <2>2. CallTyped' /\ WriteTyped'
    BY <1>a, <2>1 DEF CallTyped, WriteTyped
  <2>3. EndSeen' /\ EachCallItsMessage' /\ ClosedInsideReported'
    BY <1>a, <2>1 DEF EndSeen, EachCallItsMessage, ClosedInsideReported, InStepBefore,
                      CutMidMessage
  <2>4. InPlace'
    <3>1. /\ Here' = Here /\ ReadAt' = ReadAt /\ WriteAt' = WriteAt /\ InStep' = InStep
          /\ BodyWanted' = BodyWanted
      BY <2>1 DEF Here, ReadAt, WriteAt, Taken, InStep, InStepBefore, BodyWanted
    <3>2. ReadSoFar' = ReadSoFar
      BY <2>1, <3>1 DEF ReadSoFar
    <3>3. OnTheWire' = OnTheWire
      BY <2>1, <3>1 DEF OnTheWire
    <3> QED
      BY <1>a, <3>1, <3>2, <3>3 DEF InPlace
  <2>5. Typed'
    BY <2>2, TypedFrom
  <2> QED
    BY <2>2, <2>3, <2>4, <2>5 DEF ReceiveInv
<1> QED
  BY <1>1, <1>2, <1>3, <1>4, <1>5 DEF Next

LEMMA ReceiveInvariant == Spec => []ReceiveInv
<1>1. Init => ReceiveInv
  BY InitReceive
<1>2. ReceiveInv /\ [Next]_vars => ReceiveInv'
  BY NextReceive
<1> QED
  BY <1>1, <1>2, PTL DEF Spec

\* The bytes, counters and codes of _zdtm_recv_message are what its
\* declarations say, whatever arrives.
THEOREM TypeCorrect == Spec => []TypeOK
<1>1. ReceiveInv => TypeOK
  BY DEF ReceiveInv, Typed
<1> QED
  BY <1>1, ReceiveInvariant, PTL

\* The i-th call of _zdtm_recv_message takes the i-th message, whole and as
\* what it is, however recv cuts the bytes, as long as no call before it lost
\* its place.
THEOREM MessagesInOrder == Spec => []EachCallItsMessage
<1>1. ReceiveInv => EachCallItsMessage
  BY DEF ReceiveInv
<1> QED
  BY <1>1, ReceiveInvariant, PTL

\* -2 tells of a message that the Zaurus closed in the middle of, and -1
\* of one only when the bytes end with the body size.
THEOREM CutsAreReported == Spec => []ClosedInsideReported
<1>1. ReceiveInv => ClosedInsideReported
  BY DEF ReceiveInv
<1> QED
  BY <1>1, ReceiveInvariant, PTL
-----------------------------------------------------------------------------
(***************************************************************************)
(* Calls see a reliable link of whole messages.                            *)
(***************************************************************************)
\* The messages from the n-th to the one before the m-th.
Pending(n, m) == SubSeq(Script, n, m - 1)

LEMMA PendingIs ==
    ASSUME NEW n \in Nat \ {0}, NEW m \in 1..Len(Script) + 1, n <= m
    PROVE  /\ Pending(n, m) \in Seq(Message) /\ Len(Pending(n, m)) = m - n
           /\ m - n \in Nat
           /\ \A j \in 1..m-n : Pending(n, m)[j] = Script[n + j - 1]
<1>1. Script \in Seq(Message) /\ Len(Script) \in Nat
  BY ScriptDomain
<1> DEFINE s == Script
<1>2. s \in Seq(Message) /\ Len(s) \in Nat
  BY <1>1
<1>3. m \in Int /\ n \in Int /\ m - 1 \in Int /\ m - n \in Nat
  BY <1>1
<1>4. \A i \in n..m-1 : s[i] \in Message
  <2>1. \A i \in n..m-1 : i \in 1..Len(s)
    BY <1>1, <1>3
  <2> QED
    BY <1>2, <2>1
<1>5. SubSeq(s, n, m - 1) = Pending(n, m)
  BY DEF Pending
<1> HIDE DEF s
<1>6. /\ SubSeq(s, n, m - 1) \in Seq(Message)
      /\ Len(SubSeq(s, n, m - 1)) = IF n <= m - 1 THEN m - 1 - n + 1 ELSE 0
      /\ \A j \in 1..m-1-n+1 : SubSeq(s, n, m - 1)[j] = s[n + j - 1]
  BY <1>3, <1>4, SubSeqProperties
<1>7. Len(SubSeq(s, n, m - 1)) = m - n
  BY <1>3, <1>6
<1>8. m - 1 - n + 1 = m - n
  BY <1>3
<1> QED
  BY <1>3, <1>5, <1>6, <1>7, <1>8 DEF s

LEMMA NonePending ==
    ASSUME NEW n \in 1..Len(Script) + 1 PROVE Pending(n, n) = <<>>
<1>1. n \in Nat \ {0} /\ n <= n /\ n - n = 0
  BY ScriptDomain
<1>2. Pending(n, n) \in Seq(Message) /\ Len(Pending(n, n)) = 0
  BY <1>1, PendingIs
<1> QED
  BY <1>2, EmptySeq

LEMMA OneMore ==
    ASSUME NEW n \in Nat \ {0}, NEW m \in 1..Len(Script), n <= m
    PROVE  Pending(n, m + 1) = Append(Pending(n, m), Script[m])
<1>1. m \in 1..Len(Script) + 1 /\ m + 1 \in 1..Len(Script) + 1 /\ n <= m + 1
      /\ m \in Nat /\ n \in Nat /\ m + 1 - n = m - n + 1
  BY ScriptDomain
<1> DEFINE p == Pending(n, m)  q == Pending(n, m + 1)
<1>2. /\ p \in Seq(Message) /\ Len(p) = m - n /\ m - n \in Nat
      /\ \A j \in 1..m-n : p[j] = Script[n + j - 1]
  BY <1>1, PendingIs
<1>3. /\ q \in Seq(Message) /\ Len(q) = m - n + 1
      /\ \A j \in 1..m-n+1 : q[j] = Script[n + j - 1]
  <2> DEFINE m1 == m + 1
  <2>1. m1 \in 1..Len(Script) + 1 /\ n <= m1 /\ m1 - n = m - n + 1
    BY <1>1
  <2>2. q = Pending(n, m1)
    OBVIOUS
  <2> HIDE DEF m1, q
  <2>3. /\ Pending(n, m1) \in Seq(Message) /\ Len(Pending(n, m1)) = m1 - n
        /\ \A j \in 1..m1-n : Pending(n, m1)[j] = Script[n + j - 1]
    BY <2>1, PendingIs
  <2> QED
    BY <2>1, <2>2, <2>3
<1> DEFINE x == Script[m]
<1>4. x \in Message
  BY ScriptDomain
<1>5. \A j \in 1..m-n+1 : j = m - n + 1 => n + j - 1 = m
  BY <1>1
<1>6. \A j \in 1..m-n+1 : q[j] = IF j = m - n + 1 THEN x ELSE p[j]
  <2> SUFFICES ASSUME NEW j \in 1..m-n+1 PROVE q[j] = IF j = m - n + 1 THEN x ELSE p[j]
    OBVIOUS
  <2>1. CASE j = m - n + 1
    BY <1>3, <1>5, <2>1
  <2>2. CASE j # m - n + 1
    <3>1. j \in 1..m-n
      BY <1>2, <2>2
    <3> QED
      BY <1>2, <1>3, <2>2, <3>1
  <2> QED
    BY <2>1, <2>2
<1> HIDE DEF p, q, x
<1>7. /\ Append(p, x) \in Seq(Message) /\ Len(Append(p, x)) = Len(p) + 1
      /\ \A j \in 1..Len(p) : Append(p, x)[j] = p[j]
      /\ Append(p, x)[Len(p) + 1] = x
  BY <1>2, <1>4, AppendProperties
<1>8. \A j \in 1..Len(q) : q[j] = Append(p, x)[j]
  <2> SUFFICES ASSUME NEW j \in 1..m-n+1 PROVE q[j] = Append(p, x)[j]
    BY <1>3
  <2>1. CASE j = m - n + 1
    BY <1>2, <1>6, <1>7, <2>1
  <2>2. CASE j # m - n + 1
    <3>1. j \in 1..m-n
      BY <1>2, <2>2
    <3> QED
      BY <1>2, <1>6, <1>7, <2>2, <3>1
  <2> QED
    BY <2>1, <2>2
<1>9. q = Append(p, x)
  BY <1>2, <1>3, <1>7, <1>8, SeqEqual
<1> QED
  BY <1>9 DEF p, q, x

LEMMA OneLess ==
    ASSUME NEW n \in Nat \ {0}, NEW m \in 1..Len(Script) + 1, n + 1 <= m
    PROVE  Pending(n, m) # <<>> /\ Tail(Pending(n, m)) = Pending(n + 1, m)
<1>1. n + 1 \in Nat \ {0} /\ n <= m /\ m \in Nat /\ n \in Nat /\ m - (n + 1) = m - n - 1
      /\ m - n >= 1
  BY ScriptDomain
<1> DEFINE p == Pending(n, m)  q == Pending(n + 1, m)
<1>2. /\ p \in Seq(Message) /\ Len(p) = m - n /\ m - n \in Nat
      /\ \A j \in 1..m-n : p[j] = Script[n + j - 1]
  BY <1>1, PendingIs
<1>3. /\ q \in Seq(Message) /\ Len(q) = m - n - 1
      /\ \A j \in 1..m-n-1 : q[j] = Script[n + 1 + j - 1]
  BY <1>1, PendingIs
<1>4. \A j \in 1..m-n-1 : q[j] = p[j + 1]
  <2> SUFFICES ASSUME NEW j \in 1..m-n-1 PROVE q[j] = p[j + 1]
    OBVIOUS
  <2>1. j + 1 \in 1..m-n /\ n + (j + 1) - 1 = n + 1 + j - 1
    BY <1>1
  <2>2. p[j + 1] = Script[n + (j + 1) - 1]
    BY <1>2, <2>1
  <2> QED
    BY <1>3, <2>1, <2>2
<1> HIDE DEF p, q
<1>5. p # <<>>
  BY <1>1, <1>2, EmptySeq
<1>6. /\ Tail(p) \in Seq(Message) /\ Len(Tail(p)) = Len(p) - 1
      /\ \A j \in 1..Len(p) - 1 : Tail(p)[j] = p[j + 1]
  BY <1>2, <1>5, HeadTailProperties
<1>7. Len(Tail(p)) = Len(q) /\ \A j \in 1..Len(Tail(p)) : Tail(p)[j] = q[j]
  BY <1>1, <1>2, <1>3, <1>4, <1>6
<1>8. Tail(p) = q
  BY <1>3, <1>6, <1>7, SeqEqual
<1> QED
  BY <1>5, <1>8 DEF p, q

\* The two variables of the link.
LinkConn  == IF ended = "open" /\ InStep THEN "up" ELSE "lost"
LinkQueue == IF wire = <<>> \/ ~InStep THEN <<>> ELSE Pending(Here, written[1])

\* Unless a reset took them, the messages on the link are those written to
\* their end and not yet taken.
LEMMA QueueIs ==
    ASSUME ReceiveInv, InStep
    PROVE  /\ Here \in Nat \ {0} /\ written[1] \in 1..Len(Script) + 1 /\ Here <= written[1]
           /\ (wire # <<>> \/ ended # "reset") => LinkQueue = Pending(Here, written[1])
<1>1. CallTyped /\ WriteTyped /\ OnTheWire
  BY DEF ReceiveInv, Typed, InPlace
<1>2. Here \in Nat \ {0} /\ written[1] \in 1..Len(Script) + 1 /\ Here <= written[1]
  BY <1>1, HereNat DEF WriteTyped, OnTheWire
<1>3. CASE wire # <<>>
  BY <1>2, <1>3 DEF LinkQueue
<1>4. CASE wire = <<>> /\ ended # "reset"
  <2>1. ReadAt = WriteAt
    BY <1>1, <1>4 DEF OnTheWire
  <2>2. Here = written[1]
    BY <2>1 DEF ReadAt, WriteAt
  <2>3. Pending(Here, written[1]) = <<>>
    BY <1>2, <2>2, NonePending
  <2> QED
    BY <1>2, <1>4, <2>3 DEF LinkQueue
<1> QED
  BY <1>2, <1>3, <1>4

LEMMA QueueIsNext ==
    ASSUME ReceiveInv', InStep', wire' # <<>> \/ ended' # "reset"
    PROVE  Here' <= written'[1] /\ LinkQueue' = Pending(Here', written'[1])
<1>1. CallTyped' /\ WriteTyped' /\ OnTheWire'
  BY DEF ReceiveInv, Typed, InPlace
<1>2. Here' <= written'[1] /\ written'[1] \in 1..Len(Script) + 1
  BY <1>1 DEF WriteTyped, OnTheWire
<1>3. CASE wire' # <<>>
  BY <1>2, <1>3 DEF LinkQueue
<1>4. CASE wire' = <<>> /\ ended' # "reset"
  <2>1. ReadAt' = WriteAt'
    BY <1>1, <1>4 DEF OnTheWire
  <2>2. Here' = written'[1]
    BY <2>1 DEF ReadAt, WriteAt
  <2>3. Pending(Here', written'[1]) = <<>>
    BY <1>2, <2>2, NonePending
  <2> QED
    BY <1>2, <1>4, <2>3 DEF LinkQueue
<1> QED
  BY <1>2, <1>3, <1>4

\* What a step is to the link.
LinkStep ==
    \/ \E m \in Message : /\ LinkConn = "up" /\ LinkConn' = LinkConn
                          /\ LinkQueue' = Append(LinkQueue, m)
    \/ LinkQueue # <<>> /\ LinkQueue' = Tail(LinkQueue) /\ LinkConn' = LinkConn
    \/ LinkConn' = "lost" /\ (LinkQueue' = LinkQueue \/ LinkQueue' = <<>>)
    \/ LinkConn' = LinkConn /\ LinkQueue' = LinkQueue

LEMMA WriteOnLink == ASSUME ReceiveInv, ReceiveInv', Write PROVE LinkStep
<1>1. PICK k, f, u : Written(k, f, u)
  <2>1. WriteTyped
    BY DEF ReceiveInv
  <2> QED
    BY <2>1, WriteFrame
<1>2. /\ k \in DOMAIN Script /\ ended = "open" /\ ended' = ended /\ written[1] = k
      /\ written' = IF u = SizeOf(k) THEN <<k + 1, 0>> ELSE <<k, u>>
      /\ returned' = returned
  BY <1>1 DEF Written
<1>3. InStep' = InStep /\ Here' = Here /\ LinkConn' = LinkConn
  BY <1>2 DEF InStep, InStepBefore, Here, LinkConn
<1>4. CASE ~InStep
  <2>1. LinkQueue = <<>> /\ LinkQueue' = <<>>
    BY <1>3, <1>4 DEF LinkQueue
  <2> QED
    BY <1>3, <2>1 DEF LinkStep
<1>5. CASE InStep
  <2>1. /\ Here \in Nat \ {0} /\ Here <= k /\ k \in 1..Len(Script)
        /\ LinkQueue = Pending(Here, k)
    BY <1>2, <1>5, QueueIs, ScriptDomain
  <2>2. LinkQueue' = Pending(Here, written'[1])
    <3>1. ASSUME ReceiveInv', InStep', ended' # "reset"
          PROVE  LinkQueue' = Pending(Here', written'[1])
      BY <3>1, QueueIsNext
    <3> QED
      BY <1>2, <1>3, <1>5, <3>1
  <2>3. CASE u = SizeOf(k)
    <3>1. written'[1] = k + 1
      BY <1>2, <2>3
    <3>2. LinkQueue' = Append(LinkQueue, Script[k])
      BY <2>1, <2>2, <3>1, OneMore
    <3>3. Script[k] \in Message /\ LinkConn = "up"
      BY <1>2, <1>5, ScriptMessage DEF LinkConn
    <3> QED
      BY <1>3, <3>2, <3>3 DEF LinkStep
  <2>4. CASE u # SizeOf(k)
    <3>1. written'[1] = k
      BY <1>2, <2>4
    <3> QED
      BY <1>3, <2>1, <2>2, <3>1 DEF LinkStep
  <2> QED
    BY <2>3, <2>4
<1> QED
  BY <1>4, <1>5

LEMMA ReadOnLink == ASSUME ReceiveInv, ReceiveInv', Read PROVE LinkStep
<1>a. /\ CallTyped /\ Typed /\ WriteTyped
  BY DEF ReceiveInv, Typed
<1>1. /\ written' = written
      /\ \/ /\ wire # <<>> /\ ended' = ended
            /\ \/ returned' = returned
               \/ \E c \in Codes \ {-2, -1}, b \in Seq(Byte) : Return(c, b)
         \/ ReadClosed
         \/ ReadError
  BY <1>a, ReadOutcome
<1>2. CASE wire # <<>> /\ ended' = ended /\ returned' = returned
  <2>1. InStep' = InStep /\ Here' = Here /\ LinkConn' = LinkConn
    BY <1>2 DEF InStep, InStepBefore, Here, LinkConn
  <2>2. CASE ~InStep
    <3>1. LinkQueue = <<>> /\ LinkQueue' = <<>>
      BY <2>1, <2>2 DEF LinkQueue
    <3> QED
      BY <2>1, <3>1 DEF LinkStep
  <2>3. CASE InStep /\ (wire' # <<>> \/ ended # "reset")
    <3>1. LinkQueue = Pending(Here, written[1])
      BY <1>2, <2>3, QueueIs
    <3>2. LinkQueue' = Pending(Here', written'[1])
      BY <1>2, <2>1, <2>3, QueueIsNext
    <3> QED
      BY <1>1, <2>1, <3>1, <3>2 DEF LinkStep
  <2>4. CASE InStep /\ wire' = <<>> /\ ended = "reset"
    <3>1. LinkQueue' = <<>> /\ LinkConn' = "lost"
      BY <1>2, <2>4 DEF LinkQueue, LinkConn
    <3> QED
      BY <3>1 DEF LinkStep
  <2> QED
    BY <2>2, <2>3, <2>4
<1>3. ASSUME NEW c \in Codes, NEW b \in Seq(Byte), Return(c, b),
             (ended' = "open") = (ended = "open"), c \notin Lost => wire # <<>> /\ ended' = ended
      PROVE  LinkStep
  <2>1. Here' = Here + 1 /\ InStep' = (InStep /\ c \notin Lost)
    BY <1>a, <1>3, ReturnFrame
  <2>2. CASE ~InStep
    <3>1. LinkQueue = <<>> /\ LinkQueue' = <<>> /\ LinkConn = "lost" /\ LinkConn' = "lost"
      BY <2>1, <2>2 DEF LinkQueue, LinkConn
    <3> QED
      BY <3>1 DEF LinkStep
  <2>3. CASE c \in Lost
    <3>1. LinkQueue' = <<>> /\ LinkConn' = "lost"
      BY <2>1, <2>3 DEF LinkQueue, LinkConn
    <3> QED
      BY <3>1 DEF LinkStep
  <2>4. CASE InStep /\ c \notin Lost
    <3>1. InStep' /\ LinkConn' = LinkConn /\ wire # <<>> /\ ended' = ended
      BY <1>3, <2>1, <2>4 DEF LinkConn
    <3>2. CASE wire' # <<>> \/ ended # "reset"
      <4>1. /\ Here \in Nat \ {0} /\ written[1] \in 1..Len(Script) + 1
            /\ LinkQueue = Pending(Here, written[1])
        BY <2>4, <3>1, QueueIs
      <4>2. Here + 1 <= written[1] /\ LinkQueue' = Pending(Here + 1, written[1])
        BY <1>1, <2>1, <3>1, <3>2, QueueIsNext
      <4>3. LinkQueue # <<>> /\ LinkQueue' = Tail(LinkQueue)
        BY <4>1, <4>2, OneLess
      <4> QED
        BY <3>1, <4>3 DEF LinkStep
    <3>3. CASE wire' = <<>> /\ ended = "reset"
      <4>1. LinkQueue' = <<>> /\ LinkConn' = "lost"
        BY <3>1, <3>3 DEF LinkQueue, LinkConn
      <4> QED
        BY <4>1 DEF LinkStep
    <3> QED
      BY <3>2, <3>3
  <2> QED
    BY <2>2, <2>3, <2>4
<1>4. ASSUME NEW c \in Codes \ {-2, -1}, NEW b \in Seq(Byte), Return(c, b),
             wire # <<>>, ended' = ended
      PROVE  LinkStep
  BY <1>3, <1>4
<1>5. CASE ReadClosed
  <2>1. /\ ClosedCode(TotBytesRead) \in Codes /\ ClosedCode(TotBytesRead) \in Lost
        /\ <<>> \in Seq(Byte)
    BY DEF ClosedCode, Codes, Lost
  <2>2. Return(ClosedCode(TotBytesRead), <<>>) /\ ended' = ended
    BY <1>5 DEF ReadClosed, zaurusVars
  <2> QED
    BY <1>3, <2>1, <2>2
<1>6. CASE ReadError
  <2>1. -3 \in Codes /\ -3 \in Lost /\ <<>> \in Seq(Byte)
    BY DEF Codes, Lost
  <2>2. Return(-3, <<>>) /\ (ended' = "open") = (ended = "open")
    BY <1>6 DEF ReadError
  <2> QED
    BY <1>3, <2>1, <2>2
<1> QED
  BY <1>1, <1>2, <1>4, <1>5, <1>6

LEMMA NextOnLink == ASSUME ReceiveInv, ReceiveInv', [Next]_vars PROVE LinkStep
<1>1. CASE Write
  BY <1>1, WriteOnLink
<1>2. CASE End
  <2>1. /\ ended' \in {"closed", "reset"} /\ (wire' = wire \/ wire' = <<>>)
        /\ UNCHANGED <<written, returned>>
    BY <1>2, EndingNames DEF End
  <2>2. InStep' = InStep /\ Here' = Here /\ LinkConn' = "lost"
    BY <2>1 DEF InStep, InStepBefore, Here, LinkConn
  <2>3. LinkQueue' = LinkQueue \/ LinkQueue' = <<>>
    BY <2>1, <2>2 DEF LinkQueue
  <2> QED
    BY <2>2, <2>3 DEF LinkStep
<1>3. CASE Begin \/ UNCHANGED vars
  <2>1. UNCHANGED <<written, ended, wire, returned>>
    BY <1>3 DEF Begin, zaurusVars, vars
  <2>2. InStep' = InStep /\ Here' = Here
    BY <2>1 DEF InStep, InStepBefore, Here
  <2>3. LinkConn' = LinkConn /\ LinkQueue' = LinkQueue
    BY <2>1, <2>2 DEF LinkConn, LinkQueue
  <2> QED
    BY <2>3 DEF LinkStep
<1>4. CASE Read
  BY <1>4, ReadOnLink
<1> QED
  BY <1>1, <1>2, <1>3, <1>4 DEF Next

LEMMA LinkMessages == Link!Message = Message
BY DEF Link!Message, Link!MsgTypes, Link!CommonTypes, Link!RequestTypes,
       Link!ReplyTypes, Link!AnySyncType, Message, MsgTypes, CommonTypes, RequestTypes,
       ReplyTypes, AnySyncType

\* However the bytes of connfd are cut, the calls of _zdtm_recv_message see what
\* the protocol functions are written for: a link on which whole messages
\* arrive in the order they were sent, until it ends.
THEOREM CallsSeeMessages == Spec => ImplementsLink
<1>1. Init => Link!LinkInit
  <2> SUFFICES ASSUME Init PROVE Link!LinkInit
    OBVIOUS
  <2>1. /\ wire = <<>> /\ ended = "open" /\ returned = <<>>
    BY DEF Init
  <2>2. InStep
    BY <2>1 DEF InStep, InStepBefore
  <2> QED
    BY <2>1, <2>2 DEF Link!LinkInit
<1>2. ReceiveInv /\ ReceiveInv' /\ [Next]_vars => [Link!LinkNext]_(Link!chanVars)
  <2> SUFFICES ASSUME ReceiveInv, ReceiveInv', [Next]_vars
               PROVE  [Link!LinkNext]_(Link!chanVars)
    OBVIOUS
  <2>1. LinkStep
    BY NextOnLink
  <2>2. CASE \E m \in Message : /\ LinkConn = "up" /\ LinkConn' = LinkConn
                                /\ LinkQueue' = Append(LinkQueue, m)
    BY <2>2, LinkMessages
       DEF Link!LinkNext, Link!SendToDesktop, LinkConn, LinkQueue, Pending, Here
  <2>3. CASE LinkQueue # <<>> /\ LinkQueue' = Tail(LinkQueue) /\ LinkConn' = LinkConn
    BY <2>3 DEF Link!LinkNext, Link!RecvFromZaurus, LinkConn, LinkQueue, Pending, Here
  <2>4. CASE LinkConn' = "lost" /\ (LinkQueue' = LinkQueue \/ LinkQueue' = <<>>)
    BY <2>4 DEF Link!LinkNext, Link!LinkEnds, LinkConn, LinkQueue, Pending, Here
  <2>5. CASE LinkConn' = LinkConn /\ LinkQueue' = LinkQueue
    BY <2>5 DEF Link!chanVars, LinkConn, LinkQueue, Pending, Here
  <2> QED
    BY <2>1, <2>2, <2>3, <2>4, <2>5 DEF LinkStep
<1> QED
  BY <1>1, <1>2, ReceiveInvariant, PTL DEF Spec, ImplementsLink, Link!LinkSpec
=============================================================================
