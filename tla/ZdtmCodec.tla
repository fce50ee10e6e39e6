----------------------------- MODULE ZdtmCodec ------------------------------
(***************************************************************************)
(* How a message becomes bytes and back: the length and write functions of *)
(* every request, _zdtm_prepare_message around them with its error codes,  *)
(* and the integers of the replies.  A value is the sequence of its bytes, *)
(* least significant first, whatever the machine; strings are their        *)
(* lengths.  What a write function puts into the buffer is a sequence of   *)
(* pieces, an integer with the bytes it leaves in memory or a blob.        *)
(***************************************************************************)
EXTENDS Integers, SequencesExt

CONSTANTS
    BigEndian,      \* WORDS_BIGENDIAN
    Contents,       \* what the program may fill into a message
    MSG_TYPE_SIZE, RMS_LOG_SIZE, RTS_DATE_LEN,
    SYNC_TYPE_TODO

ASSUME CodecAssumption ==
    /\ BigEndian \in BOOLEAN
    /\ MSG_TYPE_SIZE \in Nat /\ RMS_LOG_SIZE \in Nat /\ RTS_DATE_LEN \in Nat

RET_NNULL_RAW  == -7
RET_UNK_TYPE_Bare == 10     \* Mutant: the sign is lost.
RET_UNK_TYPE   == -10
RET_UNK_VAR    == -12
UINT16         == 65536     \* uint16_t counts modulo this

VARIABLES
    content,    \* type and content of the zdtm_msg
    raw,        \* what body.p_raw_content points to
    result      \* what the last prepare returned and computed

vars == <<content, raw, result>>
-----------------------------------------------------------------------------
(***************************************************************************)
(* Integers.                                                               *)
(***************************************************************************)
Memory(value) == IF BigEndian THEN Reverse(value) ELSE value

\* Conversion to a narrower or wider unsigned type.
Cast(value, width) ==
    [i \in 1..width |-> IF i <= Len(value) THEN value[i] ELSE 0]

zdtm_liltobigs(value) == Reverse(Cast(value, 2))
zdtm_liltobigl(value) == Reverse(Cast(value, 4))

Converted(by, value) ==
    IF by = "liltobigs" THEN zdtm_liltobigs(value) ELSE zdtm_liltobigl(value)

\* *((uintN_t*)buf) = value, on a big-endian machine after a conversion.
Stored(by, value) ==
    Memory(IF BigEndian THEN Cast(Converted(by, value), Len(value)) ELSE value)

\* value = *((uintN_t*)buf), the same way round.
Read(by, bytes) ==
    IF BigEndian THEN Cast(Converted(by, Memory(bytes)), Len(bytes)) ELSE bytes

Number(name, value, bytes) ==
    [name |-> name, size |-> Len(bytes), value |-> value, bytes |-> bytes]
Short(name, value) == Number(name, value, Stored("liltobigs", value))
\* Mutant: as sync_id is stored.
LongShort(name, value) == Number(name, value, Stored("liltobigs", value))
Long(name, value)  == Number(name, value, Stored("liltobigl", value))
Blob(name, size)   == [name |-> name, size |-> size, value |-> <<>>, bytes |-> <<>>]
Byte(name)         == Blob(name, 1)

\* A uint32_t or uint16_t that holds n, for small n.
Of(n, width) == [i \in 1..width |-> IF i > 3 THEN 0 ELSE (n \div 256^(i-1)) % 256]

NULL == <<Blob("NULL", 0)>>

\* The bytes that the pieces take.
Written(pieces) ==
    LET upTo[i \in 0..Len(pieces)] == IF i = 0 THEN 0 ELSE upTo[i-1] + pieces[i].size
    IN  upTo[Len(pieces)]
-----------------------------------------------------------------------------
(***************************************************************************)
(* The requests.  length is what the length function returns, write what   *)
(* the write function leaves in the buffer, ok that it returns a pointer.  *)
(***************************************************************************)
Coded(length, write) == [length |-> length, write |-> write, ok |-> TRUE]

\* RAY, RIG and RTG have no content.
Empty(c) == Coded(0, <<>>)

RRL(c) == LET pw_size == c.len % 256    \* an unsigned char
          IN  Coded(1 + pw_size, <<Byte("pw_size"), Blob("pw", pw_size)>>)

RMG(c) == Coded(2, <<Byte("uk"), Byte("sync_type")>>)

\* Mutant: the padding of the log is left to the receiver.
RMSUnpadded(c) ==
    Coded(2 + RMS_LOG_SIZE, <<Short("log_size", Of(c.len, 2)), Blob("log", c.len)>>)

RMS(c) ==
    IF c.len > RMS_LOG_SIZE
    THEN [length |-> 2 + RMS_LOG_SIZE, write |-> <<>>, ok |-> FALSE]
    ELSE Coded(2 + RMS_LOG_SIZE,
               <<Short("log_size", Of(c.len, 2)), Blob("log", c.len),
                 Blob("zeros", RMS_LOG_SIZE - c.len)>>)

RTS(c) == Coded(RTS_DATE_LEN, <<Blob("date", RTS_DATE_LEN)>>)

RDI(c) == Coded(2, <<Byte("sync_type"), Byte("uk")>>)

RSY(c) == Coded(2, <<Byte("sync_type"), Byte("uk")>>)

RSS(c) == Coded(3, <<Byte("uk_1"), Byte("sync_type"), Byte("uk_2")>>)

\* On a big-endian machine the 32 bits of sync_id go through the 16-bit
\* conversion.
Id(value) == Number("sync_id", value, Stored("liltobigs", value))

RDR(c) == Coded(1 + 2 + 4, <<Byte("sync_type"), Short("num_sync_ids", Of(1, 2)),
                             Id(c.sync_id)>>)

RDD(c) == Coded(1 + 2 + 4, <<Byte("sync_type"), Short("num_sync_ids", Of(1, 2)),
                             Id(c.sync_id)>>)

RDS(c) == Coded(4, <<Byte("sync_type"), Byte("status"), Blob("null_bytes", 2)>>)

RQT(c) == Coded(3, <<Blob("null_bytes", 3)>>)

RLR(c) == Coded(1, <<Byte("sync_type")>>)

\* The path length is stored as the machine has it.
RGE(c) == Coded(2 + c.len, <<Number("path_len", Of(c.len, 2), Memory(Of(c.len, 2))),
                             Blob("path", c.len)>>)
-----------------------------------------------------------------------------
(***************************************************************************)
(* The request that writes a todo item.                                    *)
(***************************************************************************)
zdtm_todo_length(c) == 4 + c.category_len + (4 + 5) + (4 + 5) + (4 + 5) + (4 + 1)
                       + (4 + 1) + 4 + c.description_len + 4 + c.notes_len

Prefixed(name, size) == <<Long("size of " \o name, Of(size, 4)), Blob(name, size)>>

\* The category is announced with the size of its length field (on a big-endian
\* machine with its length); of description and notes as many bytes are
\* copied as their length fields have.
zdtm_todo_write(c) ==
    <<Long("size of category", Of(IF BigEndian THEN c.category_len ELSE 4, 4)),
      Blob("category", c.category_len)>>
    \o Prefixed("start_date", 5) \o Prefixed("due_date", 5)
    \o Prefixed("completed_date", 5)
    \o Prefixed("progress", 1) \o Prefixed("priority", 1)
    \o <<Long("size of description", Of(c.description_len, 4)), Blob("description", 4),
         Long("size of notes", Of(c.notes_len, 4)), Blob("notes", 4)>>

RDWHead(c) == <<Byte("sync_type"), Short("num_sync_ids", Of(1, 2)), Id(c.sync_id)>>

\* Variation 1 writes a new item, 2 an attribute, 3 an item that exists.
RDWPrefix(c) ==
    CASE c.variation = 1 -> <<Blob("padding", 16)>>
      [] c.variation = 2 -> Prefixed("attribute", 1)
      [] c.variation = 3 -> Prefixed("attribute", 1) \o Prefixed("created", 5)
                            \o Prefixed("modified", 5) \o Prefixed("id", 4)
      [] OTHER           -> <<>>

HasItem(c) == c.variation \in {1, 3}

zdtm_rdw_length(c) ==
    IF c.variation \notin 1..3 THEN RET_UNK_VAR
    ELSE IF HasItem(c) /\ c.sync_type # SYNC_TYPE_TODO THEN RET_UNK_TYPE
    ELSE 7 + Written(RDWPrefix(c)) + (IF HasItem(c) THEN zdtm_todo_length(c) ELSE 0)

zdtm_rdw_write(c) ==
    RDWHead(c) \o RDWPrefix(c) \o (IF HasItem(c) THEN zdtm_todo_write(c) ELSE <<>>)

RDW(c) ==
    LET writable == ~HasItem(c) \/ c.sync_type = SYNC_TYPE_TODO
    IN  [length |-> zdtm_rdw_length(c), ok |-> writable,
         write |-> IF writable THEN zdtm_rdw_write(c) ELSE <<>>]
-----------------------------------------------------------------------------
RequestTypes == {"RRL", "RMG", "RMS", "RTS", "RDI", "RSY", "RSS", "RDR", "RDW",
                 "RDD", "RDS", "RQT", "RLR", "RGE", "RAY", "RIG", "RTG"}

Code(c) ==
    CASE c.type = "RRL" -> RRL(c) [] c.type = "RMG" -> RMG(c) [] c.type = "RMS" -> RMS(c)
      [] c.type = "RTS" -> RTS(c) [] c.type = "RDI" -> RDI(c) [] c.type = "RSY" -> RSY(c)
      [] c.type = "RSS" -> RSS(c) [] c.type = "RDR" -> RDR(c) [] c.type = "RDW" -> RDW(c)
      [] c.type = "RDD" -> RDD(c) [] c.type = "RDS" -> RDS(c) [] c.type = "RQT" -> RQT(c)
      [] c.type = "RLR" -> RLR(c) [] c.type = "RGE" -> RGE(c) [] OTHER -> Empty(c)

\* body_size and, header field and content size, cont_size.
BodySizeOf(c) == (MSG_TYPE_SIZE + Code(c).length) % UINT16
ContSizeOf(c) == (BodySizeOf(c) - MSG_TYPE_SIZE) % UINT16

NoContent == [type |-> "none"]
NoResult  == [code |-> 1, body |-> 0, cont |-> 0]

Outcome(code, c) == [code |-> code, body |-> BodySizeOf(c), cont |-> ContSizeOf(c)]

TypeOK ==
    /\ content = NoContent \/ content \in Contents
    /\ result = NoResult \/ (result.code \in -14..0 /\ result.body \in 0..UINT16-1)
    /\ raw # NULL => content # NoContent

Init == content = NoContent /\ raw = NULL /\ result = NoResult

\* The caller fills type and content in; a message that was prepared and not
\* cleaned keeps its raw content.
Fill ==
    /\ content' \in Contents
    /\ result' = NoResult
    /\ UNCHANGED raw

PrepareUnknown ==
    /\ content # NoContent /\ content.type \notin RequestTypes
    /\ result' = Outcome(RET_UNK_TYPE, content)
    /\ UNCHANGED <<content, raw>>

PrepareAgain ==
    /\ content # NoContent /\ content.type \in RequestTypes
    /\ raw # NULL
    /\ result' = Outcome(RET_NNULL_RAW, content)
    /\ UNCHANGED <<content, raw>>

PrepareNoMemory ==
    /\ content # NoContent /\ content.type \in RequestTypes
    /\ raw = NULL
    /\ result' = Outcome(-1, content)
    /\ UNCHANGED <<content, raw>>

\* Of the write functions that fail only that of RDW is looked at.
Prepare ==
    /\ content # NoContent /\ content.type \in RequestTypes
    /\ raw = NULL
    /\ raw' = Code(content).write
    /\ result' = Outcome(IF content.type = "RDW" /\ ~Code(content).ok
                         THEN RET_UNK_TYPE ELSE 0, content)
    /\ UNCHANGED content

\* _zdtm_clean_message also takes the passcode of an RRL along.
Clean ==
    /\ content # NoContent
    /\ raw' = NULL /\ result' = NoResult
    /\ content' = IF content.type = "RRL" THEN NoContent ELSE content

Next == Fill \/ PrepareUnknown \/ PrepareAgain \/ PrepareNoMemory \/ Prepare \/ Clean

Spec == Init /\ [][Next]_vars
-----------------------------------------------------------------------------
(***************************************************************************)
(* The integers of the replies: their width and the conversion applied.    *)
(***************************************************************************)
Field(name, width, by) == [name |-> name, width |-> width, by |-> by]

AIGInts == {Field("AIG model_str_len", 2, "liltobigs")}

ADIInts == {Field("ADI num_cards", 4, "liltobigl"), Field("ADI num_params", 2, "liltobigs"),
            Field("ADI desc_len", 2, "liltobigs")}

ASYInts == {Field("ASY num_sync_ids", 2, "liltobigs"), Field("ASY sync_id", 4, "liltobigl")}

ADRInts == {Field("ADR num_params", 2, "liltobigl"), Field("ADR param_len", 4, "liltobigl")}

ADWInts == {Field("ADW num_sync_ids", 2, "liltobigl"), Field("ADW sync_id", 4, "liltobigl")}

\* The body size of whatever comes.
ReceivedBodySize == Field("body_size", 2, "liltobigs")

Received == AIGInts \cup ADIInts \cup ASYInts \cup ADRInts \cup ADWInts \cup {ReceivedBodySize}

\* The content size in the header, and the body size behind it, which is sent
\* as the machine has it.
ContSizeField(n) == Short("cont_size", Of(n, 2))
BodySizeField(n) == Number("body_size", Of(n, 2), Memory(Of(n, 2)))
-----------------------------------------------------------------------------
(***************************************************************************)
(* Properties.                                                             *)
(***************************************************************************)
Prepared == result # NoResult /\ result.code = 0

\* What _zdtm_prepare_message announces in body_size and cont_size is what the
\* write function puts into the buffer of that size.
LengthIsWritten ==
    Prepared => /\ Written(raw) = result.cont
                /\ result.body = MSG_TYPE_SIZE + result.cont

\* On either kind of machine every integer is on the wire least significant byte
\* first and comes back from there as it was, because it went through the
\* conversion of its own width, but for five on a big-endian machine: the
\* sync_id of RDR, RDD and RDW, 32 bits through the 16-bit conversion, path_len
\* and body_size, which are sent unconverted, and the counts of ADR and ADW, 16
\* bits through the 32-bit conversion (zdtm_rdr_msg.c:51-53, zdtm_adr_msg.c:32).
Mangled == {"sync_id", "path_len", "body_size"}
Misread == {"ADR num_params", "ADW num_sync_ids"}

Sent == {raw[i] : i \in DOMAIN raw} \cup {ContSizeField(result.cont), BodySizeField(result.body)}

IntegersConverted ==
    Prepared =>
      /\ \A p \in Sent : p.bytes = p.value \/ (BigEndian /\ p.name \in Mangled)
      /\ \A f \in Received :
           LET value == Cast(content.sync_id, f.width)
           IN  Read(f.by, value) = value \/ (BigEndian /\ f.name \in Misread)

\* "Copies the contents of a zdtm_todo struct into a packet buffer"
\* (zdtm_common.c): each variable field is there whole, behind its size.
ItemIsWritten ==
    Prepared /\ content.type = "RDW" /\ HasItem(content) =>
      LET field(name, size) ==
            \E i \in 1 .. Len(raw) - 1 :
              /\ raw[i].name = "size of " \o name /\ raw[i].value = Of(size, 4)
              /\ raw[i+1].name = name /\ raw[i+1].size = size
      IN  /\ field("category", content.category_len)
          /\ field("description", content.description_len)
          /\ field("notes", content.notes_len)

\* "Failed, unknown variation for RDW message" (zdtm_msgs.h, RET_UNK_VAR).
UnknownVariationRefused ==
    result # NoResult /\ content.type = "RDW" /\ content.variation \notin 1..3
      => result.code # 0

\* "Failed, size field bad" (zdtm_msgs.h, RET_BAD_SIZE).
BadSizeRefused ==
    result # NoResult /\ content.type = "RMS" /\ content.len > RMS_LOG_SIZE
      => result.code # 0
=============================================================================
