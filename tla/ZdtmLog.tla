------------------------------- MODULE ZdtmLog ------------------------------
(***************************************************************************)
(* _zdtm_dump_msg_log: the raw content of a message goes to the log in     *)
(* lines that begin with the offset of their first byte.  A line is put    *)
(* together in a buffer on the stack, by snprintf calls that are given the *)
(* rest of the buffer, and written when it is complete; a write may fail.  *)
(***************************************************************************)
EXTENDS Integers

CONSTANTS
    Sizes,          \* the content sizes looked at
    PerLine,        \* bytes of a full line, 15
    BuffSize        \* the size of buff, 256

\* What the theorems take as hypothesis: cont_size is a uint16_t; the lines of
\* the code are shorter than 40 bytes.
SizesAssumption == Sizes \subseteq Nat /\ \A s \in Sizes : s < 65536
LineAssumption  == PerLine \in 1..40
BuffAssumption  == BuffSize = 256
LogAssumption   == SizesAssumption /\ LineAssumption /\ BuffAssumption

VARIABLES
    size,       \* p_msg->cont_size
    phase,      \* "head", "line", "byte", "write", "tail" or "done"
    i, j,       \* the loop variables: the line's first byte, the next byte
    used,       \* buff_bytes
    label,      \* for each byte the offset its line in the log began with
    code        \* what was returned

vars == <<size, phase, i, j, used, label, code>>

Bytes  == 0..(size - 1)
Absent == -1

\* "%.3d: " and "0x%.2x ".
OffsetWidth(n) == 2 + (IF n < 1000 THEN 3 ELSE IF n < 10000 THEN 4 ELSE 5)
ByteWidth      == 5

\* The first byte that is not in the line that begins with byte n.
LineEnd(n) == IF size - n >= PerLine THEN n + PerLine ELSE size

TypeOK ==
    /\ size \in Sizes
    /\ phase \in {"head", "line", "byte", "write", "tail", "done"}
    /\ i \in 0..size /\ j \in 0..size
    /\ used \in Nat
    /\ label \in [Bytes -> {Absent} \cup Bytes]
    /\ code \in {-3, 0}

Init ==
    /\ size \in Sizes /\ phase = "head"
    /\ i = 0 /\ j = 0 /\ used = 0 /\ code = 0
    /\ label = [b \in Bytes |-> Absent]
-----------------------------------------------------------------------------
\* A failed write, here of the head, gives the message up.
WriteFails ==
    /\ phase \in {"head", "write", "tail"}
    /\ phase' = "done" /\ code' = -3
    /\ UNCHANGED <<size, i, j, used, label>>

\* The start of the dump, the header and the type.
WriteHead ==
    /\ phase = "head"
    /\ phase' = "line"
    /\ UNCHANGED <<size, i, j, used, label, code>>

BeginLine ==
    /\ phase = "line" /\ i < size
    /\ used' = used + OffsetWidth(i)
    /\ j' = i /\ phase' = "byte"
    /\ UNCHANGED <<size, i, label, code>>

PrintByte ==
    /\ phase = "byte" /\ j < LineEnd(i)
    /\ used' = used + ByteWidth
    /\ j' = j + 1
    /\ UNCHANGED <<size, phase, i, label, code>>

\* The newline.
EndLine ==
    /\ phase = "byte" /\ j = LineEnd(i)
    /\ used' = used + 1
    /\ phase' = "write"
    /\ UNCHANGED <<size, i, j, label, code>>

WriteLine ==
    /\ phase = "write"
    /\ label' = [b \in Bytes |-> IF i <= b /\ b < j THEN i ELSE label[b]]
    /\ i' = j /\ used' = 0
    /\ phase' = "line"
    /\ UNCHANGED <<size, j, code>>

ContentDone ==
    /\ phase = "line" /\ i >= size
    /\ phase' = "tail"
    /\ UNCHANGED <<size, i, j, used, label, code>>

\* The sizes and the checksum.
WriteTail ==
    /\ phase = "tail"
    /\ phase' = "done"
    /\ UNCHANGED <<size, i, j, used, label, code>>

Next == WriteFails \/ WriteHead \/ BeginLine \/ PrintByte \/ EndLine \/ WriteLine
           \/ ContentDone \/ WriteTail

Spec == Init /\ [][Next]_vars
-----------------------------------------------------------------------------
(***************************************************************************)
(* No snprintf is ever cut short: a line fits the buffer with its final    *)
(* null byte, whatever the offset.  The code could not tell, it compares   *)
(* the length with the size of the whole buffer (zdtm_log.c:211-270).      *)
(***************************************************************************)
LineFits == used < BuffSize

(***************************************************************************)
(* A dump that succeeds has each byte of the content, in a line that       *)
(* begins at most PerLine - 1 before it, with that offset; one that fails  *)
(* has the content up to some byte and nothing behind (zdtm_log.c:206-277).*)
(***************************************************************************)
DumpIsContent ==
    /\ \A b \in Bytes : b < i => label[b] # Absent /\ label[b] <= b /\ b < label[b] + PerLine
    /\ \A b \in Bytes : b >= i => label[b] = Absent
    /\ (phase = "done" /\ code = 0) => i = size
=============================================================================
