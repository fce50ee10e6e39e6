---------------------------- MODULE ZdtmLog_proofs --------------------------
(***************************************************************************)
(* The dump of a message, for every content size a body can have.          *)
(***************************************************************************)
EXTENDS ZdtmLog, TLAPS

(***************************************************************************)
(* The inductive invariant: how far the line in the buffer has come, and   *)
(* how much of the buffer that takes.                                      *)
(***************************************************************************)
InLine ==
    /\ phase \in {"byte", "write"} =>
          /\ i < size /\ i <= j /\ j <= i + PerLine
          /\ used = OffsetWidth(i) + ByteWidth * (j - i) + (IF phase = "write" THEN 1 ELSE 0)
    /\ phase = "write" => i < j
    /\ phase \notin {"byte", "write", "done"} => used = 0
    /\ phase = "done" /\ used # 0 => code = -3 /\ used <= 208
    /\ phase = "tail" \/ (phase = "done" /\ code = 0) => i = size
    /\ phase # "done" => code = 0

Content ==
    /\ \A b \in Bytes : b < i => label[b] # Absent /\ label[b] <= b /\ b < label[b] + PerLine
    /\ \A b \in Bytes : b >= i => label[b] = Absent

IInv == TypeOK /\ InLine /\ Content

LEMMA SizeIsNat == ASSUME LogAssumption, TypeOK PROVE size \in Nat
BY DEF TypeOK, LogAssumption, SizesAssumption

\* Where a line ends.
LEMMA LineEndBounds ==
    ASSUME LogAssumption, TypeOK, i < size
    PROVE  LineEnd(i) \in Int /\ i < LineEnd(i) /\ LineEnd(i) <= size /\ LineEnd(i) <= i + PerLine
<1>1. size \in Nat /\ i \in Nat /\ PerLine \in 1..40
  BY SizeIsNat DEF TypeOK, LogAssumption, LineAssumption
<1> QED
  BY <1>1 DEF LineEnd

LEMMA WidthBounds == ASSUME NEW n \in Nat PROVE OffsetWidth(n) \in 5..7
BY DEF OffsetWidth

LEMMA InitInv == ASSUME LogAssumption, Init PROVE IInv
<1>1. size \in Nat
  BY DEF Init, LogAssumption, SizesAssumption
<1>2. TypeOK
  BY <1>1 DEF Init, TypeOK
<1>3. InLine
  BY <1>1 DEF Init, InLine
<1>4. Content
  BY <1>1 DEF Init, Content, Bytes
<1> QED
  BY <1>2, <1>3, <1>4 DEF IInv

\* A line that is being put together takes at most 208 bytes of the buffer.
LEMMA UsedBound == ASSUME LogAssumption, IInv PROVE used <= 208
<1>1. i \in Nat /\ j \in Nat /\ PerLine \in 1..40 /\ used \in Nat
  BY SizeIsNat DEF IInv, TypeOK, LogAssumption, LineAssumption
<1>2. CASE phase \in {"byte", "write"}
  <2>1. OffsetWidth(i) \in 5..7
    BY <1>1, WidthBounds
  <2>2. j - i \in 0..40
    BY <1>1, <1>2 DEF IInv, InLine
  <2>3. used <= 7 + 5 * (j - i) + 1
    BY <1>1, <1>2, <2>1, <2>2 DEF IInv, InLine, ByteWidth
  <2> QED
    BY <1>1, <2>2, <2>3
<1>3. CASE phase \notin {"byte", "write"}
  BY <1>1, <1>3 DEF IInv, InLine, TypeOK
<1> QED
  BY <1>2, <1>3

LEMMA NextInv == ASSUME LogAssumption, IInv, [Next]_vars PROVE IInv'
<1> USE DEF IInv
<1>0. size \in Nat /\ i \in Nat /\ j \in Nat /\ used \in Nat /\ PerLine \in 1..40
  BY SizeIsNat DEF TypeOK, LogAssumption, LineAssumption
<1>1. CASE WriteFails
  <2>1. TypeOK' /\ Content'
    BY <1>0, <1>1 DEF WriteFails, TypeOK, Content, Bytes
  <2>2. used <= 208
    BY UsedBound
  <2>3. InLine'
    BY <1>0, <1>1, <2>2 DEF WriteFails, InLine
  <2> QED
    BY <2>1, <2>3
<1>2. CASE WriteHead
  BY <1>0, <1>2 DEF WriteHead, TypeOK, InLine, Content, Bytes
<1>3. CASE BeginLine
  <2>1. OffsetWidth(i) \in 5..7
    BY <1>0, WidthBounds
  <2>2. TypeOK' /\ Content'
    BY <1>0, <1>3, <2>1 DEF BeginLine, TypeOK, Content, Bytes
  <2>3. InLine'
    BY <1>0, <1>3, <2>1 DEF BeginLine, InLine, ByteWidth, OffsetWidth
  <2> QED
    BY <2>2, <2>3
<1>4. CASE PrintByte
  <2>1. i < size
    BY <1>4 DEF PrintByte, InLine
  <2>2. LineEnd(i) \in Int /\ LineEnd(i) <= size /\ LineEnd(i) <= i + PerLine
    BY <2>1, LineEndBounds
  <2>3. TypeOK' /\ Content'
    BY <1>0, <1>4, <2>2 DEF PrintByte, TypeOK, Content, Bytes, ByteWidth
  <2>4. OffsetWidth(i) \in 5..7
    BY <1>0, WidthBounds
  <2>5. InLine'
    BY <1>0, <1>4, <2>2, <2>4 DEF PrintByte, InLine, ByteWidth, OffsetWidth
  <2> QED
    BY <2>3, <2>5
<1>5. CASE EndLine
  <2>1. i < size
    BY <1>5 DEF EndLine, InLine
  <2>2. LineEnd(i) \in Int /\ i < LineEnd(i)
    BY <2>1, LineEndBounds
  <2>3. TypeOK' /\ Content'
    BY <1>0, <1>5 DEF EndLine, TypeOK, Content, Bytes
  <2>4. OffsetWidth(i) \in 5..7
    BY <1>0, WidthBounds
  <2>5. InLine'
    BY <1>0, <1>5, <2>2, <2>4 DEF EndLine, InLine, ByteWidth, OffsetWidth
  <2> QED
    BY <2>3, <2>5
<1>6. CASE WriteLine
  <2>1. i < j /\ j <= i + PerLine /\ j <= size /\ i < size
    BY <1>0, <1>6 DEF WriteLine, InLine, TypeOK
  <2>2. TypeOK'
    BY <1>0, <1>6, <2>1 DEF WriteLine, TypeOK, Bytes
  <2>3. InLine'
    BY <1>0, <1>6, <2>1 DEF WriteLine, InLine
  <2>4. Content'
    <3>1. ASSUME NEW b \in Bytes, b < j
          PROVE  label'[b] # Absent /\ label'[b] <= b /\ b < label'[b] + PerLine
      BY <1>0, <1>6, <2>1, <3>1 DEF WriteLine, Content, Bytes, Absent
    <3>2. ASSUME NEW b \in Bytes, b >= j
          PROVE  label'[b] = Absent
      BY <1>0, <1>6, <2>1, <3>2 DEF WriteLine, Content, Bytes
    <3> QED
      BY <1>6, <3>1, <3>2 DEF WriteLine, Content, Bytes
  <2> QED
    BY <2>2, <2>3, <2>4
<1>7. CASE ContentDone
  BY <1>0, <1>7 DEF ContentDone, TypeOK, InLine, Content, Bytes
<1>8. CASE WriteTail
  BY <1>0, <1>8 DEF WriteTail, TypeOK, InLine, Content, Bytes
<1>9. CASE UNCHANGED vars
  BY <1>9 DEF vars, TypeOK, InLine, Content, Bytes, OffsetWidth
<1> QED
  BY <1>1, <1>2, <1>3, <1>4, <1>5, <1>6, <1>7, <1>8, <1>9 DEF Next

LEMMA Inductive == ASSUME LogAssumption PROVE Spec => []IInv
<1>1. Init => IInv
  BY InitInv
<1>2. IInv /\ [Next]_vars => IInv'
  BY NextInv
<1> QED
  BY <1>1, <1>2, PTL DEF Spec

(***************************************************************************)
(* The loop variables stay inside the content, for every size.             *)
(***************************************************************************)
THEOREM TypeCorrect == ASSUME LogAssumption PROVE Spec => []TypeOK
<1>1. IInv => TypeOK
  BY DEF IInv
<1> QED
  BY <1>1, Inductive, PTL

(***************************************************************************)
(* No line of a dump of whatever size overruns the buffer, so that no      *)
(* snprintf cuts one short, though the code could not notice it.           *)
(***************************************************************************)
THEOREM LinesFit == ASSUME LogAssumption PROVE Spec => []LineFits
<1>1. IInv => LineFits
  <2> SUFFICES ASSUME IInv PROVE LineFits
    OBVIOUS
  <2>1. used <= 208 /\ used \in Nat
    BY UsedBound DEF IInv, TypeOK
  <2> QED
    BY <2>1 DEF LineFits, LogAssumption, BuffAssumption
<1> QED
  BY <1>1, Inductive, PTL

(***************************************************************************)
(* A dump of whatever size has each byte once, under its offset.           *)
(***************************************************************************)
THEOREM DumpsAreComplete == ASSUME LogAssumption PROVE Spec => []DumpIsContent
<1>1. IInv => DumpIsContent
  BY DEF IInv, InLine, Content, DumpIsContent
<1> QED
  BY <1>1, Inductive, PTL
=============================================================================
