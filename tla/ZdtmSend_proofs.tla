--------------------------- MODULE ZdtmSend_proofs --------------------------
(***************************************************************************)
(* Theorems about ZdtmSend, for any messages, any room in the socket and   *)
(* however sends are interrupted.  SendInv says what is in the stream byte *)
(* by byte: where each message that one send took lies, and how far the    *)
(* message of the running call has come.                                   *)
(***************************************************************************)
EXTENDS ZdtmSend, SequenceTheorems, TLAPS

-----------------------------------------------------------------------------
(***************************************************************************)
(* Flattening.  FlattenSeq is a function that is defined by recursion; the *)
(* proofs know that there is just one such function for the calls that     *)
(* have returned because each step of the program adds one call to them.   *)
(***************************************************************************)
Flattens(f, seqs) ==
    f = [i \in 1..Len(seqs) |-> IF i = 1 THEN seqs[i] ELSE f[i - 1] \o seqs[i]]

Flattened(f, seqs) ==
    Flattens(f, seqs) /\ \A g : Flattens(g, seqs) => g = f

\* The value of FlattenSeq, the one-element sequence, and one element more.
LEMMA FlattenIs ==
    ASSUME NEW seqs, Len(seqs) \in Nat \ {0}, NEW f, Flattened(f, seqs)
    PROVE  FlattenSeq(seqs) = f[Len(seqs)]
<1>1. FlattenSeq(seqs) = (CHOOSE g : Flattens(g, seqs))[Len(seqs)]
  BY DEF FlattenSeq, Flattens
<1>2. (CHOOSE g : Flattens(g, seqs)) = f
  BY DEF Flattened
<1>3. QED
  BY <1>1, <1>2

LEMMA FlattenOne ==
    ASSUME NEW T, NEW seqs \in Seq(T), Len(seqs) = 1
    PROVE  /\ \E f : Flattened(f, seqs)
           /\ FlattenSeq(seqs) = seqs[1]
<1> DEFINE f == [i \in 1..1 |-> seqs[1]]
<1>1. Flattens(f, seqs)
  BY DEF Flattens
<1>2. ASSUME NEW g, Flattens(g, seqs)
      PROVE  g = f
  <2>1. g = [i \in 1..1 |-> IF i = 1 THEN seqs[i] ELSE g[i - 1] \o seqs[i]]
    BY <1>2 DEF Flattens
  <2>2. QED
    BY <2>1
<1>3. Flattened(f, seqs) /\ f[1] = seqs[1]
  BY <1>1, <1>2 DEF Flattened
<1> HIDE DEF f
<1>4. FlattenSeq(seqs) = f[Len(seqs)]
  <2>1. Len(seqs) \in Nat \ {0}
    OBVIOUS
  <2>2. QED
    BY <1>3, <2>1, FlattenIs
<1>5. QED
  BY <1>3, <1>4

LEMMA FlattenMore ==
    ASSUME NEW T, NEW s \in Seq(T), NEW t \in Seq(T), Len(t) = Len(s) + 1, Len(s) # 0,
           \A i \in 1..Len(s) : t[i] = s[i], \E f : Flattened(f, s)
    PROVE  /\ \E f : Flattened(f, t)
           /\ FlattenSeq(t) = FlattenSeq(s) \o t[Len(t)]
<1>1. PICK f : Flattened(f, s)
  OBVIOUS
<1> DEFINE n == Len(s)
           h == [i \in 1..n + 1 |-> IF i = n + 1 THEN f[n] \o t[i] ELSE f[i]]
<1>2. n \in Nat \ {0} /\ Len(t) = n + 1
  OBVIOUS
<1>3. f = [i \in 1..n |-> IF i = 1 THEN s[i] ELSE f[i - 1] \o s[i]]
  BY <1>1 DEF Flattened, Flattens
<1> HIDE DEF n
<1>a. \A i \in 1..n + 1 : h[i] = IF i = n + 1 THEN f[n] \o t[i] ELSE f[i]
  OBVIOUS
<1>b. n \in 1..n + 1 /\ n + 1 \in 1..n + 1 /\ n # n + 1 /\ n + 1 # 1 /\ n + 1 - 1 = n
  BY <1>2
<1>c. h[n] = f[n] /\ h[n + 1] = f[n] \o t[n + 1]
  BY <1>a, <1>b
<1> HIDE DEF h
<1>4. Flattens(h, t)
  <2>1. ASSUME NEW i \in 1..n + 1
        PROVE  h[i] = IF i = 1 THEN t[i] ELSE h[i - 1] \o t[i]
    <3>1. CASE i = n + 1
      <4>1. h[i] = f[n] \o t[i] /\ h[i - 1] = f[n] /\ i # 1
        <5>1. i - 1 = n /\ i # 1
          BY <1>2, <3>1
        <5>2. QED
          BY <1>c, <3>1, <5>1
      <4>2. QED
        BY <4>1
    <3>2. CASE i \in 1..n
      <4>1. h[i] = f[i] /\ t[i] = s[i] /\ (i # 1 => h[i - 1] = f[i - 1])
        <5>1. i \in 1..n + 1 /\ i # n + 1 /\ (i # 1 => i - 1 \in 1..n + 1 /\ i - 1 # n + 1)
          BY <1>2, <3>2
        <5>2. h[i] = f[i] /\ (i # 1 => h[i - 1] = f[i - 1])
          BY <1>a, <5>1
        <5>3. t[i] = s[i]
          BY <3>2 DEF n
        <5>4. QED
          BY <5>2, <5>3
      <4>2. f[i] = IF i = 1 THEN s[i] ELSE f[i - 1] \o s[i]
        BY <1>3, <3>2
      <4>3. QED
        BY <4>1, <4>2
    <3>3. QED
      BY <1>2, <3>1, <3>2
  <2>2. h = [i \in 1..n + 1 |-> h[i]]
    BY DEF h
  <2>3. h = [i \in 1..n + 1 |-> IF i = 1 THEN t[i] ELSE h[i - 1] \o t[i]]
    BY <2>1, <2>2
  <2>4. QED
    BY <1>2, <2>3 DEF Flattens
<1>5. ASSUME NEW g, Flattens(g, t)
      PROVE  g = h
  <2>1. g = [i \in 1..n + 1 |-> IF i = 1 THEN t[i] ELSE g[i - 1] \o t[i]]
    BY <1>2, <1>5 DEF Flattens
  <2>0. \A i \in 1..n + 1 : g[i] = IF i = 1 THEN t[i] ELSE g[i - 1] \o t[i]
    BY <2>1
  <2> DEFINE r == [i \in 1..n |-> g[i]]
  <2>2. \A i \in 1..n : r[i] = IF i = 1 THEN s[i] ELSE r[i - 1] \o s[i]
    <3> TAKE i \in 1..n
    <3>1. g[i] = IF i = 1 THEN t[i] ELSE g[i - 1] \o t[i]
      <4>1. i \in 1..n + 1
        BY <1>2
      <4>2. QED
        BY <2>0, <4>1
    <3>2. t[i] = s[i] /\ r[i] = g[i] /\ (i # 1 => r[i - 1] = g[i - 1])
      BY <1>2 DEF n
    <3>3. QED
      BY <3>1, <3>2
  <2>3. r = [i \in 1..n |-> r[i]]
    OBVIOUS
  <2> HIDE DEF r
  <2>4. r = [i \in 1..n |-> IF i = 1 THEN s[i] ELSE r[i - 1] \o s[i]]
    BY <2>2, <2>3
  <2>5. r = f
    BY <1>1, <2>4 DEF Flattened, Flattens, n
  <2>6. \A i \in 1..n : g[i] = f[i]
    BY <2>5 DEF r
  <2>7. g[n + 1] = f[n] \o t[n + 1]
    <3> DEFINE m == n + 1
    <3>1. m \in 1..n + 1 /\ m # 1 /\ m - 1 = n
      BY <1>2
    <3> HIDE DEF m
    <3>2. g[m] = g[m - 1] \o t[m]
      BY <2>0, <3>1
    <3>3. g[n] = f[n]
      BY <1>2, <2>6
    <3>4. QED
      BY <3>1, <3>2, <3>3 DEF m
  <2>8. \A i \in 1..n + 1 : g[i] = h[i]
    <3> TAKE i \in 1..n + 1
    <3>1. CASE i = n + 1
      BY <1>c, <2>7, <3>1
    <3>2. CASE i # n + 1
      <4>1. i \in 1..n
        BY <1>2, <3>2
      <4>2. QED
        BY <1>a, <2>6, <3>2, <4>1
    <3>3. QED
      BY <3>1, <3>2
  <2>9. g = [i \in 1..n + 1 |-> g[i]] /\ h = [i \in 1..n + 1 |-> h[i]]
    BY <2>1 DEF h
  <2>10. QED
    BY <2>8, <2>9
<1>6. Flattened(h, t) /\ h[n + 1] = f[n] \o t[n + 1]
  BY <1>c, <1>4, <1>5 DEF Flattened
<1>7. FlattenSeq(t) = f[n] \o t[n + 1]
  <2>1. Len(t) \in Nat \ {0}
    BY <1>2
  <2>2. FlattenSeq(t) = h[Len(t)]
    BY <1>6, <2>1, FlattenIs
  <2>3. QED
    BY <1>2, <1>6, <2>2
<1>8. FlattenSeq(s) = f[n]
  BY <1>1, <1>2, FlattenIs DEF n
<1>9. QED
  BY <1>2, <1>6, <1>7, <1>8
-----------------------------------------------------------------------------
(***************************************************************************)
(* Types.                                                                  *)
(***************************************************************************)
LEMMA MessageSize ==
    ASSUME NEW k \in 1..Len(Calls)
    PROVE  WireSize(Calls[k]) \in Nat \ {0}
<1>1. Calls[k].type \in MsgTypes
  <2>1. Calls[k] \in Message
    BY SendAssumption
  <2>2. QED
    BY <2>1 DEF Message
<1>2. BodySize[Calls[k].type] \in MSG_TYPE_SIZE..BODY_SIZE_MAX
  BY <1>1, WireAssumption
<1>3. QED
  BY <1>2, WireAssumption DEF WireSize, SIZE_FIELD

LEMMA BytesAre ==
    ASSUME NEW k \in 1..Len(Calls)
    PROVE  Bytes(k) \in Seq(Byte) /\ Len(Bytes(k)) = WireSize(Calls[k])
<1> DEFINE size == WireSize(Calls[k])
<1>1. size \in Nat
  BY MessageSize
<1>2. \A i \in 1..size : <<k, i>> \in Byte
  <2>1. k \in DOMAIN Calls
    BY SendAssumption
  <2>2. QED
    BY <1>1, <2>1 DEF Byte
<1>3. Bytes(k) = [i \in 1..size |-> <<k, i>>]
  BY DEF Bytes, WireBytes
<1> HIDE DEF size
<1>4. Bytes(k) \in Seq(Byte) /\ Len(Bytes(k)) = size
  BY <1>1, <1>2, <1>3
<1>5. QED
  BY <1>4 DEF size

\* A call has one code; between calls nothing is counted, and a first send
\* starts with nothing sent.
Shape ==
    /\ Len(returned) = call - 1
    /\ phase = "idle" => tot = 0 /\ copied = 0 /\ call \notin cut
    /\ phase = "send" => call <= Len(Calls) /\ (call \notin cut => tot = 0)

Typed == TypeOK /\ Shape

LEMMA InitTyped == Init => Typed
<1>1. Len(Calls) \in Nat /\ Room \in Nat
  BY SendAssumption
<1>2. QED
  BY <1>1, EmptySeq DEF Init, Typed, TypeOK, Shape

\* A call ends, in the loop or before it.
LEMMA ReturnTyped ==
    ASSUME Typed, call <= Len(Calls), NEW c \in {-13, -2, -1, 0}, Return(c),
           UNCHANGED <<given, arrived, up, cut>>
    PROVE  Typed'
<1>1. call \in 1..Len(Calls) /\ Len(Calls) \in Nat
  BY SendAssumption DEF Typed, TypeOK
<1>2. returned \in Seq({-13, -2, -1, 0}) /\ Len(returned) = call - 1
  BY DEF Typed, TypeOK, Shape
<1>3. returned' \in Seq({-13, -2, -1, 0}) /\ Len(returned') = call
  BY <1>1, <1>2 DEF Return
<1>4. call' \in 1..Len(Calls) + 1 /\ cut' \subseteq 1..call' /\ call' \notin cut'
  BY <1>1 DEF Return, Typed, TypeOK
<1>5. QED
  BY <1>1, <1>3, <1>4 DEF Return, Typed, TypeOK, Shape

\* The bytes that a step of the call puts into the stream.
LEMMA PieceIs ==
    ASSUME Typed, phase = "send", NEW n \in 1..Missing - copied
    PROVE  /\ Missing = WireSize(Calls[call]) - tot /\ tot \in Nat /\ copied \in Nat
           /\ n \in Nat \ {0} /\ tot + copied + n <= WireSize(Calls[call])
           /\ WireSize(Calls[call]) \in Nat
           /\ SubSeq(Bytes(call), copied + 1, copied + n) \in Seq(Byte)
           /\ Len(SubSeq(Bytes(call), copied + 1, copied + n)) = n
           /\ \A i \in 1..n : SubSeq(Bytes(call), copied + 1, copied + n)[i]
                                = Bytes(call)[copied + i]
<1>1. call \in 1..Len(Calls)
  BY SendAssumption DEF Typed, TypeOK, Shape
<1> DEFINE size == WireSize(Calls[call])
           bytes == Bytes(call)
<1>2. size \in Nat /\ bytes \in Seq(Byte) /\ Len(bytes) = size
  BY <1>1, MessageSize, BytesAre
<1>3. Missing = size - tot /\ tot \in Nat /\ copied \in Nat
  BY DEF Missing, ToSend, Typed, TypeOK
<1> HIDE DEF size, bytes
<1>4. n \in Nat \ {0} /\ tot + copied + n <= size /\ copied + n <= size
  BY <1>2, <1>3
<1>5. /\ SubSeq(bytes, copied + 1, copied + n) \in Seq(Byte)
      /\ Len(SubSeq(bytes, copied + 1, copied + n)) = n
      /\ \A i \in 1..n : SubSeq(bytes, copied + 1, copied + n)[i] = bytes[copied + i]
  BY <1>2, <1>3, <1>4
<1>6. QED
  BY <1>2, <1>3, <1>4, <1>5 DEF size, bytes

LEMMA StepTyped == Typed /\ [Next]_vars => Typed'
<1> SUFFICES ASSUME Typed, [Next]_vars PROVE Typed'
  OBVIOUS
<1>1. /\ Len(Calls) \in Nat /\ Room \in Nat /\ call \in 1..Len(Calls) + 1
      /\ given \in Seq(Byte) /\ Len(given) \in Nat /\ arrived \in 0..Len(given)
  BY SendAssumption DEF Typed, TypeOK
<1>2. CASE Begin
  <2>1. call <= Len(Calls) /\ phase = "idle" /\ UNCHANGED <<given, arrived, up, cut>>
    BY <1>2 DEF Begin
  <2>2. CASE phase' = "send" /\ UNCHANGED <<call, tot, copied, returned>>
    <3>1. WireSize(Calls[call]) \in Nat
      BY <1>1, <2>1, MessageSize
    <3>2. QED
      BY <1>1, <2>1, <2>2, <3>1 DEF Typed, TypeOK, Shape
  <2>3. CASE Return(-1) \/ Return(-13)
    BY <2>1, <2>3, ReturnTyped
  <2>4. QED
    BY <1>2, <2>2, <2>3 DEF Begin
<1>3. CASE Copy
  <2>1. PICK n \in 1..Missing - copied :
          /\ up => n <= Room - (Len(given) - arrived)
          /\ copied' = copied + n
          /\ given' = IF up THEN given \o SubSeq(Bytes(call), copied + 1, copied + n)
                      ELSE given
    <3>1. Place + copied + 1 = copied + 1 /\ \A n \in Nat : Place + copied + n = copied + n
      BY DEF Place, Typed, TypeOK
    <3>2. 1..Missing - copied \subseteq Nat
      BY DEF Missing, ToSend, Typed, TypeOK
    <3>3. QED
      BY <1>3, <3>1, <3>2, Zenon DEF Copy
  <2>2. phase = "send" /\ UNCHANGED <<call, phase, tot, arrived, up, returned, cut>>
    BY <1>3 DEF Copy
  <2> DEFINE piece == SubSeq(Bytes(call), copied + 1, copied + n)
  <2>3. /\ n \in Nat \ {0} /\ tot + copied + n <= WireSize(Calls[call])
        /\ piece \in Seq(Byte) /\ Len(piece) = n
        /\ tot \in Nat /\ copied \in Nat
    BY <2>2, PieceIs
  <2>4. given' = IF up THEN given \o piece ELSE given
    BY <2>1
  <2> HIDE DEF piece
  <2>5. /\ given' \in Seq(Byte) /\ Len(given') \in Nat /\ arrived \in 0..Len(given')
        /\ Len(given') - arrived <= Room
    <3>1. CASE up
      <4>1. given' = given \o piece
        BY <2>4, <3>1
      <4>2. given' \in Seq(Byte) /\ Len(given') = Len(given) + n
        BY <1>1, <2>3, <4>1, ConcatProperties
      <4>3. QED
        BY <1>1, <2>1, <2>3, <3>1, <4>2
    <3>2. CASE ~up
      BY <1>1, <2>4, <3>2 DEF Typed, TypeOK
    <3>3. QED
      BY <3>1, <3>2
  <2>6. copied' \in Nat /\ tot + copied' <= WireSize(Calls[call])
    BY <2>1, <2>3
  <2>7. QED
    BY <2>2, <2>5, <2>6 DEF Typed, TypeOK, Shape
<1>4. CASE SendReturns
  <2>1. phase = "send" /\ call <= Len(Calls) /\ UNCHANGED <<given, arrived, up>>
    BY <1>4 DEF SendReturns, Typed, Shape
  <2>2. CASE TotAfter >= ToSend
    BY <1>4, <2>1, <2>2, ReturnTyped DEF SendReturns
  <2>3. CASE ~(TotAfter >= ToSend)
    <3>1. /\ tot' = tot + copied /\ copied' = 0 /\ cut' = cut \cup {call}
          /\ UNCHANGED <<call, phase, returned>>
      BY <1>4, <2>3 DEF SendReturns, TotAfter
    <3>2. QED
      BY <1>1, <2>1, <3>1 DEF Typed, TypeOK, Shape
  <2>4. QED
    BY <2>2, <2>3
<1>5. CASE SendError
  <2>1. call <= Len(Calls) /\ UNCHANGED <<given, arrived, up, cut>>
        /\ Return(IF IsCommon(Calls[call]) THEN -1 ELSE -2)
    BY <1>5 DEF SendError, Typed, Shape
  <2>2. Return(-1) \/ Return(-2)
    BY <2>1
  <2>3. QED
    BY <2>1, <2>2, ReturnTyped
<1>6. CASE ZaurusReads
  <2>1. arrived' \in arrived + 1..Len(given)
        /\ UNCHANGED <<call, phase, tot, copied, given, up, returned, cut>>
    BY <1>6 DEF ZaurusReads, callVars
  <2>2. arrived' \in 0..Len(given) /\ Len(given) - arrived' <= Room
    BY <1>1, <2>1 DEF Typed, TypeOK
  <2>3. QED
    BY <2>1, <2>2 DEF Typed, TypeOK, Shape
<1>7. CASE Break
  <2>1. /\ given' \in {given, SubSeq(given, 1, arrived)} /\ up' = FALSE
        /\ UNCHANGED <<call, phase, tot, copied, arrived, returned, cut>>
    BY <1>7 DEF Break, callVars
  <2>2. SubSeq(given, 1, arrived) \in Seq(Byte) /\ Len(SubSeq(given, 1, arrived)) = arrived
    BY <1>1
  <2>3. /\ given' \in Seq(Byte) /\ arrived \in 0..Len(given')
        /\ Len(given') - arrived <= Room
    BY <1>1, <2>1, <2>2 DEF Typed, TypeOK
  <2>4. QED
    BY <2>1, <2>3 DEF Typed, TypeOK, Shape
<1>8. CASE UNCHANGED vars
  BY <1>8 DEF vars, Typed, TypeOK, Shape
<1>9. QED
  BY <1>2, <1>3, <1>4, <1>5, <1>6, <1>7, <1>8 DEF Next, Send

(***************************************************************************)
(* For any messages, any room in the socket, and however sends are         *)
(* interrupted or fail: the loops never ask for more bytes than the        *)
(* message still has, and the socket never holds more than it has room.    *)
(***************************************************************************)
THEOREM TypeCorrect == Spec => []TypeOK
<1>1. Init => Typed
  BY InitTyped
<1>2. Typed /\ [Next]_vars => Typed'
  BY StepTyped
<1>3. Typed => TypeOK
  BY DEF Typed
<1>4. QED
  BY <1>1, <1>2, <1>3, PTL DEF Spec
-----------------------------------------------------------------------------
(***************************************************************************)
(* What the calls that returned were to send.                              *)
(***************************************************************************)
Sent(k)     == IF returned[k] = 0 THEN Bytes(k) ELSE <<>>
SentUpTo(n) == [k \in 1..n |-> Sent(k)]
Upto(n)     == Len(Promised(n))

\* Promised is defined for the calls that have returned, and each call adds
\* what it was to send.
Defined ==
    \A n \in 0..Len(returned) :
      Promised(n) \in Seq(Byte) /\ (n # 0 => \E f : Flattened(f, SentUpTo(n)))

Grows ==
    /\ Promised(0) = <<>>
    /\ \A n \in 1..Len(returned) : Promised(n) = Promised(n - 1) \o Sent(n)

LEMMA PromisedIs == \A n : Promised(n) = FlattenSeq(SentUpTo(n))
BY DEF Promised, SentUpTo, Sent

LEMMA NothingPromised == Promised(0) = <<>>
<1> DEFINE s == SentUpTo(0)
<1>1. s = <<>>
  BY DEF SentUpTo
<1> HIDE DEF s
<1>2. FlattenSeq(s) = s
  BY <1>1, EmptySeq DEF FlattenSeq
<1>3. QED
  BY <1>1, <1>2, PromisedIs DEF s

LEMMA SentIs ==
    ASSUME Typed, NEW k \in 1..Len(returned)
    PROVE  /\ k \in 1..Len(Calls)
           /\ Sent(k) \in Seq(Byte)
           /\ Len(Sent(k)) = IF returned[k] = 0 THEN WireSize(Calls[k]) ELSE 0
<1>1. k \in 1..Len(Calls)
  BY SendAssumption DEF Typed, TypeOK, Shape
<1>2. QED
  BY <1>1, BytesAre, EmptySeq DEF Sent

LEMMA SentUpToIs ==
    ASSUME Typed, NEW n \in 0..Len(returned)
    PROVE  /\ SentUpTo(n) \in Seq(Seq(Byte)) /\ Len(SentUpTo(n)) = n
           /\ \A k \in 1..n : SentUpTo(n)[k] = Sent(k)
<1>1. Len(returned) \in Nat
  BY DEF Typed, TypeOK
<1>2. n \in Nat /\ \A k \in 1..n : Sent(k) \in Seq(Byte)
  BY <1>1, SentIs
<1>3. QED
  BY <1>2 DEF SentUpTo

LEMMA PromisedStays ==
    ASSUME Typed, NEW n \in 0..Len(returned),
           \A k \in 1..Len(returned) : returned'[k] = returned[k]
    PROVE  Promised(n)' = Promised(n) /\ SentUpTo(n)' = SentUpTo(n)
<1>1. Len(returned) \in Nat
  BY DEF Typed, TypeOK
<1>2. \A k \in 1..n : returned'[k] = returned[k]
  BY <1>1
<1>3. [k \in 1..n |-> IF returned'[k] = 0 THEN Bytes(k) ELSE <<>>]
        = [k \in 1..n |-> IF returned[k] = 0 THEN Bytes(k) ELSE <<>>]
  BY <1>2
<1>4. QED
  BY <1>3 DEF Promised, SentUpTo, Sent

LEMMA InitPromised == Init => Defined /\ Grows
<1> SUFFICES ASSUME Init PROVE Defined /\ Grows
  OBVIOUS
<1>1. Len(returned) = 0
  BY EmptySeq DEF Init
<1>2. \A n \in 0..Len(returned) : n = 0
  BY <1>1
<1>3. \A n \in 1..Len(returned) : FALSE
  BY <1>1
<1>4. Promised(0) \in Seq(Byte)
  BY NothingPromised, EmptySeq
<1>5. QED
  BY <1>2, <1>3, <1>4, NothingPromised DEF Defined, Grows

\* A call that returns extends what is promised.
LEMMA ReturnPromised ==
    ASSUME Typed, Typed', Defined, Grows, NEW c, Return(c)
    PROVE  Defined' /\ Grows'
<1> PICK r : r = Len(returned)
  OBVIOUS
<1> PICK m : m = r + 1
  OBVIOUS
<1>1. /\ r \in Nat /\ m \in Nat /\ Len(returned') = m
      /\ \A k \in 1..r : returned'[k] = returned[k]
  BY DEF Typed, TypeOK, Return
<1>2. \A n \in 0..r : Promised(n)' = Promised(n) /\ SentUpTo(n)' = SentUpTo(n)
  BY <1>1, PromisedStays
<1>3. \A k \in 1..r : Sent(k)' = Sent(k)
  BY <1>1 DEF Sent, Bytes
<1> DEFINE s == SentUpTo(r)
           t == SentUpTo(m)'
           last == Sent(m)'
<1>4. s \in Seq(Seq(Byte)) /\ Len(s) = r /\ \A k \in 1..r : s[k] = Sent(k)
  BY <1>1, SentUpToIs
<1>5. m \in 1..Len(returned')
  BY <1>1
<1>6. /\ t \in Seq(Seq(Byte)) /\ Len(t) = m
      /\ \A k \in 1..m : t[k] = Sent(k)'
  <2>1. ASSUME NEW k \in 1..m
        PROVE  Sent(k)' \in Seq(Byte)
    <3>1. k \in 1..Len(Calls)
      <4>1. call' \in 1..Len(Calls) + 1 /\ Len(returned') = call' - 1
        BY DEF Typed, TypeOK, Shape
      <4>2. Len(Calls) \in Nat
        BY SendAssumption
      <4>3. QED
        BY <1>1, <4>1, <4>2
    <3>2. QED
      BY <3>1, BytesAre, EmptySeq DEF Sent, Bytes
  <2>2. t = [k \in 1..m |-> Sent(k)']
    BY DEF SentUpTo
  <2>3. m \in Nat
    BY <1>1
  <2> HIDE DEF t
  <2>4. QED
    BY <2>1, <2>2, <2>3
<1>7. t[m] = last /\ last \in Seq(Byte)
  BY <1>1, <1>6, ElementOfSeq
<1>8. \A k \in 1..r : t[k] = s[k]
  BY <1>1, <1>3, <1>4, <1>6
<1>9. FlattenSeq(t) = Promised(r) \o last /\ \E f : Flattened(f, t)
  <2>0. Promised(r) = FlattenSeq(s)
    BY PromisedIs
  <2>1. CASE r = 0
    <3>1. Promised(r) = <<>>
      BY <2>1 DEF Grows
    <3>2. m = 1
      BY <2>1
    <3> HIDE DEF t, last
    <3>3. FlattenSeq(t) = last /\ \E f : Flattened(f, t)
      BY <1>6, <1>7, <3>2, FlattenOne
    <3>4. QED
      BY <1>7, <3>1, <3>3
  <2>2. CASE r # 0
    <3>1. \E f : Flattened(f, s)
      BY <1>1, <2>2 DEF Defined
    <3>2. Len(t) = Len(s) + 1 /\ Len(s) # 0 /\ \A k \in 1..Len(s) : t[k] = s[k]
      BY <1>4, <1>6, <1>8, <2>2
    <3> HIDE DEF t, last, s
    <3>3. FlattenSeq(t) = FlattenSeq(s) \o t[Len(t)] /\ \E f : Flattened(f, t)
      BY <1>4, <1>6, <3>1, <3>2, FlattenMore
    <3>4. QED
      BY <1>6, <1>7, <2>0, <3>3
  <2>3. QED
    BY <2>1, <2>2
<1>10. Promised(m)' = FlattenSeq(t)
  BY DEF Promised, SentUpTo, Sent
<1> HIDE DEF last, s
<1>11. Promised(m)' = Promised(r) \o last /\ Promised(r) \in Seq(Byte)
  BY <1>1, <1>9, <1>10 DEF Defined
<1>12. \A n \in 0..m : n = m \/ n \in 0..r
  BY <1>1
<1>13. Defined'
  <2>1. ASSUME NEW n \in 0..r
        PROVE  Promised(n)' \in Seq(Byte) /\ (n # 0 => \E f : Flattened(f, SentUpTo(n)'))
    BY <1>2 DEF Defined
  <2> HIDE DEF t
  <2>2. Promised(m)' \in Seq(Byte)
    <3>1. \A a, b \in Seq(Byte) : a \o b \in Seq(Byte)
      BY ConcatProperties
    <3>2. Promised(r) \o last \in Seq(Byte)
      BY <1>7, <1>11, <3>1
    <3>3. QED
      BY <1>11, <3>2
  <2>3. \E f : Flattened(f, SentUpTo(m)')
    BY <1>9 DEF t
  <2>4. QED
    BY <1>1, <1>12, <2>1, <2>2, <2>3 DEF Defined
<1>14. Grows'
  <2>1. Promised(0)' = <<>>
    BY <1>1, <1>2 DEF Grows
  <2>2. ASSUME NEW n \in 1..r
        PROVE  Promised(n)' = Promised(n - 1)' \o Sent(n)'
    <3>1. n \in 0..r /\ n - 1 \in 0..r
      BY <1>1
    <3>2. Promised(n) = Promised(n - 1) \o Sent(n)
      BY <1>1 DEF Grows
    <3>3. QED
      BY <1>2, <1>3, <3>1, <3>2
  <2>3. Promised(m)' = Promised(m - 1)' \o Sent(m)'
    <3>1. r \in 0..r /\ m - 1 = r
      BY <1>1
    <3>2. Promised(r)' = Promised(r)
      BY <1>2, <3>1
    <3>3. QED
      BY <1>11, <3>1, <3>2 DEF last
  <2>4. \A n \in 1..m : n = m \/ n \in 1..r
    BY <1>1
  <2>5. QED
    BY <1>1, <2>1, <2>2, <2>3, <2>4 DEF Grows
<1>15. QED
  BY <1>13, <1>14

LEMMA QuietPromised ==
    ASSUME Typed, Defined, Grows, UNCHANGED returned
    PROVE  Defined' /\ Grows'
<1>1. \A n \in 0..Len(returned) : Promised(n)' = Promised(n) /\ SentUpTo(n)' = SentUpTo(n)
  BY PromisedStays
<1>2. \A n \in 1..Len(returned) : n \in 0..Len(returned) /\ n - 1 \in 0..Len(returned)
  BY DEF Typed, TypeOK
<1>3. \A k : Sent(k)' = Sent(k)
  BY DEF Sent, Bytes
<1>4. Defined'
  BY <1>1 DEF Defined
<1>5. Promised(0)' = <<>>
  BY NothingPromised DEF Promised
<1>6. Grows'
  BY <1>1, <1>2, <1>3, <1>5 DEF Grows
<1>7. QED
  BY <1>4, <1>6

\* How much is promised grows by the size of a message for each call that
\* returned 0.
LEMMA UptoIs ==
    ASSUME Typed, Defined, Grows
    PROVE  /\ Upto(0) = 0
           /\ \A n \in 0..Len(returned) : Upto(n) \in Nat
           /\ \A n \in 1..Len(returned) :
                Upto(n) = Upto(n - 1) + IF returned[n] = 0 THEN WireSize(Calls[n]) ELSE 0
<1>1. Upto(0) = 0
  BY EmptySeq DEF Upto, Grows
<1>2. \A n \in 0..Len(returned) : Promised(n) \in Seq(Byte) /\ Upto(n) \in Nat
  BY DEF Upto, Defined
<1>3. ASSUME NEW n \in 1..Len(returned)
      PROVE  Upto(n) = Upto(n - 1) + IF returned[n] = 0 THEN WireSize(Calls[n]) ELSE 0
  <2>1. Promised(n) = Promised(n - 1) \o Sent(n)
    BY DEF Grows
  <2>2. n - 1 \in 0..Len(returned)
    BY DEF Typed, TypeOK
  <2>3. Promised(n - 1) \in Seq(Byte) /\ Sent(n) \in Seq(Byte)
    BY <1>2, <2>2, SentIs
  <2>4. Len(Promised(n)) = Len(Promised(n - 1)) + Len(Sent(n))
    BY <2>1, <2>3, ConcatProperties
  <2>5. QED
    BY <2>4, SentIs DEF Upto
<1>4. QED
  BY <1>1, <1>2, <1>3

-----------------------------------------------------------------------------
(***************************************************************************)
(* What is in the stream.                                                  *)
(***************************************************************************)
\* Message k is in its place.
InPlace(k) ==
    \A j \in 1..WireSize(Calls[k]) : given[Upto(k - 1) + j] = Bytes(k)[j]

\* The bytes in the stream are accounted for, the messages that one send took
\* are in their places, and the one that a first send is taking begins there.
Whole ==
    up /\ NoneBroken =>
      /\ Len(given) = Upto(Len(returned)) + tot + copied
      /\ \A k \in 1..Len(returned) : Upto(k) <= Len(given)
      /\ \A k \in 1..Len(returned) : k \notin cut /\ returned[k] = 0 => InPlace(k)
      /\ phase = "send" /\ call \notin cut =>
           \A j \in 1..copied : given[Upto(Len(returned)) + j] = Bytes(call)[j]

SendInv == Typed /\ Defined /\ Grows /\ Whole

LEMMA WholeIsProperty == SendInv => WholeUnlessCut
<1> SUFFICES ASSUME SendInv, up, NoneBroken PROVE
      /\ Len(given) = Len(Promised(Len(returned))) + tot + copied
      /\ \A k \in DOMAIN returned \ cut :
           returned[k] = 0 =>
             LET before == Len(Promised(k - 1))
             IN  SubSeq(given, before + 1, before + WireSize(Calls[k])) = Bytes(k)
  BY DEF WholeUnlessCut
<1>1. Len(given) = Len(Promised(Len(returned))) + tot + copied
  BY DEF SendInv, Whole, Upto
<1>2. ASSUME NEW k \in DOMAIN returned \ cut, returned[k] = 0
      PROVE  SubSeq(given, Upto(k - 1) + 1, Upto(k - 1) + WireSize(Calls[k])) = Bytes(k)
  <2>1. k \in 1..Len(returned) /\ k \notin cut /\ k - 1 \in 0..Len(returned)
    BY <1>2 DEF SendInv, Typed, TypeOK
  <2>2. k \in 1..Len(Calls)
    BY <2>1, SentIs DEF SendInv
  <2> DEFINE size == WireSize(Calls[k])
             before == Upto(k - 1)
             bytes == Bytes(k)
  <2>3. size \in Nat /\ bytes \in Seq(Byte) /\ Len(bytes) = size
    BY <2>2, MessageSize, BytesAre
  <2>4. before \in Nat /\ Upto(k) = before + size /\ Upto(k) <= Len(given)
    BY <1>2, <2>1, UptoIs DEF SendInv, Whole
  <2>5. \A j \in 1..size : given[before + j] = bytes[j]
    BY <1>2, <2>1 DEF SendInv, Whole, InPlace
  <2>6. given \in Seq(Byte)
    BY DEF SendInv, Typed, TypeOK
  <2> HIDE DEF size, before, bytes
  <2> DEFINE piece == SubSeq(given, before + 1, before + size)
  <2>7. /\ piece \in Seq(Byte) /\ Len(piece) = size
        /\ \A j \in 1..size : piece[j] = given[before + j]
    BY <2>3, <2>4, <2>6
  <2> HIDE DEF piece
  <2>8. \A j \in 1..size : piece[j] = bytes[j]
    BY <2>5, <2>7
  <2>9. piece = bytes
    BY <2>3, <2>7, <2>8, SeqEqual
  <2>10. QED
    BY <2>9 DEF piece, size, before, bytes
<1>3. QED
  BY <1>1, <1>2 DEF Upto

LEMMA InitWhole == Init => SendInv
<1> SUFFICES ASSUME Init PROVE SendInv
  OBVIOUS
<1>1. Typed /\ Defined /\ Grows
  BY InitTyped, InitPromised
<1>2. /\ Len(returned) = 0 /\ Len(given) = 0 /\ tot = 0 /\ copied = 0
      /\ phase = "idle" /\ Upto(0) = 0
  BY <1>1, UptoIs, EmptySeq DEF Init
<1>3. \A k \in 1..Len(returned) : FALSE
  BY <1>2
<1>4. Whole
  BY <1>2, <1>3 DEF Whole
<1>5. QED
  BY <1>1, <1>4 DEF SendInv

LEMMA UptoStays ==
    ASSUME Typed, NEW n \in 0..Len(returned),
           \A k \in 1..Len(returned) : returned'[k] = returned[k]
    PROVE  Upto(n)' = Upto(n)
BY PromisedStays DEF Upto

LEMMA ReturnUpto ==
    ASSUME Typed, Typed', Defined, Grows, call <= Len(Calls), NEW c, Return(c),
           NEW m, m = call
    PROVE  /\ m \in 1..Len(Calls) /\ Len(returned) = m - 1 /\ Len(returned') = m
           /\ returned'[m] = c /\ \A k \in 1..(m - 1) : returned'[k] = returned[k]
           /\ \A n \in 0..(m - 1) : Upto(n)' = Upto(n) /\ Upto(n) \in Nat
           /\ Upto(m)' = Upto(m - 1) + IF c = 0 THEN WireSize(Calls[m]) ELSE 0
<1>1. m \in 1..Len(Calls) /\ Len(returned) = m - 1 /\ m \in Nat
  BY SendAssumption DEF Typed, TypeOK, Shape
<1>2. /\ Len(returned') = m /\ returned'[m] = c
      /\ \A k \in 1..(m - 1) : returned'[k] = returned[k]
  BY <1>1 DEF Return, Typed, TypeOK
<1>3. \A n \in 0..(m - 1) : Upto(n)' = Upto(n) /\ Upto(n) \in Nat
  BY <1>1, <1>2, UptoStays, UptoIs
<1>4. Promised(m)' = Promised(m - 1)' \o Sent(m)'
  <2>1. Grows'
    BY ReturnPromised
  <2>2. m \in 1..Len(returned')
    BY <1>1, <1>2
  <2>3. QED
    BY <2>1, <2>2 DEF Grows
<1>5. Promised(m - 1)' = Promised(m - 1) /\ Promised(m - 1) \in Seq(Byte)
  <2>1. m - 1 \in 0..Len(returned)
    BY <1>1
  <2>2. \A k \in 1..Len(returned) : returned'[k] = returned[k]
    BY <1>1, <1>2
  <2>3. QED
    BY <2>1, <2>2, PromisedStays DEF Defined
<1>6. /\ Sent(m)' = IF c = 0 THEN Bytes(m) ELSE <<>>
      /\ Sent(m)' \in Seq(Byte)
      /\ Len(Sent(m)') = IF c = 0 THEN WireSize(Calls[m]) ELSE 0
  BY <1>1, <1>2, BytesAre, EmptySeq DEF Sent, Bytes
<1>7. Len(Promised(m)') = Len(Promised(m - 1)) + Len(Sent(m)')
  <2> DEFINE p == Promised(m - 1)
             q == Sent(m)'
  <2>1. p \in Seq(Byte) /\ q \in Seq(Byte) /\ Promised(m)' = p \o q
    BY <1>4, <1>5, <1>6
  <2> HIDE DEF p, q
  <2>2. Len(p \o q) = Len(p) + Len(q)
    BY <2>1, ConcatProperties
  <2>3. QED
    BY <2>1, <2>2 DEF p, q
<1>8. Upto(m)' = Upto(m - 1) + IF c = 0 THEN WireSize(Calls[m]) ELSE 0
  BY <1>6, <1>7 DEF Upto
<1>9. QED
  BY <1>1, <1>2, <1>3, <1>8

\* What is broken stays broken.
LEMMA BrokenStays ==
    ASSUME Typed, NoneBroken', \A k \in 1..Len(returned) : returned'[k] = returned[k],
           Len(returned') \in Nat, Len(returned) <= Len(returned'),
           returned' \in Seq({-13, -2, -1, 0})
    PROVE  NoneBroken
<1>1. DOMAIN returned = 1..Len(returned) /\ DOMAIN returned' = 1..Len(returned')
  BY DEF Typed, TypeOK
<1>2. 1..Len(returned) \subseteq 1..Len(returned')
  BY DEF Typed, TypeOK
<1>3. QED
  BY <1>1, <1>2 DEF NoneBroken

\* A call returns that sent all or nothing of its message.
LEMMA ReturnWhole ==
    ASSUME SendInv, Typed', call <= Len(Calls), NEW c \in {-13, -2, -1, 0}, Return(c),
           UNCHANGED <<given, up, cut>>,
           \/ c = 0 /\ phase = "send" /\ tot + copied = WireSize(Calls[call])
           \/ c # 0 /\ tot + copied = 0
    PROVE  Whole'
<1> PICK m : m = call
  OBVIOUS
<1>1. /\ m \in 1..Len(Calls) /\ Len(returned) = m - 1 /\ Len(returned') = m
      /\ returned'[m] = c /\ \A k \in 1..(m - 1) : returned'[k] = returned[k]
      /\ \A n \in 0..(m - 1) : Upto(n)' = Upto(n) /\ Upto(n) \in Nat
      /\ Upto(m)' = Upto(m - 1) + IF c = 0 THEN WireSize(Calls[m]) ELSE 0
  BY ReturnUpto DEF SendInv
<1>2. tot' = 0 /\ copied' = 0 /\ phase' = "idle"
  BY DEF Return
<1> SUFFICES ASSUME up', NoneBroken' PROVE
      /\ Len(given') = Upto(m)' + tot' + copied'
      /\ \A k \in 1..m : Upto(k)' <= Len(given')
      /\ \A k \in 1..m : k \notin cut' /\ returned'[k] = 0 => InPlace(k)'
  BY <1>1, <1>2 DEF Whole
<1>3. up /\ NoneBroken
  <2>1. returned' \in Seq({-13, -2, -1, 0})
    BY DEF Typed, TypeOK
  <2>2. QED
    BY <1>1, <2>1, BrokenStays DEF SendInv
<1>4. /\ Len(given) = Upto(m - 1) + tot + copied
      /\ \A k \in 1..(m - 1) : Upto(k) <= Len(given)
      /\ \A k \in 1..(m - 1) : k \notin cut /\ returned[k] = 0 => InPlace(k)
      /\ phase = "send" /\ m \notin cut =>
           \A j \in 1..copied : given[Upto(m - 1) + j] = Bytes(m)[j]
  BY <1>1, <1>3 DEF SendInv, Whole
<1>5. /\ tot \in Nat /\ copied \in Nat /\ WireSize(Calls[m]) \in Nat
      /\ phase = "send" /\ m \notin cut => tot = 0
  BY <1>1, MessageSize DEF SendInv, Typed, TypeOK, Shape
<1>6. Len(given') = Upto(m)' + tot' + copied'
  BY <1>1, <1>2, <1>4, <1>5
<1>7. Upto(m)' <= Len(given')
  BY <1>1, <1>2, <1>6, <1>5
<1>8. \A k \in 1..m : k = m \/ (k \in 1..(m - 1) /\ k \in 0..(m - 1) /\ k - 1 \in 0..(m - 1))
  BY <1>1
<1>9. \A k \in 1..m : Upto(k)' <= Len(given')
  BY <1>1, <1>4, <1>7, <1>8
<1>10. ASSUME NEW k \in 1..m, k \notin cut', returned'[k] = 0
       PROVE  InPlace(k)'
  <2>1. \A j \in 1..WireSize(Calls[k]) : given[Upto(k - 1) + j] = Bytes(k)[j]
    <3>1. CASE k = m
      <4>1. copied = WireSize(Calls[m]) /\ phase = "send" /\ m \notin cut
        BY <1>1, <1>5, <1>10, <3>1
      <4>2. QED
        BY <1>4, <3>1, <4>1
    <3>2. CASE k \in 1..(m - 1)
      BY <1>1, <1>4, <1>10, <3>2 DEF InPlace
    <3>3. QED
      BY <1>8, <3>1, <3>2
  <2>2. Upto(k - 1)' = Upto(k - 1)
    <3>1. k - 1 \in 0..(m - 1)
      BY <1>1
    <3>2. QED
      BY <1>1, <3>1
  <2>3. QED
    BY <2>1, <2>2 DEF InPlace, Bytes
<1>11. QED
  BY <1>6, <1>9, <1>10

\* The stream of the Zaurus's side, and nothing, leave it as it is.
LEMMA QuietWhole ==
    ASSUME SendInv, UNCHANGED <<call, phase, tot, copied, given, up, returned, cut>>
    PROVE  Whole'
<1>1. \A n : Upto(n)' = Upto(n)
  BY DEF Upto, Promised
<1>2. Upto(Len(returned))' = Upto(Len(returned)) /\ NoneBroken' = NoneBroken
  BY DEF Upto, Promised, NoneBroken
<1>3. \A k : InPlace(k)' = InPlace(k)
  BY <1>1 DEF InPlace, Bytes
<1>4. \A j : Bytes(call)[j]' = Bytes(call)[j]
  BY DEF Bytes
<1>5. QED
  BY <1>1, <1>2, <1>3, <1>4 DEF Whole, SendInv, Bytes

\* More of the message that is being sent goes into the stream.
LEMMA CopyWhole ==
    ASSUME SendInv, Typed', Copy
    PROVE  Whole'
<1>1. /\ phase = "send" /\ UNCHANGED <<call, phase, tot, arrived, up, returned, cut>>
      /\ Typed /\ given \in Seq(Byte) /\ Len(given) \in Nat
      /\ tot \in Nat /\ copied \in Nat
  BY DEF Copy, SendInv, Typed, TypeOK
<1>2. PICK n \in 1..Missing - copied :
        /\ copied' = copied + n
        /\ up => given' = given \o SubSeq(Bytes(call), copied + 1, copied + n)
  <2>1. Place + copied + 1 = copied + 1 /\ \A n \in Nat : Place + copied + n = copied + n
    BY <1>1 DEF Place
  <2>2. 1..Missing - copied \subseteq Nat
    BY <1>1 DEF Missing, ToSend
  <2>3. QED
    BY <2>1, <2>2, Zenon DEF Copy
<1> PICK r : r = Len(returned)
  OBVIOUS
<1> PICK m : m = call
  OBVIOUS
<1> SUFFICES ASSUME up', NoneBroken' PROVE
      /\ Len(given') = Upto(r)' + tot' + copied'
      /\ \A k \in 1..r : Upto(k)' <= Len(given')
      /\ \A k \in 1..r : k \notin cut' /\ returned'[k] = 0 => InPlace(k)'
      /\ m \notin cut' =>
           \A j \in 1..copied' : given'[Upto(r)' + j] = Bytes(m)[j]
  BY <1>1 DEF Whole, Bytes
<1>3. up /\ NoneBroken
  BY <1>1 DEF NoneBroken
<1>4. /\ Len(given) = Upto(r) + tot + copied
      /\ \A k \in 1..r : Upto(k) <= Len(given)
      /\ \A k \in 1..r : k \notin cut /\ returned[k] = 0 => InPlace(k)
      /\ m \notin cut => \A j \in 1..copied : given[Upto(r) + j] = Bytes(m)[j]
  BY <1>1, <1>3 DEF SendInv, Whole
<1>5. \A k : Upto(k)' = Upto(k)
  BY <1>1 DEF Upto, Promised
<1>6. /\ r \in Nat /\ Upto(r) \in Nat
      /\ \A k \in 1..r : Upto(k - 1) \in Nat /\ k \in 1..Len(Calls)
           /\ (returned[k] = 0 => Upto(k) = Upto(k - 1) + WireSize(Calls[k]))
  <2>1. r \in Nat
    BY <1>1 DEF Typed, TypeOK
  <2>2. r \in 0..r /\ \A k \in 1..r : k - 1 \in 0..r
    BY <2>1
  <2>3. QED
    BY <1>1, <2>1, <2>2, UptoIs, SentIs DEF SendInv
<1> DEFINE piece == SubSeq(Bytes(m), copied + 1, copied + n)
<1>7. /\ n \in Nat \ {0} /\ piece \in Seq(Byte) /\ Len(piece) = n
      /\ \A j \in 1..n : piece[j] = Bytes(m)[copied + j]
  BY <1>1, PieceIs
<1>8. given' = given \o piece
  BY <1>2, <1>3
<1> HIDE DEF piece
<1>9. /\ Len(given') = Len(given) + n
      /\ \A j \in 1..Len(given) : given'[j] = given[j]
      /\ \A j \in 1..n : given'[Len(given) + j] = piece[j]
  <2>1. /\ Len(given') = Len(given) + n
        /\ \A j \in 1..Len(given) + n :
             given'[j] = IF j <= Len(given) THEN given[j] ELSE piece[j - Len(given)]
    BY <1>1, <1>7, <1>8, ConcatProperties
  <2>2. \A j \in 1..Len(given) : j \in 1..Len(given) + n /\ j <= Len(given)
    BY <1>1, <1>7
  <2>3. \A j \in 1..n : /\ Len(given) + j \in 1..Len(given) + n /\ ~(Len(given) + j <= Len(given))
                        /\ Len(given) + j - Len(given) = j
    BY <1>1, <1>7
  <2>4. \A j \in 1..n : given'[Len(given) + j] = piece[j]
    <3> TAKE j \in 1..n
    <3> DEFINE place == Len(given) + j
    <3>1. place \in 1..Len(given) + n /\ ~(place <= Len(given)) /\ place - Len(given) = j
      BY <2>3
    <3> HIDE DEF place
    <3>2. given'[place] = piece[j]
      BY <2>1, <3>1
    <3>3. QED
      BY <3>2 DEF place
  <2>5. QED
    BY <2>1, <2>2, <2>4
<1>10. Len(given') = Upto(r)' + tot' + copied'
  BY <1>1, <1>2, <1>4, <1>5, <1>6, <1>7, <1>9
<1>11. \A k \in 1..r : Upto(k)' <= Len(given')
  <2> TAKE k \in 1..r
  <2>1. Upto(k) <= Len(given) /\ Upto(k) \in Nat
    BY <1>1, <1>4, <1>6, UptoIs DEF SendInv
  <2>2. QED
    BY <1>1, <1>5, <1>7, <1>9, <2>1
<1>12. ASSUME NEW k \in 1..r, k \notin cut', returned'[k] = 0
       PROVE  InPlace(k)'
  <2>1. returned[k] = 0 /\ k \notin cut
    BY <1>1, <1>12
  <2>2. \A j \in 1..WireSize(Calls[k]) : given[Upto(k - 1) + j] = Bytes(k)[j]
    BY <1>4, <2>1 DEF InPlace
  <2>3. /\ Upto(k - 1) \in Nat /\ WireSize(Calls[k]) \in Nat
        /\ Upto(k - 1) + WireSize(Calls[k]) <= Len(given)
    BY <1>4, <1>6, <2>1, MessageSize
  <2>4. \A j \in 1..WireSize(Calls[k]) : Upto(k - 1) + j \in 1..Len(given)
    BY <1>1, <2>3
  <2>5. \A j \in 1..WireSize(Calls[k]) : given'[Upto(k - 1) + j] = Bytes(k)[j]
    BY <1>9, <2>2, <2>4
  <2>6. QED
    BY <1>5, <2>5 DEF InPlace, Bytes
<1>13. ASSUME m \notin cut', NEW j \in 1..copied'
       PROVE  given'[Upto(r)' + j] = Bytes(m)[j]
  <2>1. m \notin cut /\ tot = 0
    BY <1>1, <1>13 DEF Typed, Shape
  <2>2. Len(given) = Upto(r) + copied
    BY <1>1, <1>4, <1>6, <2>1
  <2>3. CASE j \in 1..copied
    <3>1. Upto(r) + j \in 1..Len(given)
      BY <1>1, <1>6, <2>2, <2>3
    <3>2. QED
      BY <1>4, <1>5, <1>9, <2>1, <2>3, <3>1
  <2>4. CASE j \notin 1..copied
    <3> DEFINE l == j - copied
    <3>1. l \in 1..n /\ copied + l = j /\ Len(given) + l = Upto(r) + j
      BY <1>1, <1>2, <1>6, <1>7, <2>2, <2>4
    <3> HIDE DEF l
    <3>2. given'[Len(given) + l] = Bytes(m)[copied + l]
      BY <1>7, <1>9, <3>1
    <3>3. QED
      BY <1>5, <3>1, <3>2
  <2>5. QED
    BY <2>3, <2>4
<1>14. QED
  BY <1>1, <1>10, <1>11, <1>12, <1>13

LEMMA StepWhole == SendInv /\ [Next]_vars => SendInv'
<1> SUFFICES ASSUME SendInv, [Next]_vars PROVE SendInv'
  OBVIOUS
<1>1. Typed /\ Typed' /\ Defined /\ Grows
  BY StepTyped DEF SendInv
<1>2. /\ Len(Calls) \in Nat /\ call \in 1..Len(Calls) + 1 /\ Len(returned) = call - 1
      /\ given \in Seq(Byte) /\ tot \in Nat /\ copied \in Nat
  BY <1>1, SendAssumption DEF Typed, TypeOK, Shape
<1>3. ASSUME UNCHANGED returned, Whole' PROVE SendInv'
  BY <1>1, <1>3, QuietPromised DEF SendInv
<1>4. ASSUME NEW c, Return(c), Whole' PROVE SendInv'
  BY <1>1, <1>4, ReturnPromised DEF SendInv
<1>5. ASSUME UNCHANGED returned
      PROVE  /\ \A n \in 0..Len(returned) : Upto(n)' = Upto(n)
             /\ \A k \in 1..Len(returned) : k \in 0..Len(returned) /\ k - 1 \in 0..Len(returned)
             /\ Len(returned) \in 0..Len(returned)
             /\ NoneBroken' = NoneBroken
  BY <1>1, <1>2, <1>5, UptoStays DEF NoneBroken
<1>6. CASE Begin
  <2>1. call <= Len(Calls) /\ phase = "idle" /\ UNCHANGED <<given, arrived, up, cut>>
    BY <1>6 DEF Begin
  <2>2. tot = 0 /\ copied = 0
    BY <1>1, <2>1 DEF Typed, Shape
  <2>3. CASE phase' = "send" /\ UNCHANGED <<call, tot, copied, returned>>
    <3>1. Len(given)' = Len(given) /\ Len(returned)' = Len(returned)
      BY <2>1, <2>3
    <3>2. Whole'
      <4> SUFFICES ASSUME up', NoneBroken' PROVE
            /\ Len(given') = Upto(Len(returned))' + tot' + copied'
            /\ \A k \in 1..Len(returned') : Upto(k)' <= Len(given')
            /\ \A k \in 1..Len(returned') : k \notin cut' /\ returned'[k] = 0 => InPlace(k)'
            /\ \A j \in 1..copied' : FALSE
        BY DEF Whole
      <4>1. up /\ NoneBroken /\ Whole
        BY <1>5, <2>1, <2>3 DEF SendInv
      <4>2. Upto(Len(returned))' = Upto(Len(returned))
        BY <2>3 DEF Upto, Promised
      <4>3. \A k \in 1..Len(returned) : Upto(k)' = Upto(k) /\ Upto(k - 1)' = Upto(k - 1)
        BY <1>5, <2>3
      <4>4. QED
        BY <2>1, <2>2, <2>3, <4>1, <4>2, <4>3 DEF Whole, InPlace, Bytes
    <3>3. QED
      BY <1>3, <2>3, <3>2
  <2>4. CASE Return(-1) \/ Return(-13)
    <3>1. PICK c \in {-13, -1} : Return(c)
      BY <2>4
    <3>2. Whole'
      BY <1>1, <2>1, <2>2, <3>1, ReturnWhole
    <3>3. QED
      BY <1>4, <3>1, <3>2
  <2>5. QED
    BY <1>6, <2>3, <2>4 DEF Begin
<1>7. CASE Copy
  <2>1. Whole' /\ UNCHANGED returned
    BY <1>1, <1>7, CopyWhole DEF Copy
  <2>2. QED
    BY <1>3, <2>1
<1>8. CASE SendReturns
  <2>1. phase = "send" /\ call <= Len(Calls) /\ UNCHANGED <<given, arrived, up>>
    BY <1>1, <1>8 DEF SendReturns, Typed, Shape
  <2>2. CASE TotAfter >= ToSend
    <3>1. Return(0) /\ UNCHANGED cut
      BY <1>8, <2>2 DEF SendReturns
    <3>2. tot + copied = WireSize(Calls[call])
      <4>1. WireSize(Calls[call]) \in Nat /\ tot + copied <= WireSize(Calls[call])
        BY <1>1, <1>2, <2>1, MessageSize DEF Typed, TypeOK
      <4>2. tot + copied >= WireSize(Calls[call])
        BY <2>2 DEF TotAfter, ToSend
      <4>3. QED
        BY <1>2, <4>1, <4>2
    <3>3. Whole'
      BY <1>1, <2>1, <3>1, <3>2, ReturnWhole
    <3>4. QED
      BY <1>4, <3>1, <3>3
  <2>3. CASE ~(TotAfter >= ToSend)
    <3>1. /\ tot' = tot + copied /\ copied' = 0 /\ cut' = cut \cup {call}
          /\ UNCHANGED <<call, phase, returned>>
      BY <1>8, <2>3 DEF SendReturns, TotAfter
    <3>2. Whole'
      <4> SUFFICES ASSUME up', NoneBroken' PROVE
            /\ Len(given') = Upto(Len(returned))' + tot' + copied'
            /\ \A k \in 1..Len(returned') : Upto(k)' <= Len(given')
            /\ \A k \in 1..Len(returned') : k \notin cut' /\ returned'[k] = 0 => InPlace(k)'
            /\ call' \in cut'
        BY DEF Whole
      <4>1. up /\ NoneBroken /\ Whole
        BY <1>5, <2>1, <3>1 DEF SendInv
      <4>2. Upto(Len(returned))' = Upto(Len(returned)) /\ Upto(Len(returned)) \in Nat
        <5>1. Upto(Len(returned))' = Upto(Len(returned))
          BY <3>1 DEF Upto, Promised
        <5>2. QED
          BY <1>1, <1>5, <3>1, <5>1, UptoIs
      <4>3. \A k \in 1..Len(returned) : Upto(k)' = Upto(k) /\ Upto(k - 1)' = Upto(k - 1)
        BY <1>5, <3>1
      <4>4. Len(given') = Upto(Len(returned))' + tot' + copied'
        BY <1>2, <2>1, <3>1, <4>1, <4>2 DEF Whole
      <4>5. QED
        BY <2>1, <3>1, <4>1, <4>3, <4>4 DEF Whole, InPlace, Bytes
    <3>3. QED
      BY <1>3, <3>1, <3>2
  <2>4. QED
    BY <2>2, <2>3
<1>9. CASE SendError
  <2>1. call <= Len(Calls) /\ UNCHANGED <<given, arrived, up, cut>>
        /\ Return(IF IsCommon(Calls[call]) THEN -1 ELSE -2)
    BY <1>1, <1>9 DEF SendError, Typed, Shape
  <2>2. ~NoneBroken'
    <3> PICK m : m = call
      OBVIOUS
    <3>1. /\ m \in DOMAIN returned'
          /\ returned'[m] = IF IsCommon(Calls[m]) THEN -1 ELSE -2
      BY <1>1, <1>2, <2>1 DEF Return, Typed, TypeOK
    <3>2. QED
      BY <3>1 DEF NoneBroken
  <2>3. Whole'
    BY <2>2 DEF Whole
  <2>4. QED
    BY <1>4, <2>1, <2>3
<1>10. CASE ZaurusReads
  <2>1. UNCHANGED <<call, phase, tot, copied, given, up, returned, cut>>
    BY <1>10 DEF ZaurusReads, callVars
  <2>2. Whole'
    BY <2>1, QuietWhole
  <2>3. QED
    BY <1>3, <2>1, <2>2
<1>11. CASE Break
  <2>1. Whole' /\ UNCHANGED returned
    BY <1>11 DEF Break, callVars, Whole
  <2>2. QED
    BY <1>3, <2>1
<1>12. CASE UNCHANGED vars
  <2>1. UNCHANGED <<call, phase, tot, copied, given, up, returned, cut>>
    BY <1>12 DEF vars
  <2>2. Whole'
    BY <2>1, QuietWhole
  <2>3. QED
    BY <1>3, <2>1, <2>2
<1>13. QED
  BY <1>6, <1>7, <1>8, <1>9, <1>10, <1>11, <1>12 DEF Next, Send

(***************************************************************************)
(* For any messages, any room in the socket and however often sends are    *)
(* interrupted: as long as no call gave up and the connection holds, the   *)
(* stream has grown by the size of a message for every call that returned  *)
(* 0, and a message that one send took is whole and in its place.          *)
(***************************************************************************)
THEOREM WholeMessages == Spec => []WholeUnlessCut
<1>1. Init => SendInv
  BY InitWhole
<1>2. SendInv /\ [Next]_vars => SendInv'
  BY StepWhole
<1>3. SendInv => WholeUnlessCut
  BY WholeIsProperty
<1>4. QED
  BY <1>1, <1>2, <1>3, PTL DEF Spec
=============================================================================
