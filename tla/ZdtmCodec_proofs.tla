--------------------------- MODULE ZdtmCodec_proofs -------------------------
(***************************************************************************)
(* Theorems about ZdtmCodec: what a request is announced to take is what   *)
(* its write function writes, for strings of every length, and which of    *)
(* the integers go through the conversion that is theirs.                  *)
(***************************************************************************)
EXTENDS ZdtmCodec, SequenceTheorems, TLAPS

-----------------------------------------------------------------------------
(***************************************************************************)
(* The pieces of a message and their size.  Written is a function that is  *)
(* defined by recursion; of each sequence that a write function builds the *)
(* proofs know that there is just one such function, because it is built   *)
(* piece by piece from the empty one.                                      *)
(***************************************************************************)
Sizes(f, s) ==
    f = [i \in 0..Len(s) |-> IF i = 0 THEN 0 ELSE f[i - 1] + s[i].size]

\* An integer whose bytes are in order, or one that is known not to be.
InOrder(p) == p.bytes = p.value \/ (BigEndian /\ p.name \in Mangled)

\* A piece with a size, and with its integer in order.
Fine(p) == p.size \in Nat /\ InOrder(p)

\* A sequence of such pieces, which take n bytes.
Weighs(s, n) ==
    /\ \E S : s \in Seq(S)
    /\ n \in Nat
    /\ \A i \in 1..Len(s) : Fine(s[i])
    /\ \E f : Sizes(f, s) /\ (\A g : Sizes(g, s) => g = f) /\ f[Len(s)] = n

LEMMA WrittenIs ==
    ASSUME NEW s, NEW n, Weighs(s, n)
    PROVE  Written(s) = n
<1>1. PICK f : Sizes(f, s) /\ (\A g : Sizes(g, s) => g = f) /\ f[Len(s)] = n
  BY DEF Weighs
<1>2. Written(s) = (CHOOSE g : Sizes(g, s))[Len(s)]
  BY DEF Written, Sizes
<1>3. (CHOOSE g : Sizes(g, s)) = f
  BY <1>1
<1>4. QED
  BY <1>1, <1>2, <1>3

LEMMA WeighsNone == Weighs(<<>>, 0)
<1> DEFINE s == <<>>
           f == [i \in 0..0 |-> 0]
<1>1. s \in Seq({}) /\ Len(s) = 0
  BY EmptySeq
<1> HIDE DEF s
<1>2. Sizes(f, s)
  BY <1>1 DEF Sizes
<1>3. ASSUME NEW g, Sizes(g, s)
      PROVE  g = f
  <2>1. g = [i \in 0..0 |-> IF i = 0 THEN 0 ELSE g[i - 1] + s[i].size]
    BY <1>1, <1>3 DEF Sizes
  <2>2. QED
    BY <2>1
<1>4. f[0] = 0
  OBVIOUS
<1> HIDE DEF f
<1>5. \A i \in 1..Len(s) : FALSE
  BY <1>1
<1>6. Weighs(s, 0)
  BY <1>1, <1>2, <1>3, <1>4, <1>5 DEF Weighs
<1>7. QED
  BY <1>6 DEF s

\* One piece more.
LEMMA WeighsMore ==
    ASSUME NEW s, NEW n, Weighs(s, n), NEW p, Fine(p)
    PROVE  Weighs(s \o <<p>>, n + p.size)
<1>1. PICK S : s \in Seq(S)
  BY DEF Weighs
<1>2. PICK f : Sizes(f, s) /\ (\A g : Sizes(g, s) => g = f) /\ f[Len(s)] = n
  BY DEF Weighs
<1> DEFINE T == S \cup {p}
           t == s \o <<p>>
           l == Len(s)
           size == p.size
<1>3. s \in Seq(T) /\ <<p>> \in Seq(T) /\ Len(<<p>>) = 1 /\ <<p>>[1] = p
  BY <1>1, SeqMonotonic
<1>4. t \in Seq(T) /\ Len(t) = l + 1 /\ l \in Nat
  BY <1>3, ConcatProperties
<1>5. t[l + 1] = p /\ \A i \in 1..l : t[i] = s[i]
  <2>1. \A i \in 1..l + 1 : t[i] = IF i <= l THEN s[i] ELSE <<p>>[i - l]
    BY <1>3, ConcatProperties
  <2> HIDE DEF t, l
  <2> DEFINE m == l + 1
  <2>2. m \in 1..l + 1 /\ ~(m <= l) /\ m - l = 1
    BY <1>4
  <2>3. \A i \in 1..l : i \in 1..l + 1 /\ i <= l
    BY <1>4
  <2> HIDE DEF m
  <2>4. t[m] = p
    BY <1>3, <2>1, <2>2
  <2>5. QED
    BY <2>1, <2>3, <2>4 DEF m
<1>6. f = [i \in 0..l |-> IF i = 0 THEN 0 ELSE f[i - 1] + s[i].size] /\ f[l] = n
  BY <1>2 DEF Sizes
<1>7. size \in Nat /\ n \in Nat
  BY DEF Fine, Weighs
<1> HIDE DEF t, l, size
<1> DEFINE h == [i \in 0..l + 1 |-> IF i = l + 1 THEN n + size ELSE f[i]]
<1>8. \A i \in 0..l + 1 : h[i] = IF i = l + 1 THEN n + size ELSE f[i]
  OBVIOUS
<1>9. h = [i \in 0..l + 1 |-> h[i]]
  OBVIOUS
<1> HIDE DEF h
<1>10. \A i \in 0..l + 1 : i = l + 1 \/ (i \in 0..l /\ i # l + 1)
  BY <1>4
<1>11. \A i \in 1..l : i \in 0..l + 1 /\ i - 1 \in 0..l + 1 /\ i - 1 # l + 1 /\ i # l + 1 /\ i # 0
  BY <1>4
<1> DEFINE m == l + 1
<1>12. m - 1 = l /\ m # 0 /\ m \in 0..l + 1 /\ l \in 0..l + 1 /\ l # l + 1 /\ m = l + 1
  BY <1>4
<1>13. t[m] = p
  BY <1>5
<1> HIDE DEF m
<1>14. h[m] = n + size /\ h[l] = n
  BY <1>6, <1>8, <1>12
<1>15. ASSUME NEW i \in 0..l + 1
       PROVE  h[i] = IF i = 0 THEN 0 ELSE h[i - 1] + t[i].size
  <2>1. CASE i = m
    BY <1>12, <1>13, <1>14, <2>1 DEF size
  <2>2. CASE i = 0
    <3>1. i # l + 1 /\ i \in 0..l
      BY <1>4, <2>2
    <3>2. h[i] = f[i] /\ f[i] = 0
      BY <1>6, <1>8, <2>2, <3>1
    <3>3. QED
      BY <2>2, <3>2
  <2>3. CASE i \in 1..l
    <3>1. h[i] = f[i] /\ h[i - 1] = f[i - 1] /\ t[i] = s[i] /\ i # 0
      BY <1>5, <1>8, <1>11, <2>3
    <3>2. f[i] = f[i - 1] + s[i].size
      <4>1. i \in 0..l
        BY <1>4, <2>3
      <4>2. QED
        BY <1>6, <3>1, <4>1
    <3>3. QED
      BY <3>1, <3>2
  <2>4. QED
    BY <1>4, <1>12, <2>1, <2>2, <2>3
<1>16. Sizes(h, t)
  <2>1. h = [i \in 0..l + 1 |-> IF i = 0 THEN 0 ELSE h[i - 1] + t[i].size]
    BY <1>9, <1>15
  <2>2. QED
    BY <1>4, <2>1 DEF Sizes
<1>17. ASSUME NEW g, Sizes(g, t)
       PROVE  g = h
  <2>1. g = [i \in 0..l + 1 |-> IF i = 0 THEN 0 ELSE g[i - 1] + t[i].size]
    BY <1>4, <1>17 DEF Sizes
  <2>2. \A i \in 0..l + 1 : g[i] = IF i = 0 THEN 0 ELSE g[i - 1] + t[i].size
    BY <2>1
  <2> DEFINE r == [i \in 0..l |-> g[i]]
  <2>3. \A i \in 0..l : r[i] = g[i] /\ i \in 0..l + 1
                        /\ (i # 0 => i - 1 \in 0..l /\ i \in 1..l)
    BY <1>4
  <2>4. r = [i \in 0..l |-> r[i]] /\ \A i \in 0..l : r[i] = g[i]
    OBVIOUS
  <2> HIDE DEF r
  <2>5. \A i \in 0..l : r[i] = IF i = 0 THEN 0 ELSE r[i - 1] + s[i].size
    <3> TAKE i \in 0..l
    <3>1. CASE i = 0
      BY <2>2, <2>3, <3>1
    <3>2. CASE i # 0
      <4>1. g[i] = g[i - 1] + t[i].size /\ r[i] = g[i] /\ r[i - 1] = g[i - 1] /\ t[i] = s[i]
        BY <1>5, <2>2, <2>3, <3>2
      <4>2. QED
        BY <3>2, <4>1
    <3>3. QED
      BY <3>1, <3>2
  <2>6. r = [i \in 0..l |-> IF i = 0 THEN 0 ELSE r[i - 1] + s[i].size]
    BY <2>4, <2>5
  <2>7. r = f
    BY <1>2, <2>6 DEF Sizes, l
  <2>8. g[m] = g[m - 1] + t[m].size
    BY <1>12, <2>2
  <2>9. g[l] = n
    <3>1. l \in 0..l
      BY <1>4
    <3>2. QED
      BY <1>6, <2>4, <2>7, <3>1
  <2>10. g[m] = n + size
    BY <1>12, <1>13, <2>8, <2>9 DEF size
  <2>11. \A i \in 0..l + 1 : g[i] = h[i]
    BY <1>8, <1>10, <1>12, <1>14, <2>4, <2>7, <2>10
  <2>12. g = [i \in 0..l + 1 |-> g[i]]
    BY <2>1
  <2>13. QED
    BY <1>9, <2>11, <2>12
<1>18. h[Len(t)] = n + size /\ n + size \in Nat
  BY <1>4, <1>7, <1>12, <1>14
<1>19. \A i \in 1..Len(t) : Fine(t[i])
  <2>1. \A i \in 1..l : Fine(s[i])
    BY DEF Weighs, l
  <2>2. \A i \in 1..l + 1 : i = m \/ i \in 1..l
    BY <1>4, <1>12
  <2>3. QED
    BY <1>4, <1>5, <1>13, <2>1, <2>2
<1>20. Weighs(t, n + size)
  BY <1>4, <1>16, <1>17, <1>18, <1>19 DEF Weighs
<1>21. QED
  BY <1>20 DEF t, size

(***************************************************************************)
(* What pieces add to those before them.                                   *)
(***************************************************************************)
Adds(t, k) ==
    /\ \E S : t \in Seq(S)
    /\ k \in Nat
    /\ \A s, n : Weighs(s, n) => Weighs(s \o t, n + k)

LEMMA AddsNone == Adds(<<>>, 0)
<1>1. ASSUME NEW s, NEW n, Weighs(s, n)
      PROVE  Weighs(s \o <<>>, n + 0)
  <2>1. PICK S : s \in Seq(S)
    BY <1>1 DEF Weighs
  <2>2. s \o <<>> = s /\ n + 0 = n
    BY <1>1, <2>1, ConcatEmptySeq DEF Weighs
  <2>3. QED
    BY <1>1, <2>2
<1>2. <<>> \in Seq({})
  BY EmptySeq
<1>3. QED
  BY <1>1, <1>2 DEF Adds

LEMMA AddsOne == ASSUME NEW p, Fine(p) PROVE Adds(<<p>>, p.size)
<1>1. <<p>> \in Seq({p})
  OBVIOUS
<1>2. p.size \in Nat
  BY DEF Fine
<1>3. QED
  BY <1>1, <1>2, WeighsMore DEF Adds

LEMMA AddsBoth ==
    ASSUME NEW t, NEW k, Adds(t, k), NEW u, NEW l, Adds(u, l)
    PROVE  Adds(t \o u, k + l)
<1>1. PICK T : t \in Seq(T)
  BY DEF Adds
<1>2. PICK U : u \in Seq(U)
  BY DEF Adds
<1>3. t \in Seq(T \cup U) /\ u \in Seq(T \cup U)
  BY <1>1, <1>2, SeqMonotonic
<1>4. t \o u \in Seq(T \cup U)
  BY <1>3, ConcatProperties
<1>5. k \in Nat /\ l \in Nat /\ k + l \in Nat
  BY DEF Adds
<1>6. ASSUME NEW s, NEW n, Weighs(s, n)
      PROVE  Weighs(s \o (t \o u), n + (k + l))
  <2>1. PICK S : s \in Seq(S)
    BY <1>6 DEF Weighs
  <2> DEFINE V == S \cup T \cup U
  <2>2. s \in Seq(V) /\ t \in Seq(V) /\ u \in Seq(V)
    BY <1>3, <2>1, SeqMonotonic
  <2> HIDE DEF V
  <2>3. s \o (t \o u) = (s \o t) \o u
    BY <2>2, ConcatAssociative, SMTT(30)
  <2>4. n + (k + l) = (n + k) + l
    BY <1>5, <1>6 DEF Weighs
  <2>5. Weighs(s \o t, n + k)
    BY <1>6 DEF Adds
  <2>6. Weighs((s \o t) \o u, (n + k) + l)
    BY <2>5 DEF Adds
  <2>7. QED
    BY <2>3, <2>4, <2>6
<1>7. QED
  BY <1>4, <1>5, <1>6 DEF Adds

LEMMA AddsTwo ==
    ASSUME NEW p, Fine(p), NEW q, Fine(q)
    PROVE  Adds(<<p, q>>, p.size + q.size)
<1>1. <<p, q>> = <<p>> \o <<q>>
  OBVIOUS
<1>2. QED
  BY <1>1, AddsOne, AddsBoth

LEMMA AddsThree ==
    ASSUME NEW p, Fine(p), NEW q, Fine(q), NEW r, Fine(r)
    PROVE  Adds(<<p, q, r>>, p.size + q.size + r.size)
<1>1. <<p, q, r>> = <<p, q>> \o <<r>>
  OBVIOUS
<1>2. QED
  BY <1>1, AddsOne, AddsTwo, AddsBoth

LEMMA AddsFour ==
    ASSUME NEW p, Fine(p), NEW q, Fine(q), NEW r, Fine(r), NEW s, Fine(s)
    PROVE  Adds(<<p, q, r, s>>, p.size + q.size + r.size + s.size)
<1>1. <<p, q, r, s>> = <<p, q, r>> \o <<s>>
  OBVIOUS
<1>2. QED
  BY <1>1, AddsOne, AddsThree, AddsBoth

\* All that a write function leaves in the buffer is what it adds to nothing.
LEMMA AddsToNothing ==
    ASSUME NEW t, NEW k, Adds(t, k)
    PROVE  /\ Written(t) = k
           /\ \A i \in DOMAIN t : Fine(t[i])
<1>1. PICK T : t \in Seq(T)
  BY DEF Adds
<1>2. <<>> \o t = t /\ 0 + k = k
  BY <1>1, ConcatEmptySeq DEF Adds
<1>3. Weighs(<<>> \o t, 0 + k)
  BY WeighsNone DEF Adds
<1>4. Weighs(t, k)
  BY <1>2, <1>3
<1>5. DOMAIN t = 1..Len(t)
  BY <1>1
<1>6. QED
  BY <1>4, <1>5, WrittenIs DEF Weighs

(***************************************************************************)
(* The pieces of the requests.                                             *)
(***************************************************************************)
LEMMA BlobAdds ==
    ASSUME NEW name, NEW size \in Nat
    PROVE  Fine(Blob(name, size)) /\ Blob(name, size).size = size
BY DEF Fine, InOrder, Blob

LEMMA ByteAdds ==
    ASSUME NEW name
    PROVE  Fine(Byte(name)) /\ Byte(name).size = 1
BY BlobAdds DEF Byte

LEMMA OfIs ==
    ASSUME NEW n, NEW width \in Nat
    PROVE  \E S : Of(n, width) \in Seq(S) /\ Len(Of(n, width)) = width
<1> DEFINE e(i) == IF i > 3 THEN 0 ELSE (n \div 256^(i-1)) % 256
           S == {e(i) : i \in 1..width}
<1>1. Of(n, width) = [i \in 1..width |-> e(i)]
  BY DEF Of
<1>2. \A i \in 1..width : e(i) \in S
  OBVIOUS
<1> HIDE DEF e, S
<1>3. [i \in 1..width |-> e(i)] \in Seq(S) /\ Len([i \in 1..width |-> e(i)]) = width
  BY <1>2
<1>4. QED
  BY <1>1, <1>3

\* Turning a value round does not change its length.
LEMMA MemoryIs ==
    ASSUME NEW S, NEW value \in Seq(S)
    PROVE  /\ Len(Memory(value)) = Len(value) /\ \E T : Memory(value) \in Seq(T)
           /\ BigEndian = FALSE => Memory(value) = value
<1>1. Reverse(value) \in Seq(S) /\ Len(Reverse(value)) = Len(value)
  BY DEF Reverse
<1>2. QED
  BY <1>1, CodecAssumption DEF Memory

LEMMA CastIs ==
    ASSUME NEW S, NEW value \in Seq(S), NEW width \in Nat
    PROVE  Cast(value, width) \in Seq(S \cup {0}) /\ Len(Cast(value, width)) = width
BY DEF Cast

LEMMA StoredIs ==
    ASSUME NEW S, NEW value \in Seq(S), NEW by
    PROVE  /\ Len(Stored(by, value)) = Len(value)
           /\ BigEndian = FALSE => Stored(by, value) = value
<1>1. CASE BigEndian = FALSE
  BY <1>1, MemoryIs DEF Stored
<1>2. CASE BigEndian = TRUE
  <2>1. \E T : Converted(by, value) \in Seq(T)
    <3>1. /\ Cast(value, 2) \in Seq(S \cup {0})
          /\ Cast(value, 4) \in Seq(S \cup {0})
      BY CastIs
    <3>2. /\ Reverse(Cast(value, 2)) \in Seq(S \cup {0})
          /\ Reverse(Cast(value, 4)) \in Seq(S \cup {0})
      BY <3>1 DEF Reverse
    <3>3. QED
      BY <3>2 DEF Converted, zdtm_liltobigs, zdtm_liltobigl
  <2>2. PICK T : Converted(by, value) \in Seq(T)
    BY <2>1
  <2> DEFINE c == Converted(by, value)
             l == Len(value)
             w == Cast(c, l)
  <2>a. c \in Seq(T) /\ l \in Nat
    BY <2>2
  <2> HIDE DEF c, l
  <2>3. w \in Seq(T \cup {0}) /\ Len(w) = l
    BY <2>a, CastIs
  <2> HIDE DEF w
  <2>4. Len(Memory(w)) = l
    BY <2>3, MemoryIs
  <2>5. QED
    BY <1>2, <2>4 DEF Stored, w, c, l
<1>3. QED
  BY <1>1, <1>2, CodecAssumption

\* The width of what a conversion converts.
WidthOf(by) == IF by = "liltobigs" THEN 2 ELSE 4

LEMMA TurnedOnce ==
    ASSUME NEW S, NEW v \in Seq(S)
    PROVE  /\ Reverse(v) \in Seq(S) /\ Len(Reverse(v)) = Len(v)
           /\ \A i \in 1..Len(v) : Reverse(v)[i] = v[Len(v) - i + 1]
BY DEF Reverse

LEMMA Turned ==
    ASSUME NEW S, NEW v \in Seq(S)
    PROVE  /\ Reverse(v) \in Seq(S) /\ Len(Reverse(v)) = Len(v)
           /\ Reverse(Reverse(v)) = v
           /\ \A w \in Nat : w = Len(v) => Cast(v, w) = v
<1> DEFINE r == Reverse(v)
           t == Reverse(r)
<1>1. /\ r \in Seq(S) /\ Len(r) = Len(v)
      /\ \A i \in 1..Len(v) : r[i] = v[Len(v) - i + 1]
  BY TurnedOnce
<1> HIDE DEF r
<1>2. t = v
  <2>1. /\ t \in Seq(S) /\ Len(t) = Len(r)
        /\ \A i \in 1..Len(r) : t[i] = r[Len(r) - i + 1]
    BY <1>1, TurnedOnce
  <2> HIDE DEF t
  <2>2. ASSUME NEW i \in 1..Len(v) PROVE t[i] = v[i]
    <3>1. Len(v) \in Nat /\ Len(v) - i + 1 \in 1..Len(v) /\ Len(v) - (Len(v) - i + 1) + 1 = i
      OBVIOUS
    <3>2. t[i] = r[Len(v) - i + 1]
      BY <1>1, <2>1
    <3>3. QED
      BY <1>1, <3>1, <3>2
  <2>3. QED
    BY <1>1, <2>1, <2>2, SeqEqual
<1>3. Cast(v, Len(v)) = v
  <2>1. Cast(v, Len(v)) = [i \in 1..Len(v) |-> v[i]]
    BY DEF Cast
  <2>2. QED
    BY <2>1
<1>4. QED
  BY <1>1, <1>2, <1>3 DEF r, t

\* Through the conversion of its own width an integer is stored in order and
\* read as it was, on either kind of machine.
LEMMA StoredWhole ==
    ASSUME NEW S, NEW v \in Seq(S), NEW by \in {"liltobigs", "liltobigl"}, Len(v) = WidthOf(by)
    PROVE  Stored(by, v) = v /\ Read(by, v) = v
<1>1. CASE BigEndian = FALSE
  BY <1>1 DEF Stored, Read, Memory
<1>2. CASE BigEndian = TRUE
  <2>1. Memory(v) = Reverse(v)
    BY <1>2 DEF Memory
  <2>2. \A u \in Seq(S) : Len(u) = Len(v) => Converted(by, u) = Reverse(u)
    <3>1. ASSUME NEW u \in Seq(S), Len(u) = Len(v)
          PROVE  Converted(by, u) = Reverse(Cast(u, Len(u)))
      BY <3>1 DEF Converted, zdtm_liltobigs, zdtm_liltobigl, WidthOf
    <3>2. QED
      BY <3>1, Turned
  <2>3. Converted(by, v) = Reverse(v) /\ Converted(by, Reverse(v)) = v
    BY <2>2, Turned
  <2>4. Cast(Reverse(v), Len(v)) = Reverse(v) /\ Cast(v, Len(v)) = v
    BY Turned
  <2>5. Stored(by, v) = v
    BY <1>2, <2>3, <2>4, Turned DEF Stored, Memory
  <2>6. Read(by, v) = v
    BY <1>2, <2>1, <2>3, <2>4 DEF Read
  <2>7. QED
    BY <2>5, <2>6
<1>3. QED
  BY <1>1, <1>2, CodecAssumption

LEMMA ShortAdds ==
    ASSUME NEW name, NEW n
    PROVE  Fine(Short(name, Of(n, 2))) /\ Short(name, Of(n, 2)).size = 2
<1>1. PICK S : Of(n, 2) \in Seq(S) /\ Len(Of(n, 2)) = 2
  BY OfIs
<1> DEFINE v == Of(n, 2)
           b == Stored("liltobigs", v)
<1>2. Len(b) = 2 /\ b = v
  BY <1>1, StoredWhole DEF WidthOf
<1> HIDE DEF v, b
<1>3. Short(name, v) = [name |-> name, size |-> Len(b), value |-> v, bytes |-> b]
  BY DEF Short, Number, b
<1>4. Fine(Short(name, v)) /\ Short(name, v).size = 2
  BY <1>2, <1>3 DEF Fine, InOrder
<1>5. QED
  BY <1>4 DEF v

LEMMA LongAdds ==
    ASSUME NEW name, NEW n
    PROVE  Fine(Long(name, Of(n, 4))) /\ Long(name, Of(n, 4)).size = 4
<1>1. PICK S : Of(n, 4) \in Seq(S) /\ Len(Of(n, 4)) = 4
  BY OfIs
<1> DEFINE v == Of(n, 4)
           b == Stored("liltobigl", v)
<1>2. Len(b) = 4 /\ b = v
  BY <1>1, StoredWhole DEF WidthOf
<1> HIDE DEF v, b
<1>3. Long(name, v) = [name |-> name, size |-> Len(b), value |-> v, bytes |-> b]
  BY DEF Long, Number, b
<1>4. Fine(Long(name, v)) /\ Long(name, v).size = 4
  BY <1>2, <1>3 DEF Fine, InOrder
<1>5. QED
  BY <1>4 DEF v

LEMMA IdAdds ==
    ASSUME NEW S, NEW id \in Seq(S), Len(id) = 4
    PROVE  Fine(Id(id)) /\ Id(id).size = 4
<1> DEFINE b == Stored("liltobigs", id)
<1>1. Len(b) = 4 /\ (BigEndian = FALSE => b = id)
  BY StoredIs
<1> HIDE DEF b
<1>2. Id(id) = [name |-> "sync_id", size |-> Len(b), value |-> id, bytes |-> b]
  BY DEF Id, Number, b
<1>3. QED
  BY <1>1, <1>2, CodecAssumption DEF Fine, InOrder, Mangled

LEMMA PathLengthAdds ==
    ASSUME NEW n
    PROVE  LET p == Number("path_len", Of(n, 2), Memory(Of(n, 2)))
           IN  Fine(p) /\ p.size = 2
<1>1. PICK S : Of(n, 2) \in Seq(S) /\ Len(Of(n, 2)) = 2
  BY OfIs
<1> DEFINE v == Of(n, 2)
           b == Memory(v)
<1>2. Len(b) = 2 /\ (BigEndian = FALSE => b = v)
  BY <1>1, MemoryIs
<1> HIDE DEF v, b
<1>3. LET p == Number("path_len", v, b) IN Fine(p) /\ p.size = 2
  BY <1>2, CodecAssumption DEF Fine, InOrder, Mangled, Number
<1>4. QED
  BY <1>3 DEF v, b

LEMMA PrefixedAdds ==
    ASSUME NEW name, NEW size \in Nat
    PROVE  Adds(Prefixed(name, size), 4 + size)
<1> DEFINE p == Long("size of " \o name, Of(size, 4))
           q == Blob(name, size)
<1>1. Fine(p) /\ p.size = 4 /\ Fine(q) /\ q.size = size
  BY LongAdds, BlobAdds
<1> HIDE DEF p, q
<1>2. Adds(<<p, q>>, 4 + size)
  BY <1>1, AddsTwo
<1>3. QED
  BY <1>2 DEF Prefixed, p, q

LEMMA HeadAdds ==
    ASSUME NEW c, NEW S, c.sync_id \in Seq(S), Len(c.sync_id) = 4
    PROVE  Adds(RDWHead(c), 7)
<1> DEFINE p == Byte("sync_type")
           q == Short("num_sync_ids", Of(1, 2))
           r == Id(c.sync_id)
<1>1. Fine(p) /\ p.size = 1 /\ Fine(q) /\ q.size = 2 /\ Fine(r) /\ r.size = 4
  BY ByteAdds, ShortAdds, IdAdds
<1> HIDE DEF p, q, r
<1>2. Adds(<<p, q, r>>, 1 + 2 + 4)
  BY <1>1, AddsThree
<1>3. QED
  BY <1>2 DEF RDWHead, p, q, r

LEMMA PrefixAdds ==
    ASSUME NEW c, c.variation \in 1..3
    PROVE  Adds(RDWPrefix(c), Written(RDWPrefix(c)))
<1>1. \E k : Adds(RDWPrefix(c), k)
  <2>1. CASE c.variation = 1
    <3>1. Adds(<<Blob("padding", 16)>>, Blob("padding", 16).size)
      BY BlobAdds, AddsOne
    <3>2. QED
      BY <2>1, <3>1 DEF RDWPrefix
  <2>2. CASE c.variation = 2
    <3>1. Adds(Prefixed("attribute", 1), 4 + 1)
      BY PrefixedAdds
    <3>2. QED
      BY <2>2, <3>1 DEF RDWPrefix
  <2>3. CASE c.variation = 3
    <3> DEFINE t == Prefixed("attribute", 1)
               u == Prefixed("created", 5)
               v == Prefixed("modified", 5)
               w == Prefixed("id", 4)
    <3>1. Adds(t, 4 + 1) /\ Adds(u, 4 + 5) /\ Adds(v, 4 + 5) /\ Adds(w, 4 + 4)
      BY PrefixedAdds
    <3>2. RDWPrefix(c) = t \o u \o v \o w
      BY <2>3 DEF RDWPrefix
    <3> HIDE DEF t, u, v, w
    <3>3. Adds(t, 5) /\ Adds(u, 9) /\ Adds(v, 9) /\ Adds(w, 8)
      <4>1. 4 + 1 = 5 /\ 4 + 5 = 9 /\ 4 + 4 = 8
        OBVIOUS
      <4>2. QED
        BY <3>1, <4>1
    <3>4. Adds(t \o u, 5 + 9)
      BY <3>3, AddsBoth
    <3>5. Adds(t \o u \o v, 5 + 9 + 9)
      BY <3>3, <3>4, AddsBoth
    <3>6. Adds(t \o u \o v \o w, 5 + 9 + 9 + 8)
      BY <3>3, <3>5, AddsBoth
    <3>7. QED
      BY <3>2, <3>6
  <2>4. QED
    BY <2>1, <2>2, <2>3
<1>2. QED
  BY <1>1, AddsToNothing

\* What zdtm_todo_write puts into the buffer is what zdtm_todo_length says
\* when the description and the notes have four bytes each.
LEMMA TodoAdds ==
    ASSUME NEW c, c.category_len \in Nat, c.description_len = 4, c.notes_len = 4
    PROVE  Adds(zdtm_todo_write(c), zdtm_todo_length(c))
<1> DEFINE len == c.category_len
           p == Long("size of category", Of(IF BigEndian THEN len ELSE 4, 4))
           q == Blob("category", len)
           t1 == Prefixed("start_date", 5)
           t2 == Prefixed("due_date", 5)
           t3 == Prefixed("completed_date", 5)
           t4 == Prefixed("progress", 1)
           t5 == Prefixed("priority", 1)
           d1 == Long("size of description", Of(c.description_len, 4))
           d2 == Blob("description", 4)
           n1 == Long("size of notes", Of(c.notes_len, 4))
           n2 == Blob("notes", 4)
<1>1. Fine(p) /\ p.size = 4 /\ Fine(q) /\ q.size = len
  BY LongAdds, BlobAdds
<1>2. Adds(t1, 9) /\ Adds(t2, 9) /\ Adds(t3, 9) /\ Adds(t4, 5) /\ Adds(t5, 5)
  <2>1. Adds(t1, 4 + 5) /\ Adds(t2, 4 + 5) /\ Adds(t3, 4 + 5) /\ Adds(t4, 4 + 1) /\ Adds(t5, 4 + 1)
    BY PrefixedAdds
  <2> HIDE DEF t1, t2, t3, t4, t5
  <2>2. 4 + 5 = 9 /\ 4 + 1 = 5
    OBVIOUS
  <2>3. QED
    BY <2>1, <2>2
<1>3. /\ Fine(d1) /\ d1.size = 4 /\ Fine(d2) /\ d2.size = 4
      /\ Fine(n1) /\ n1.size = 4 /\ Fine(n2) /\ n2.size = 4
  BY LongAdds, BlobAdds
<1>4. zdtm_todo_write(c)
        = <<p, q>> \o t1 \o t2 \o t3 \o t4 \o t5 \o <<d1, d2, n1, n2>>
  BY DEF zdtm_todo_write
<1>5. len \in Nat /\ zdtm_todo_length(c) = len + 57
  BY DEF zdtm_todo_length
<1> HIDE DEF len, p, q, t1, t2, t3, t4, t5, d1, d2, n1, n2
<1>6. Adds(<<p, q>>, 4 + len)
  BY <1>1, AddsTwo
<1>7. Adds(<<d1, d2, n1, n2>>, 4 + 4 + 4 + 4)
  BY <1>3, AddsFour
<1>8. Adds(<<p, q>> \o t1, 4 + len + 9)
  BY <1>2, <1>6, AddsBoth
<1>9. Adds(<<p, q>> \o t1 \o t2, 4 + len + 9 + 9)
  BY <1>2, <1>8, AddsBoth
<1>10. Adds(<<p, q>> \o t1 \o t2 \o t3, 4 + len + 9 + 9 + 9)
  BY <1>2, <1>9, AddsBoth
<1>11. Adds(<<p, q>> \o t1 \o t2 \o t3 \o t4, 4 + len + 9 + 9 + 9 + 5)
  BY <1>2, <1>10, AddsBoth
<1>12. Adds(<<p, q>> \o t1 \o t2 \o t3 \o t4 \o t5, 4 + len + 9 + 9 + 9 + 5 + 5)
  BY <1>2, <1>11, AddsBoth
<1>13. Adds(<<p, q>> \o t1 \o t2 \o t3 \o t4 \o t5 \o <<d1, d2, n1, n2>>,
            4 + len + 9 + 9 + 9 + 5 + 5 + (4 + 4 + 4 + 4))
  BY <1>7, <1>12, AddsBoth
<1>14. 4 + len + 9 + 9 + 9 + 5 + 5 + (4 + 4 + 4 + 4) = len + 57
  BY <1>5
<1>15. QED
  BY <1>4, <1>5, <1>13, <1>14

(***************************************************************************)
(* What a program fills in that the library can send: the values have      *)
(* their widths; a log fits its field; an RDW is of a known variation, and *)
(* the strings of a todo item that is written are the four bytes that      *)
(* zdtm_todo_write copies; the whole is not longer than body_size counts.  *)
(***************************************************************************)
Sendable(c) ==
    /\ c.len \in Nat
    /\ c.sync_id \in Seq(Nat) /\ Len(c.sync_id) = 4
    /\ c.type = "RMS" => c.len <= RMS_LOG_SIZE
    /\ c.type = "RDW" => c.variation \in 1..3
    /\ c.type = "RDW" /\ HasItem(c) =>
         /\ c.sync_type = SYNC_TYPE_TODO
         /\ c.category_len \in Nat /\ c.description_len = 4 /\ c.notes_len = 4
    /\ MSG_TYPE_SIZE + Code(c).length < UINT16

LEMMA RDWAdds ==
    ASSUME NEW c, Sendable(c), c.type = "RDW"
    PROVE  Adds(RDW(c).write, RDW(c).length)
<1> DEFINE head == RDWHead(c)
           prefix == RDWPrefix(c)
           size == Written(RDWPrefix(c))
           item == zdtm_todo_write(c)
           isize == zdtm_todo_length(c)
           none == <<>>
<1>1. c.variation \in 1..3 /\ (HasItem(c) => c.sync_type = SYNC_TYPE_TODO)
  BY DEF Sendable
<1>2. /\ RDW(c).length = 7 + size + (IF HasItem(c) THEN isize ELSE 0)
      /\ RDW(c).write = head \o prefix \o (IF HasItem(c) THEN item ELSE none)
  BY <1>1 DEF RDW, zdtm_rdw_length, zdtm_rdw_write
<1>3. Adds(head, 7)
  BY HeadAdds DEF Sendable
<1>4. Adds(prefix, size)
  BY <1>1, PrefixAdds
<1>5. HasItem(c) => Adds(item, isize)
  BY TodoAdds DEF Sendable
<1>6. Adds(none, 0)
  BY AddsNone
<1> HIDE DEF head, prefix, size, item, isize, none
<1>7. Adds(head \o prefix, 7 + size)
  BY <1>3, <1>4, AddsBoth
<1>8. CASE HasItem(c)
  <2>1. Adds(head \o prefix \o item, 7 + size + isize)
    BY <1>5, <1>7, <1>8, AddsBoth
  <2>2. QED
    BY <1>2, <1>8, <2>1
<1>9. CASE ~HasItem(c)
  <2>1. Adds(head \o prefix \o none, 7 + size + 0)
    BY <1>6, <1>7, AddsBoth
  <2>2. QED
    BY <1>2, <1>9, <2>1
<1>10. QED
  BY <1>8, <1>9

LEMMA RMSAdds ==
    ASSUME NEW c, Sendable(c), c.type = "RMS"
    PROVE  Adds(RMS(c).write, RMS(c).length)
<1> DEFINE p == Short("log_size", Of(c.len, 2))
           q == Blob("log", c.len)
           r == Blob("zeros", RMS_LOG_SIZE - c.len)
<1>1. c.len \in Nat /\ c.len <= RMS_LOG_SIZE /\ RMS_LOG_SIZE \in Nat
  BY CodecAssumption DEF Sendable
<1>2. /\ Fine(p) /\ p.size = 2 /\ Fine(q) /\ q.size = c.len
      /\ Fine(r) /\ r.size = RMS_LOG_SIZE - c.len
  <2>1. RMS_LOG_SIZE - c.len \in Nat
    BY <1>1
  <2>2. QED
    BY <1>1, <2>1, ShortAdds, BlobAdds
<1>3. RMS(c).write = <<p, q, r>> /\ RMS(c).length = 2 + RMS_LOG_SIZE
  <2>1. ~(c.len > RMS_LOG_SIZE)
    BY <1>1
  <2>2. QED
    BY <2>1 DEF RMS, Coded
<1> HIDE DEF p, q, r
<1>4. Adds(<<p, q, r>>, p.size + q.size + r.size)
  BY <1>2, AddsThree
<1>5. p.size + q.size + r.size = 2 + RMS_LOG_SIZE
  BY <1>1, <1>2
<1>6. QED
  BY <1>3, <1>4, <1>5

LEMMA StringsAdd ==
    ASSUME NEW c, c.len \in Nat
    PROVE  /\ Adds(RRL(c).write, RRL(c).length)
           /\ Adds(RGE(c).write, RGE(c).length)
<1> DEFINE p == Byte("pw_size")
           size == c.len % 256
           q == Blob("pw", size)
           l == Number("path_len", Of(c.len, 2), Memory(Of(c.len, 2)))
           m == Blob("path", c.len)
<1>1. size \in Nat
  BY SMT
<1>2. /\ Fine(p) /\ p.size = 1 /\ Fine(q) /\ q.size = size
      /\ Fine(l) /\ l.size = 2 /\ Fine(m) /\ m.size = c.len
  BY <1>1, ByteAdds, BlobAdds, PathLengthAdds
<1>3. /\ RRL(c).write = <<p, q>> /\ RRL(c).length = 1 + size
      /\ RGE(c).write = <<l, m>> /\ RGE(c).length = 2 + c.len
  BY DEF RRL, RGE, Coded
<1> HIDE DEF p, size, q, l, m
<1>4. Adds(<<p, q>>, 1 + size) /\ Adds(<<l, m>>, 2 + c.len)
  BY <1>2, AddsTwo
<1>5. QED
  BY <1>3, <1>4

LEMMA IdsAdd ==
    ASSUME NEW c, c.sync_id \in Seq(Nat), Len(c.sync_id) = 4
    PROVE  /\ Adds(RDR(c).write, RDR(c).length)
           /\ Adds(RDD(c).write, RDD(c).length)
<1>1. Adds(RDWHead(c), 7)
  BY HeadAdds
<1>2. /\ RDR(c).write = RDWHead(c) /\ RDD(c).write = RDWHead(c)
      /\ RDR(c).length = 7 /\ RDD(c).length = 7
  BY DEF RDR, RDD, RDWHead, Coded
<1>3. QED
  BY <1>1, <1>2

LEMMA FixedAdd ==
    ASSUME NEW c
    PROVE  /\ Adds(RMG(c).write, RMG(c).length) /\ Adds(RTS(c).write, RTS(c).length)
           /\ Adds(RDI(c).write, RDI(c).length) /\ Adds(RSY(c).write, RSY(c).length)
           /\ Adds(RSS(c).write, RSS(c).length) /\ Adds(RDS(c).write, RDS(c).length)
           /\ Adds(RQT(c).write, RQT(c).length) /\ Adds(RLR(c).write, RLR(c).length)
           /\ Adds(Empty(c).write, Empty(c).length)
<1> DEFINE uk == Byte("uk")
           st == Byte("sync_type")
           u1 == Byte("uk_1")
           u2 == Byte("uk_2")
           status == Byte("status")
           two == Blob("null_bytes", 2)
           three == Blob("null_bytes", 3)
           date == Blob("date", RTS_DATE_LEN)
<1>1. /\ Fine(uk) /\ uk.size = 1 /\ Fine(st) /\ st.size = 1 /\ Fine(u1) /\ u1.size = 1
      /\ Fine(u2) /\ u2.size = 1 /\ Fine(status) /\ status.size = 1
      /\ Fine(two) /\ two.size = 2 /\ Fine(three) /\ three.size = 3
      /\ Fine(date) /\ date.size = RTS_DATE_LEN
  BY ByteAdds, BlobAdds, CodecAssumption
<1>2. /\ RMG(c).write = <<uk, st>> /\ RMG(c).length = 2
      /\ RDI(c).write = <<st, uk>> /\ RDI(c).length = 2
      /\ RSY(c).write = <<st, uk>> /\ RSY(c).length = 2
      /\ RSS(c).write = <<u1, st, u2>> /\ RSS(c).length = 3
      /\ RDS(c).write = <<st, status, two>> /\ RDS(c).length = 4
      /\ RTS(c).write = <<date>> /\ RTS(c).length = RTS_DATE_LEN
      /\ RQT(c).write = <<three>> /\ RQT(c).length = 3
      /\ RLR(c).write = <<st>> /\ RLR(c).length = 1
      /\ Empty(c).write = <<>> /\ Empty(c).length = 0
  BY DEF RMG, RDI, RSY, RSS, RDS, RTS, RQT, RLR, Empty, Coded
<1> HIDE DEF uk, st, u1, u2, status, two, three, date
<1>3. /\ Adds(<<uk, st>>, 1 + 1) /\ Adds(<<st, uk>>, 1 + 1)
      /\ Adds(<<u1, st, u2>>, 1 + 1 + 1) /\ Adds(<<st, status, two>>, 1 + 1 + 2)
  BY <1>1, AddsTwo, AddsThree
<1>4. /\ Adds(<<date>>, RTS_DATE_LEN) /\ Adds(<<three>>, 3) /\ Adds(<<st>>, 1)
      /\ Adds(<<>>, 0)
  BY <1>1, AddsOne, AddsNone
<1>5. QED
  BY <1>2, <1>3, <1>4

\* What is announced is what is written, request by request.
LEMMA CodeAdds ==
    ASSUME NEW c, Sendable(c)
    PROVE  Adds(Code(c).write, Code(c).length)
<1>1. CASE c.type \in {"RRL", "RGE"}
  BY <1>1, StringsAdd DEF Sendable, Code
<1>2. CASE c.type \in {"RDR", "RDD"}
  BY <1>2, IdsAdd DEF Sendable, Code
<1>3. CASE c.type = "RMS"
  BY <1>3, RMSAdds DEF Code
<1>4. CASE c.type = "RDW"
  BY <1>4, RDWAdds DEF Code
<1>5. CASE c.type \notin {"RRL", "RGE", "RDR", "RDD", "RMS", "RDW"}
  BY <1>5, FixedAdd DEF Code
<1>6. QED
  BY <1>1, <1>2, <1>3, <1>4, <1>5
-----------------------------------------------------------------------------
(***************************************************************************)
(* Types.                                                                  *)
(***************************************************************************)
LEMMA Remainder == \A x \in Int : x % UINT16 \in 0..UINT16-1
<1>1. UINT16 \in Nat /\ UINT16 > 0
  BY SMT DEF UINT16
<1> HIDE DEF UINT16
<1>2. ASSUME NEW x \in Int, NEW m \in Nat, m > 0
      PROVE  x % m \in 0..m-1
  BY <1>2, SMT
<1>3. QED
  BY <1>1, <1>2

LEMMA SmallRemainder == ASSUME NEW x \in Nat, x < UINT16 PROVE x % UINT16 = x
BY SMT DEF UINT16

LEMMA OutcomeIs ==
    ASSUME NEW c, Code(c).length \in Int, NEW code
    PROVE  Outcome(code, c).code = code /\ Outcome(code, c).body \in 0..UINT16-1
<1>1. MSG_TYPE_SIZE + Code(c).length \in Int
  BY CodecAssumption
<1>2. BodySizeOf(c) \in 0..UINT16-1
  BY <1>1, Remainder DEF BodySizeOf
<1>3. QED
  BY <1>2 DEF Outcome

(***************************************************************************)
(* For all contents of which the library can tell a length: the sizes stay *)
(* within body_size, the codes are those of _zdtm_prepare_message.         *)
(***************************************************************************)
THEOREM TypeCorrect ==
    ASSUME \A c \in Contents : Code(c).length \in Int /\ c # NoContent
    PROVE  Spec => []TypeOK
<1>1. Init => TypeOK
  BY DEF Init, TypeOK
<1>2. TypeOK /\ [Next]_vars => TypeOK'
  <2> SUFFICES ASSUME TypeOK, [Next]_vars PROVE TypeOK'
    OBVIOUS
  <2>1. CASE Fill
    BY <2>1 DEF Fill, TypeOK
  <2>2. CASE PrepareUnknown
    <3>1. content \in Contents
      BY <2>2 DEF PrepareUnknown, TypeOK
    <3>2. result'.code = -10 /\ result'.body \in 0..UINT16-1
      BY <2>2, <3>1, OutcomeIs DEF PrepareUnknown, RET_UNK_TYPE
    <3>3. QED
      BY <2>2, <3>2 DEF PrepareUnknown, TypeOK
  <2>3. CASE PrepareAgain
    <3>1. content \in Contents
      BY <2>3 DEF PrepareAgain, TypeOK
    <3>2. result'.code = -7 /\ result'.body \in 0..UINT16-1
      BY <2>3, <3>1, OutcomeIs DEF PrepareAgain, RET_NNULL_RAW
    <3>3. QED
      BY <2>3, <3>2 DEF PrepareAgain, TypeOK
  <2>4. CASE PrepareNoMemory
    <3>1. content \in Contents
      BY <2>4 DEF PrepareNoMemory, TypeOK
    <3>2. result'.code = -1 /\ result'.body \in 0..UINT16-1
      BY <2>4, <3>1, OutcomeIs DEF PrepareNoMemory
    <3>3. QED
      BY <2>4, <3>2 DEF PrepareNoMemory, TypeOK
  <2>5. CASE Prepare
    <3>1. content \in Contents
      BY <2>5 DEF Prepare, TypeOK
    <3>2. result'.code \in {-10, 0} /\ result'.body \in 0..UINT16-1
      <4>1. PICK code \in {-10, 0} : result' = Outcome(code, content)
        BY <2>5 DEF Prepare, RET_UNK_TYPE
      <4>2. QED
        BY <3>1, <4>1, OutcomeIs
    <3>3. QED
      BY <2>5, <3>2 DEF Prepare, TypeOK
  <2>6. CASE Clean
    BY <2>6 DEF Clean, TypeOK
  <2>7. CASE UNCHANGED vars
    BY <2>7 DEF vars, TypeOK
  <2>8. QED
    BY <2>1, <2>2, <2>3, <2>4, <2>5, <2>6, <2>7 DEF Next
<1>3. QED
  BY <1>1, <1>2, PTL DEF Spec
-----------------------------------------------------------------------------
(***************************************************************************)
(* What was prepared.                                                      *)
(***************************************************************************)
\* The raw content of a message that was prepared is what its write function
\* left, the sizes are those of its length function.
CodecInv ==
    /\ content = NoContent \/ content \in Contents
    /\ Prepared => /\ content \in Contents
                   /\ raw = Code(content).write
                   /\ result = Outcome(0, content)

LEMMA InitPrepared == Init => CodecInv
BY DEF Init, CodecInv, Prepared

LEMMA StepPrepared == CodecInv /\ [Next]_vars => CodecInv'
<1> SUFFICES ASSUME CodecInv, [Next]_vars PROVE CodecInv'
  OBVIOUS
<1>1. CASE Fill
  BY <1>1 DEF Fill, CodecInv, Prepared
<1>2. ASSUME NEW code, code # 0, result' = Outcome(code, content), UNCHANGED <<content, raw>>
      PROVE  CodecInv'
  <2>1. result'.code = code
    BY <1>2 DEF Outcome
  <2>2. QED
    BY <1>2, <2>1 DEF CodecInv, Prepared
<1>3. CASE PrepareUnknown
  BY <1>2, <1>3 DEF PrepareUnknown, RET_UNK_TYPE
<1>4. CASE PrepareAgain
  BY <1>2, <1>4 DEF PrepareAgain, RET_NNULL_RAW
<1>5. CASE PrepareNoMemory
  BY <1>2, <1>5 DEF PrepareNoMemory
<1>6. CASE Prepare
  <2>1. content \in Contents /\ content' = content /\ raw' = Code(content).write
    BY <1>6 DEF Prepare, CodecInv
  <2>2. result' = Outcome(0, content) \/ result' = Outcome(-10, content)
    BY <1>6 DEF Prepare, RET_UNK_TYPE
  <2>3. Outcome(-10, content).code = -10
    BY DEF Outcome
  <2>4. CASE result' = Outcome(0, content)
    <3>1. Outcome(0, content)' = Outcome(0, content) /\ Code(content)' = Code(content)
      BY <2>1 DEF Outcome, BodySizeOf, ContSizeOf
    <3>2. QED
      BY <2>1, <2>4, <3>1 DEF CodecInv
  <2>5. CASE result' = Outcome(-10, content)
    BY <2>1, <2>3, <2>5 DEF CodecInv, Prepared
  <2>6. QED
    BY <2>2, <2>4, <2>5
<1>7. CASE Clean
  BY <1>7 DEF Clean, CodecInv, Prepared
<1>8. CASE UNCHANGED vars
  <2>1. UNCHANGED <<content, raw, result>>
    BY <1>8 DEF vars
  <2>2. Outcome(0, content)' = Outcome(0, content) /\ Code(content)' = Code(content)
    BY <2>1 DEF Outcome, BodySizeOf, ContSizeOf
  <2>3. QED
    BY <2>1, <2>2 DEF CodecInv, Prepared
<1>9. QED
  BY <1>1, <1>3, <1>4, <1>5, <1>6, <1>7, <1>8 DEF Next

LEMMA LengthsAre ==
    ASSUME \A c \in Contents : Sendable(c), CodecInv
    PROVE  LengthIsWritten
<1> SUFFICES ASSUME Prepared
             PROVE  /\ Written(raw) = result.cont
                    /\ result.body = MSG_TYPE_SIZE + result.cont
  BY DEF LengthIsWritten
<1>1. content \in Contents /\ raw = Code(content).write /\ result = Outcome(0, content)
  BY DEF CodecInv
<1> DEFINE length == Code(content).length
           size == MSG_TYPE_SIZE
<1>2. Adds(Code(content).write, length)
  BY <1>1, CodeAdds
<1>3. Written(raw) = length /\ length \in Nat
  BY <1>1, <1>2, AddsToNothing DEF Adds
<1>4. size + length < UINT16 /\ size \in Nat
  BY <1>1, CodecAssumption DEF Sendable
<1>5. /\ BodySizeOf(content) = (size + length) % UINT16
      /\ ContSizeOf(content) = (BodySizeOf(content) - size) % UINT16
  BY DEF BodySizeOf, ContSizeOf
<1>6. result.cont = ContSizeOf(content) /\ result.body = BodySizeOf(content)
  BY <1>1 DEF Outcome
<1> HIDE DEF length, size
<1>7. BodySizeOf(content) = size + length
  <2>1. size + length \in Nat
    BY <1>3, <1>4
  <2>2. QED
    BY <1>4, <1>5, <2>1, SmallRemainder
<1>8. ContSizeOf(content) = length
  <2>1. BodySizeOf(content) - size = length
    BY <1>3, <1>4, <1>7
  <2>2. length < UINT16
    BY <1>3, <1>4, SMT DEF UINT16
  <2>3. QED
    BY <1>3, <1>5, <2>1, <2>2, SmallRemainder
<1>9. QED
  BY <1>3, <1>6, <1>7, <1>8 DEF size

(***************************************************************************)
(* For every request and strings of any length, on either kind of machine: *)
(* the length function and the write function, which are written apart,    *)
(* agree, and body_size announces just that.  Sendable is what the         *)
(* agreement needs, and every part of it: see the README.                  *)
(***************************************************************************)
THEOREM LengthsAgree ==
    ASSUME \A c \in Contents : Sendable(c)
    PROVE  Spec => []LengthIsWritten
<1>1. Init => CodecInv
  BY InitPrepared
<1>2. CodecInv /\ [Next]_vars => CodecInv'
  BY StepPrepared
<1>3. CodecInv => LengthIsWritten
  BY LengthsAre
<1>4. QED
  BY <1>1, <1>2, <1>3, PTL DEF Spec

\* The integers that come in.
LEMMA ReadAsSent ==
    ASSUME NEW S, NEW id \in Seq(S), NEW f \in Received
    PROVE  LET value == Cast(id, f.width)
           IN  Read(f.by, value) = value \/ (BigEndian /\ f.name \in Misread)
<1> DEFINE v == Cast(id, f.width)
<1>1. /\ f.by \in {"liltobigs", "liltobigl"} /\ f.width \in Nat
      /\ f.width = WidthOf(f.by) \/ f.name \in Misread
  <2>1. CASE \E name : \/ f = Field(name, 2, "liltobigs")
                                 \/ f = Field(name, 4, "liltobigl")
    BY <2>1 DEF Field, WidthOf
  <2>2. CASE \E name \in Misread : f = Field(name, 2, "liltobigl")
    BY <2>2 DEF Field
  <2>3. QED
    BY <2>1, <2>2 DEF Received, AIGInts, ADIInts, ASYInts, ADRInts, ADWInts, ReceivedBodySize, Misread
<1>2. v \in Seq(S \cup {0}) /\ Len(v) = f.width
  BY <1>1, CastIs
<1> HIDE DEF v
<1>3. CASE BigEndian = FALSE
  BY <1>3 DEF Read, v
<1>4. CASE BigEndian = TRUE
  <2>1. f.width = WidthOf(f.by) => Read(f.by, v) = v
    BY <1>1, <1>2, StoredWhole
  <2>2. QED
    BY <1>1, <1>4, <2>1 DEF v
<1>5. QED
  BY <1>3, <1>4, CodecAssumption

LEMMA IntegersAre ==
    ASSUME \A c \in Contents : Sendable(c), CodecInv
    PROVE  IntegersConverted
<1> SUFFICES ASSUME Prepared
             PROVE  /\ \A p \in Sent : InOrder(p)
                    /\ \A f \in Received :
                         LET value == Cast(content.sync_id, f.width)
                         IN  Read(f.by, value) = value \/ (BigEndian /\ f.name \in Misread)
  BY DEF IntegersConverted, InOrder
<1>1. content \in Contents /\ raw = Code(content).write
  BY DEF CodecInv
<1>2. \A i \in DOMAIN raw : InOrder(raw[i])
  BY <1>1, CodeAdds, AddsToNothing DEF Fine
<1>3. InOrder(ContSizeField(result.cont))
  BY ShortAdds DEF ContSizeField, Fine
<1>4. InOrder(BodySizeField(result.body))
  BY CodecAssumption DEF BodySizeField, Number, Memory, InOrder, Mangled
<1>5. PICK S : content.sync_id \in Seq(S)
  BY <1>1 DEF Sendable
<1>6. QED
  BY <1>2, <1>3, <1>4, <1>5, ReadAsSent DEF Sent

(***************************************************************************)
(* For every request and every integer in it, on either kind of machine:   *)
(* the conversion that the code applies is that of the integer's width, so *)
(* that it is on the wire least significant byte first and comes back from *)
(* there as it was, except for the integers that Mangled and Misread name. *)
(***************************************************************************)
THEOREM IntegersAreConverted ==
    ASSUME \A c \in Contents : Sendable(c)
    PROVE  Spec => []IntegersConverted
<1>1. Init => CodecInv
  BY InitPrepared
<1>2. CodecInv /\ [Next]_vars => CodecInv'
  BY StepPrepared
<1>3. CodecInv => IntegersConverted
  BY IntegersAre
<1>4. QED
  BY <1>1, <1>2, <1>3, PTL DEF Spec
=============================================================================
