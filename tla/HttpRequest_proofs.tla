------------------------- MODULE HttpRequest_proofs -------------------------
(***************************************************************************)
(* Proofs about HttpRequest and LineSocket, for all parameters, headers,   *)
(* query strings, requests and lines of bytes, of any length and however   *)
(* many, every size of a read and every size of the kernel's buffers.      *)
(***************************************************************************)
EXTENDS HttpRequest, LineSocket, SequenceFacts

Str == Seq(Byte)

-----------------------------------------------------------------------------
(* pctencode and pctdecode. *)

\* The digits.
LEMMA DigitCodes == \A k \in 1..16 : HexDigits[k] = IF k <= 10 THEN 47 + k ELSE 86 + k
<1> SUFFICES ASSUME NEW k \in 1..16 PROVE HexDigits[k] = IF k <= 10 THEN 47 + k ELSE 86 + k
  OBVIOUS
<1>1. k = 1 \/ k = 2 \/ k = 3 \/ k = 4 \/ k = 5 \/ k = 6 \/ k = 7 \/ k = 8
      \/ k = 9 \/ k = 10 \/ k = 11 \/ k = 12 \/ k = 13 \/ k = 14 \/ k = 15 \/ k = 16
  OBVIOUS
<1>2. QED
  BY <1>1 DEF HexDigits

\* A number that was written as a digit is read back, and no digit is a
\* character that means something else.
LEMMA DigitReadBack ==
  ASSUME NEW n \in 0..15
  PROVE  /\ nyb2hex(n) \in Byte \ {Percent, Ampersand, PlusSign, EqualSign, Space}
         /\ IsHex(nyb2hex(n)) /\ hex2nyb(nyb2hex(n)) = n
<1> DEFINE c == nyb2hex(n)
<1>1. n + 1 \in 1..16 /\ c = IF n + 1 <= 10 THEN 47 + (n + 1) ELSE 86 + (n + 1)
  BY DigitCodes DEF nyb2hex
<1>2. ToLower(c) = c
  BY <1>1 DEF ToLower
<1>3. HexDigits[n + 1] = c
  BY DEF nyb2hex
<1>4. \A k \in 1..16 : HexDigits[k] = ToLower(c) <=> k = n + 1
  BY <1>1, <1>2, DigitCodes
<1>5. IsHex(c) /\ hex2nyb(c) = n + 1 - 1
  <2> HIDE DEF c
  <2>1. (CHOOSE k \in 1..16 : HexDigits[k] = ToLower(c)) = n + 1
    BY <1>1, <1>4
  <2>2. QED
    BY <1>1, <1>4, <2>1 DEF IsHex, hex2nyb
<1>6. QED
  BY <1>1, <1>5 DEF Byte, Percent, Ampersand, PlusSign, EqualSign, Space

\* What is read as a digit is one.
LEMMA DigitValue == \A c : IsHex(c) => hex2nyb(c) \in 0..15
BY DEF IsHex, hex2nyb

\* What is written in the place of a character.
Written(c) ==
  IF c = Space THEN <<PlusSign>>
  ELSE IF c < Space \/ c > 127 \/ c \in {Percent, EqualSign, Ampersand, PlusSign}
  THEN <<Percent, nyb2hex(c \div 16), nyb2hex(c % 16)>> ELSE <<c>>
Enc == [c \in Byte |-> Written(c)]

\* Neither the character that separates items nor the one within an item.
Plain == Byte \ {Ampersand, EqualSign}

\* Halves of a byte.
LEMMA Halves ==
  ASSUME NEW c \in Byte
  PROVE  c \div 16 \in 0..15 /\ c % 16 \in 0..15 /\ (c \div 16) * 16 + (c % 16) = c
BY DEF Byte

\* Every character is written as plain ones.
LEMMA EncType == Enc \in [Byte -> Seq(Plain)]
<1> SUFFICES ASSUME NEW c \in Byte PROVE Written(c) \in Seq(Plain)
  BY DEF Enc
<1> DEFINE a == nyb2hex(c \div 16)
           b == nyb2hex(c % 16)
<1>1. a \in Plain /\ b \in Plain
  BY Halves, DigitReadBack DEF Plain
<1>2. PlusSign \in Plain /\ Percent \in Plain
  BY DEF Plain, Byte, PlusSign, Percent, Ampersand, EqualSign
<1> HIDE DEF a, b
<1>3. <<PlusSign>> \in Seq(Plain) /\ <<Percent, a, b>> \in Seq(Plain)
  BY <1>1, <1>2
<1>4. CASE ~(c \in {EqualSign, Ampersand})
  <2>1. c \in Plain
    BY <1>4 DEF Plain
  <2>2. <<c>> \in Seq(Plain)
    BY <2>1
  <2>3. QED
    BY <1>3, <2>2 DEF Written, a, b
<1>5. CASE c \in {EqualSign, Ampersand}
  <2>1. c # Space
    BY <1>5 DEF EqualSign, Ampersand, Space
  <2>2. Written(c) = <<Percent, a, b>>
    BY <1>5, <2>1 DEF Written, a, b
  <2>3. QED
    BY <1>3, <2>2
<1>6. QED
  BY <1>4, <1>5

\* pctencode() writes character by character.
LEMMA EncodeIsMap ==
  ASSUME NEW s \in Str
  PROVE  pctencode(s) = FlatMap(Enc, s)
<1>1. DOMAIN s = 1..Len(s) /\ \A k \in 1..Len(s) : s[k] \in Byte
  BY LenProperties, ElementOfSeq DEF Str
<1>2. [k \in DOMAIN s |-> Written(s[k])] = Mapped(Enc, s)
  BY <1>1 DEF Mapped, Enc
<1>3. QED
  BY <1>2 DEF pctencode, FlatMap, Written

\* What comes out of it is plain.
LEMMA EncodeType == \A s \in Str : pctencode(s) \in Seq(Plain)
BY EncodeIsMap, EncType, FlatMapType DEF Str

\* What pctdecode() takes off the front of a text, and what it makes of that.
DecValue(t) ==
  IF t = <<>> THEN <<>>
  ELSE IF t[1] # Percent THEN <<IF t[1] = PlusSign THEN Space ELSE t[1]>>
  ELSE IF Len(t) > 2 /\ IsHex(t[2]) /\ IsHex(t[3]) THEN <<hex2nyb(t[2]) * 16 + hex2nyb(t[3])>> ELSE <<>>
DecTaken(t) ==
  IF t = <<>> THEN 0
  ELSE IF t[1] # Percent THEN 1
  ELSE IF Len(t) > 1 /\ ~IsHex(t[2]) THEN 2
  ELSE IF Len(t) > 2 THEN 3 ELSE Len(t)
Dec == [t \in Str |-> DecValue(t)]
DecLen == [t \in Str |-> DecTaken(t)]

\* They are as a recursive function needs them.
LEMMA DecParts == Dec \in [Seq(Byte) -> Seq(Byte)] /\ Takes(DecLen, Byte)
<1>1. ASSUME NEW t \in Str PROVE DecValue(t) \in Seq(Byte) /\ DecTaken(t) \in Nat
  <2>1. Len(t) \in Nat /\ \A i \in 1..Len(t) : t[i] \in Byte
    BY LenProperties, ElementOfSeq DEF Str
  <2>2. <<>> \in Seq(Byte)
    BY EmptySeq
  <2>3. ASSUME t # <<>> PROVE <<IF t[1] = PlusSign THEN Space ELSE t[1]>> \in Seq(Byte)
    <3>1. 1 \in 1..Len(t)
      BY <2>1, <2>3, EmptySeq DEF Str
    <3> DEFINE v == IF t[1] = PlusSign THEN Space ELSE t[1]
    <3>2. v \in Byte
      BY <2>1, <3>1 DEF Space, Byte
    <3> HIDE DEF v
    <3>3. <<v>> \in Seq(Byte)
      BY <3>2
    <3>4. QED
      BY <3>3 DEF v
  <2>4. ASSUME IsHex(t[2]), IsHex(t[3]) PROVE <<hex2nyb(t[2]) * 16 + hex2nyb(t[3])>> \in Seq(Byte)
    <3> DEFINE v == hex2nyb(t[2]) * 16 + hex2nyb(t[3])
    <3>1. v \in Byte
      BY <2>4, DigitValue DEF Byte
    <3> HIDE DEF v
    <3>2. <<v>> \in Seq(Byte)
      BY <3>1
    <3>3. QED
      BY <3>2 DEF v
  <2>5. DecValue(t) \in Seq(Byte)
    BY <2>2, <2>3, <2>4 DEF DecValue
  <2>6. DecTaken(t) \in Nat
    BY <2>1 DEF DecTaken
  <2>7. QED
    BY <2>5, <2>6
<1>2. ASSUME NEW t \in Str, t # <<>> PROVE DecTaken(t) \in 1..Len(t)
  <2>1. Len(t) \in Nat \ {0}
    BY <1>2, EmptySeq DEF Str
  <2>2. QED
    BY <1>2, <2>1 DEF DecTaken
<1>3. Dec \in [Seq(Byte) -> Seq(Byte)]
  BY <1>1 DEF Dec, Str
<1>4. DecLen \in [Seq(Byte) -> Nat] /\ \A t \in Seq(Byte) : DecLen[t] = DecTaken(t)
  BY <1>1 DEF DecLen, Str
<1>5. QED
  BY <1>2, <1>3, <1>4 DEF Takes, Str

\* The value of the recursive function of pctdecode() at a place.
DecodeBody(f, s, i) ==
  IF i > Len(s) THEN <<>>
  ELSE IF s[i] # Percent THEN <<IF s[i] = PlusSign THEN Space ELSE s[i]>> \o f[i + 1]
  ELSE IF i < Len(s) /\ ~IsHex(s[i + 1]) THEN f[i + 2]
  ELSE IF i < Len(s) - 1
  THEN (IF IsHex(s[i + 2]) THEN <<hex2nyb(s[i + 1]) * 16 + hex2nyb(s[i + 2])>> ELSE <<>>) \o f[i + 3]
  ELSE <<>>
IsDecode(f, s) == f = [i \in 1..Len(s) + 3 |-> DecodeBody(f, s, i)]

\* It takes off a front and goes on with the rest.
LEMMA DecodeStep ==
  ASSUME NEW s \in Str, NEW i \in 1..Len(s), NEW f, f[Len(s) + 1] = <<>>,
         f[i + DecLen[Suffix(s, i)]] \in Seq(Byte)
  PROVE  DecodeBody(f, s, i) = Dec[Suffix(s, i)] \o f[i + DecLen[Suffix(s, i)]]
<1> DEFINE t == Suffix(s, i)
           n == Len(s)
<1>1. n \in Nat /\ i \in 1..n + 1
  BY LenProperties DEF Str
<1>2. t \in Str /\ Len(t) = n + 1 - i /\ \A k \in 1..(n + 1 - i) : t[k] = s[i + k - 1]
  BY <1>1, SuffixElements DEF Str
<1>3. Dec[t] = DecValue(t) /\ DecLen[t] = DecTaken(t)
  BY <1>2 DEF Dec, DecLen
<1> HIDE DEF t, n
<1>4. t # <<>>
  BY <1>1, <1>2, EmptySeq DEF Str, n
<1>5. t[1] = s[i] /\ (i < n => t[2] = s[i + 1]) /\ (i < n - 1 => t[3] = s[i + 2])
  <2>1. 1 \in 1..(n + 1 - i) /\ i + 1 - 1 = i
    BY <1>1 DEF n
  <2>2. ASSUME i < n PROVE t[2] = s[i + 1]
    <3>1. 2 \in 1..(n + 1 - i) /\ i + 2 - 1 = i + 1
      BY <1>1, <2>2
    <3>2. QED
      BY <1>2, <3>1
  <2>3. ASSUME i < n - 1 PROVE t[3] = s[i + 2]
    <3>1. 3 \in 1..(n + 1 - i) /\ i + 3 - 1 = i + 2
      BY <1>1, <2>3
    <3>2. QED
      BY <1>2, <3>1
  <2>4. QED
    BY <1>2, <2>1, <2>2, <2>3
<1>6. /\ (Len(t) > 1 <=> i < n) /\ (Len(t) > 2 <=> i < n - 1) /\ i <= n /\ ~(i > n)
      /\ i + Len(t) = n + 1
  BY <1>1, <1>2 DEF n
<1>7. f[n + 1] = <<>> /\ f[i + DecTaken(t)] \in Seq(Byte)
  BY <1>3 DEF t, n
<1> DEFINE x == f[i + DecTaken(t)]
<1>8. <<>> \o x = x
  BY <1>7, ConcatEmptySeq
<1>9. DecodeBody(f, s, i) = DecValue(t) \o x
  <2>1. CASE s[i] # Percent
    <3>1. DecTaken(t) = 1 /\ DecValue(t) = <<IF s[i] = PlusSign THEN Space ELSE s[i]>>
      BY <1>4, <1>5, <2>1 DEF DecTaken, DecValue
    <3>2. DecodeBody(f, s, i) = <<IF s[i] = PlusSign THEN Space ELSE s[i]>> \o f[i + 1]
      BY <1>6, <2>1 DEF DecodeBody, n
    <3>3. QED
      BY <3>1, <3>2
  <2>2. CASE s[i] = Percent /\ i < n /\ ~IsHex(s[i + 1])
    <3>1. DecTaken(t) = 2 /\ DecValue(t) = <<>>
      BY <1>4, <1>5, <1>6, <2>2 DEF DecTaken, DecValue
    <3>2. DecodeBody(f, s, i) = f[i + 2]
      BY <1>6, <2>2 DEF DecodeBody, n
    <3>3. QED
      BY <1>8, <3>1, <3>2
  <2>3. CASE s[i] = Percent /\ i < n - 1 /\ IsHex(s[i + 1])
    <3> DEFINE v == IF IsHex(s[i + 2]) THEN <<hex2nyb(s[i + 1]) * 16 + hex2nyb(s[i + 2])>> ELSE <<>>
    <3>1. i < n
      BY <1>1, <2>3
    <3>2. DecTaken(t) = 3 /\ DecValue(t) = v
      BY <1>4, <1>5, <1>6, <2>3, <3>1 DEF DecTaken, DecValue
    <3>3. DecodeBody(f, s, i) = v \o f[i + 3]
      BY <1>6, <2>3, <3>1 DEF DecodeBody, n
    <3> HIDE DEF v
    <3>4. QED
      BY <3>2, <3>3
  <2>4. CASE s[i] = Percent /\ ~(i < n /\ ~IsHex(s[i + 1])) /\ ~(i < n - 1 /\ IsHex(s[i + 1]))
    <3>1. DecTaken(t) = Len(t) /\ DecValue(t) = <<>>
      BY <1>4, <1>5, <1>6, <2>4 DEF DecTaken, DecValue
    <3>2. x = <<>>
      BY <1>6, <1>7, <3>1
    <3>3. DecodeBody(f, s, i) = <<>>
      BY <1>6, <2>4 DEF DecodeBody, n
    <3>4. QED
      BY <1>8, <3>1, <3>2, <3>3
  <2>5. QED
    BY <2>1, <2>2, <2>3, <2>4
<1>10. QED
  BY <1>3, <1>9 DEF t

\* Decoding is such a recursive function.
LEMMA DecodeIsChain ==
  ASSUME NEW s \in Str
  PROVE  pctdecode(s) = Chain(Dec, DecLen, s)
<1> DEFINE n == Len(s)
           f == CHOOSE f : IsDecode(f, s)
<1>1. n \in Nat /\ s \in Seq(Byte)
  BY LenProperties DEF Str
<1>2. PICK h : Extends(h, Dec, DecLen, s, 3, Byte)
  <2>1. Dec \in [Seq(Byte) -> Seq(Byte)] /\ Takes(DecLen, Byte) /\ 3 \in Nat \ {0}
    BY DecParts
  <2>2. QED
    BY <1>1, <2>1, LinksExtend
<1>3. ASSUME NEW i \in 1..n + 3 PROVE h[i] = DecodeBody(h, s, i)
  <2>1. CASE i > n
    <3>1. h[i] = <<>>
      BY <1>2, <2>1 DEF Extends
    <3>2. DecodeBody(h, s, i) = <<>>
      BY <2>1 DEF DecodeBody
    <3>3. QED
      BY <3>1, <3>2
  <2>2. CASE i <= n
    <3> DEFINE j == i + DecLen[Suffix(s, i)]
    <3>1. i \in 1..n
      BY <1>1, <2>2
    <3>2. j \in (i + 1)..(n + 1)
      BY <1>1, <3>1, DecParts, TakesWithin
    <3>3. h[i] = Dec[Suffix(s, i)] \o h[j]
      BY <1>2, <3>1 DEF Extends
    <3>4. h[j] \in Seq(Byte) /\ h[n + 1] = <<>>
      <4>1. j \in 1..n + 3 /\ n + 1 \in 1..n + 3 /\ n + 1 > n
        BY <1>1, <3>1, <3>2
      <4> HIDE DEF j
      <4>2. QED
        BY <1>2, <4>1 DEF Extends
    <3>5. DecodeBody(h, s, i) = Dec[Suffix(s, i)] \o h[j]
      BY <3>1, <3>4, DecodeStep
    <3>6. QED
      BY <3>3, <3>5
  <2>3. QED
    BY <1>1, <2>1, <2>2
<1>4. IsDecode(h, s)
  <2>1. h = [i \in 1..n + 3 |-> h[i]]
    BY <1>2 DEF Extends
  <2>2. QED
    BY <1>3, <2>1 DEF IsDecode
<1>5. IsDecode(f, s)
  BY <1>4
<1> HIDE DEF f
<1>6. ASSUME NEW i \in 1..n + 3 PROVE f[i] = DecodeBody(f, s, i)
  BY <1>5 DEF IsDecode
<1>7. f[n + 1] = <<>>
  <2>1. n + 1 \in 1..n + 3 /\ n + 1 > n
    BY <1>1
  <2>2. f[n + 1] = DecodeBody(f, s, n + 1)
    BY <1>6, <2>1
  <2>3. QED
    BY <2>1, <2>2 DEF DecodeBody
<1>8. ASSUME NEW i \in 1..n, f[i + DecLen[Suffix(s, i)]] \in Seq(Byte)
      PROVE  f[i] = Dec[Suffix(s, i)] \o f[i + DecLen[Suffix(s, i)]]
  <2>1. i \in 1..n + 3
    BY <1>1
  <2>2. f[i] = DecodeBody(f, s, i)
    BY <1>6, <2>1
  <2>3. QED
    BY <1>7, <1>8, <2>2, DecodeStep
<1>9. Runs(f, Dec, DecLen, s, Byte)
  BY <1>7, <1>8 DEF Runs
<1>10. f[1] = Chain(Dec, DecLen, s)
  BY <1>1, <1>9, DecParts, ChainIs
<1>11. pctdecode(s) = f[1]
  BY Zenon DEF pctdecode, f, IsDecode, DecodeBody
<1>12. QED
  BY <1>10, <1>11

\* Decoding a text decodes what begins it, and then the rest.
LEMMA DecodeUnfolds ==
  ASSUME NEW s \in Str
  PROVE  /\ pctdecode(s) \in Str /\ pctdecode(<<>>) = <<>>
         /\ s # <<>> => pctdecode(s) = Dec[s] \o pctdecode(Suffix(s, 1 + DecLen[s]))
<1>1. s \in Seq(Byte) /\ <<>> \in Str
  BY DEF Str
<1>2. Chain(Dec, DecLen, s) \in Seq(Byte) /\ Chain(Dec, DecLen, <<>>) = <<>> /\ Unfolds(Dec, DecLen, s)
  BY <1>1, DecParts, ChainUnfolds
<1>3. pctdecode(s) = Chain(Dec, DecLen, s) /\ pctdecode(<<>>) = Chain(Dec, DecLen, <<>>)
  BY <1>1, DecodeIsChain
<1>4. ASSUME s # <<>> PROVE Suffix(s, 1 + DecLen[s]) \in Str
  <2>1. Len(s) \in Nat /\ DecLen[s] \in 1..Len(s)
    BY <1>1, <1>4, DecParts, LenProperties DEF Takes
  <2>2. 1 + DecLen[s] \in 1..Len(s) + 1
    BY <2>1
  <2>3. QED
    BY <1>1, <2>2, SuffixElements DEF Str
<1>5. ASSUME s # <<>> PROVE pctdecode(s) = Dec[s] \o pctdecode(Suffix(s, 1 + DecLen[s]))
  <2>1. pctdecode(Suffix(s, 1 + DecLen[s])) = Chain(Dec, DecLen, Suffix(s, 1 + DecLen[s]))
    BY <1>4, <1>5, DecodeIsChain
  <2>2. QED
    BY <1>2, <1>3, <1>5, <2>1 DEF Unfolds
<1>6. QED
  BY <1>2, <1>3, <1>5 DEF Str

\* What is written in the place of a character is decoded as the character.
LEMMA DecodeWritten ==
  ASSUME NEW c \in Byte, NEW r \in Str
  PROVE  pctdecode(Enc[c] \o r) = <<c>> \o pctdecode(r)
<1> DEFINE w == Enc[c]
           u == w \o r
<1>1. w \in Str /\ w = Written(c) /\ r \in Seq(Byte) /\ Len(r) \in Nat
  <2>1. w \in Seq(Plain) /\ Plain \subseteq Byte
    BY EncType DEF Plain
  <2>2. w \in Seq(Byte)
    BY <2>1
  <2>3. QED
    BY <2>2, LenProperties DEF Enc, Str
<1> HIDE DEF w
<1>2. /\ u \in Str /\ Len(u) = Len(w) + Len(r) /\ Len(w) \in Nat
      /\ \A i \in 1..Len(w) : u[i] = w[i]
  BY <1>1, ConcatProperties, LenProperties DEF Str
<1>3. Suffix(u, Len(w) + 1) = r
  BY <1>1, SuffixOfJoin DEF Str
<1> HIDE DEF u
<1>4. Dec[u] = DecValue(u) /\ DecLen[u] = DecTaken(u)
  BY <1>2 DEF Dec, DecLen
<1>5. u # <<>> /\ DecValue(u) = <<c>> /\ DecTaken(u) = Len(w)
  <2>1. CASE c = Space
    <3>1. w = <<PlusSign>>
      BY <1>1, <2>1 DEF Written
    <3>2. Len(w) = 1 /\ w[1] = PlusSign
      BY <3>1
    <3>3. u # <<>> /\ u[1] = PlusSign
      BY <1>1, <1>2, <3>2, EmptySeq DEF Str
    <3>4. QED
      BY <2>1, <3>2, <3>3 DEF DecValue, DecTaken, PlusSign, Percent
  <2>2. CASE c # Space /\ (c < Space \/ c > 127 \/ c \in {Percent, EqualSign, Ampersand, PlusSign})
    <3> DEFINE a == nyb2hex(c \div 16)
               b == nyb2hex(c % 16)
    <3>1. w = <<Percent, a, b>>
      BY <1>1, <2>2 DEF Written
    <3>2. IsHex(a) /\ IsHex(b) /\ hex2nyb(a) = c \div 16 /\ hex2nyb(b) = c % 16
      BY Halves, DigitReadBack
    <3> HIDE DEF a, b
    <3>3. Len(w) = 3 /\ w[1] = Percent /\ w[2] = a /\ w[3] = b
      BY <3>1
    <3>4. u # <<>> /\ Len(u) > 2 /\ Len(u) > 1 /\ u[1] = Percent /\ u[2] = a /\ u[3] = b
      BY <1>1, <1>2, <3>3, EmptySeq DEF Str
    <3>5. DecTaken(u) = 3
      BY <3>2, <3>4 DEF DecTaken
    <3>6. hex2nyb(a) * 16 + hex2nyb(b) = c
      BY <3>2, Halves
    <3>7. DecValue(u) = <<hex2nyb(a) * 16 + hex2nyb(b)>>
      BY <3>2, <3>4 DEF DecValue
    <3>8. QED
      BY <3>3, <3>4, <3>5, <3>6, <3>7
  <2>3. CASE c # Space /\ ~(c < Space \/ c > 127 \/ c \in {Percent, EqualSign, Ampersand, PlusSign})
    <3>1. w = <<c>> /\ c # Percent /\ c # PlusSign
      BY <1>1, <2>3 DEF Written
    <3>2. Len(w) = 1 /\ w[1] = c
      BY <3>1
    <3>3. u # <<>> /\ u[1] = c
      BY <1>1, <1>2, <3>2, EmptySeq DEF Str
    <3>4. QED
      BY <3>1, <3>2, <3>3 DEF DecValue, DecTaken
  <2>4. QED
    BY <2>1, <2>2, <2>3
<1>6. 1 + Len(w) = Len(w) + 1
  BY <1>2
<1>7. pctdecode(u) = Dec[u] \o pctdecode(Suffix(u, 1 + DecLen[u]))
  BY <1>2, <1>5, DecodeUnfolds
<1>8. pctdecode(u) = <<c>> \o pctdecode(r)
  BY <1>3, <1>4, <1>5, <1>6, <1>7
<1>9. QED
  BY <1>8 DEF u, w

\* A text that was encoded is decoded to what it was; nothing is encoded as
\* nothing, and only that.
THEOREM DecodeEncode ==
  \A s \in Str : pctdecode(pctencode(s)) = s /\ (pctencode(s) = <<>> <=> s = <<>>)
<1> DEFINE P == {s \in Seq(Byte) : pctdecode(FlatMap(Enc, s)) = s}
<1>0. Plain \subseteq Byte /\ Enc \in [Byte -> Seq(Byte)]
  <2>1. Plain \subseteq Byte
    BY DEF Plain
  <2>2. ASSUME NEW c \in Byte PROVE Enc[c] \in Seq(Byte)
    BY <2>1, EncType
  <2>3. QED
    BY <2>1, <2>2 DEF Enc
<1>1. <<>> \in P
  BY FlatMapEmpty, DecodeUnfolds, EmptySeq DEF Str
<1>2. ASSUME NEW s \in P, NEW c \in Byte PROVE <<c>> \o s \in P
  <2> DEFINE u == <<c>>
  <2>1. u \in Seq(Byte) /\ s \in Seq(Byte) /\ u \o s \in Seq(Byte)
    BY One, ConcatProperties
  <2>2. FlatMap(Enc, u) = Enc[c]
    BY <1>0, FlatMapOne
  <2> HIDE DEF u
  <2>3. FlatJoins(Enc, u, s)
    BY <1>0, <2>1, FlatMapJoin
  <2>4. FlatMap(Enc, u \o s) = Enc[c] \o FlatMap(Enc, s)
    BY <2>2, <2>3 DEF FlatJoins
  <2>5. FlatMap(Enc, s) \in Str
    BY <1>0, <2>1, FlatMapType DEF Str
  <2>6. pctdecode(Enc[c] \o FlatMap(Enc, s)) = u \o pctdecode(FlatMap(Enc, s))
    BY <2>5, DecodeWritten DEF u
  <2>7. QED
    BY <2>1, <2>4, <2>6 DEF u
<1>3. P = Seq(Byte)
  <2>1. P \subseteq Seq(Byte)
    OBVIOUS
  <2> HIDE DEF P
  <2>2. QED
    BY <1>1, <1>2, <2>1, ConsInduction
<1>4. ASSUME NEW s \in Str PROVE pctdecode(pctencode(s)) = s
  BY <1>3, EncodeIsMap DEF Str
<1>5. pctencode(<<>>) = <<>> /\ pctdecode(<<>>) = <<>>
  BY FlatMapEmpty, EncodeIsMap, DecodeUnfolds, EmptySeq DEF Str
<1>6. QED
  BY <1>4, <1>5

-----------------------------------------------------------------------------
(* The place of a character. *)

\* i is it.
FoundAt(s, c, i) ==
  i \in 1..Len(s) + 1 /\ (i <= Len(s) => s[i] = c) /\ \A j \in 1..(i - 1) : s[j] # c
\* FindChar() finds it, and it is the only one.
LEMMA FindCharIs ==
  ASSUME NEW S, NEW s \in Seq(S), NEW c
  PROVE  FoundAt(s, c, FindChar(s, c)) /\ \A i : FoundAt(s, c, i) => i = FindChar(s, c)
<1>1. Len(s) \in Nat
  BY LenProperties
<1> DEFINE n == Len(s)
           K == {i \in 1..n + 1 : i <= n => s[i] = c}
<1>2. K \subseteq Nat /\ n + 1 \in K
  BY <1>1
<1>3. PICK m \in K : \A k \in K : m <= k
  <2> HIDE DEF K
  <2>1. QED
    BY <1>2, Smallest
<1>4. m \in 1..n + 1 /\ (m <= n => s[m] = c)
  BY <1>3
<1>5. ASSUME NEW j \in 1..(m - 1) PROVE s[j] # c
  <2>1. j \in 1..n + 1 /\ ~(m <= j)
    BY <1>1, <1>4
  <2>2. j \notin K
    BY <1>3, <2>1
  <2>3. QED
    BY <2>1, <2>2
<1>6. FoundAt(s, c, m)
  BY <1>4, <1>5 DEF FoundAt
<1>7. FindChar(s, c) = CHOOSE i : FoundAt(s, c, i)
  BY DEF FindChar, FoundAt
<1>8. FoundAt(s, c, FindChar(s, c))
  BY <1>6, <1>7
<1>9. ASSUME NEW i, FoundAt(s, c, i), NEW k, FoundAt(s, c, k) PROVE i = k
  <2>1. i \in 1..n + 1 /\ k \in 1..n + 1
    BY <1>9 DEF FoundAt
  <2>2. ~(i < k)
    <3> SUFFICES ASSUME i < k PROVE FALSE
      OBVIOUS
    <3>1. i <= n /\ i \in 1..(k - 1)
      BY <1>1, <2>1
    <3>2. QED
      BY <1>9, <3>1 DEF FoundAt
  <2>3. ~(k < i)
    <3> SUFFICES ASSUME k < i PROVE FALSE
      OBVIOUS
    <3>1. k <= n /\ k \in 1..(i - 1)
      BY <1>1, <2>1
    <3>2. QED
      BY <1>9, <3>1 DEF FoundAt
  <2>4. QED
    BY <2>1, <2>2, <2>3
<1>10. QED
  BY <1>8, <1>9

\* Without the character it is past the end; else it is after what is without.
LEMMA FindCharAfter ==
  ASSUME NEW S, NEW c, NEW a \in Seq(S \ {c}), c \in S
  PROVE  /\ FindChar(a, c) = Len(a) + 1
         /\ \A t \in Seq(S) : FindChar(a \o (<<c>> \o t), c) = Len(a) + 1
<1>1. Len(a) \in Nat /\ \A i \in 1..Len(a) : a[i] \in S \ {c}
  BY LenProperties, ElementOfSeq
<1>2. a \in Seq(S)
  <2>1. S \ {c} \subseteq S
    OBVIOUS
  <2>2. QED
    BY <2>1
<1>3. FoundAt(a, c, Len(a) + 1)
  <2>1. Len(a) + 1 \in 1..Len(a) + 1 /\ ~(Len(a) + 1 <= Len(a)) /\ Len(a) + 1 - 1 = Len(a)
    BY <1>1
  <2>2. QED
    BY <1>1, <2>1 DEF FoundAt
<1>4. ASSUME NEW t \in Seq(S) PROVE FindChar(a \o (<<c>> \o t), c) = Len(a) + 1
  <2> DEFINE r == <<c>> \o t
             u == a \o r
             m == Len(a) + 1
  <2>1. r \in Seq(S) /\ Len(r) = Len(t) + 1 /\ r[1] = c /\ Len(t) \in Nat
    BY ConsElements, LenProperties
  <2> HIDE DEF r
  <2>2. /\ u \in Seq(S) /\ Len(u) = Len(a) + Len(r)
        /\ \A i \in 1..Len(a) + Len(r) : u[i] = IF i <= Len(a) THEN a[i] ELSE r[i - Len(a)]
    BY <1>2, <2>1, ConcatProperties
  <2> HIDE DEF u
  <2>3. m \in 1..Len(u) + 1 /\ m \in 1..Len(a) + Len(r) /\ ~(m <= Len(a)) /\ m - Len(a) = 1 /\ m - 1 = Len(a)
    BY <1>1, <2>1, <2>2
  <2>4. u[m] = c
    BY <2>1, <2>2, <2>3
  <2>5. ASSUME NEW j \in 1..(m - 1) PROVE u[j] # c
    <3>1. j \in 1..Len(a) + Len(r) /\ j <= Len(a) /\ j \in 1..Len(a)
      BY <1>1, <2>1
    <3>2. QED
      BY <1>1, <2>2, <3>1
  <2>6. FoundAt(u, c, m)
    BY <2>3, <2>4, <2>5 DEF FoundAt
  <2>7. QED
    BY <2>2, <2>6, FindCharIs DEF u, r
<1>5. QED
  BY <1>2, <1>3, <1>4, FindCharIs

-----------------------------------------------------------------------------
(* parse_query and make_query. *)

\* The items there may be.
Item == {keyval(k, v) : k \in Str, v \in Str} \cup {keylessval(v) : v \in Str}
\* The texts of one item, which are without the character between two.
Word == Seq(Byte \ {Ampersand})

\* A text is read as an item.
LEMMA ParsedType == \A s \in Str : parsequerykv(s) \in Item
<1> SUFFICES ASSUME NEW s \in Str PROVE parsequerykv(s) \in Item
  OBVIOUS
<1> DEFINE eq == FindChar(s, EqualSign)
           n == Len(s)
<1>1. n \in Nat /\ eq \in 1..n + 1 /\ \A i \in 1..n : s[i] \in Byte
  BY FindCharIs, LenProperties, ElementOfSeq DEF FoundAt, Str
<1> HIDE DEF eq
<1>2. CASE eq > n
  <2>1. pctdecode(s) \in Str
    BY DecodeUnfolds
  <2>2. QED
    BY <1>2, <2>1 DEF parsequerykv, Item, eq
<1>3. CASE ~(eq > n)
  <2> DEFINE a == SubSeq(s, 1, eq - 1)
             b == From(s, eq + 1)
  <2>1. a \in Str
    <3>1. 1 \in Int /\ eq - 1 \in Int /\ \A i \in 1..(eq - 1) : s[i] \in Byte
      BY <1>1
    <3>2. QED
      BY <3>1, SubSeqProperties DEF Str
  <2>2. b \in Str
    <3>1. eq + 1 \in 1..n + 1
      BY <1>1, <1>3
    <3>2. QED
      BY <3>1, SuffixElements DEF Str, From, Suffix
  <2>3. parsequerykv(s) = keyval(pctdecode(a), pctdecode(b))
    BY <1>3 DEF parsequerykv, eq
  <2> HIDE DEF a, b
  <2>4. pctdecode(a) \in Str /\ pctdecode(b) \in Str
    BY <2>1, <2>2, DecodeUnfolds
  <2>5. QED
    BY <2>3, <2>4 DEF Item
<1>4. QED
  BY <1>2, <1>3

\* What is taken off the front of a text up to c, and what that part is.
CutG(c) == [t \in Str |-> IF t = <<>> THEN <<>> ELSE <<SubSeq(t, 1, FindChar(t, c) - 1)>>]
CutM(c) == [t \in Str |-> IF FindChar(t, c) > Len(t) THEN Len(t) ELSE FindChar(t, c)]

\* They are as a recursive function needs them.
LEMMA CutParts ==
  ASSUME NEW c
  PROVE  CutG(c) \in [Seq(Byte) -> Seq(Str)] /\ Takes(CutM(c), Byte)
<1> DEFINE cut(t) == FindChar(t, c)
<1>1. ASSUME NEW t \in Str PROVE Len(t) \in Nat /\ cut(t) \in 1..Len(t) + 1 /\ SubSeq(t, 1, cut(t) - 1) \in Str
  <2>1. Len(t) \in Nat /\ cut(t) \in 1..Len(t) + 1 /\ \A i \in 1..Len(t) : t[i] \in Byte
    BY FindCharIs, LenProperties, ElementOfSeq DEF FoundAt, Str
  <2>2. 1 \in Int /\ cut(t) - 1 \in Int /\ \A i \in 1..(cut(t) - 1) : t[i] \in Byte
    BY <2>1
  <2>3. QED
    BY <2>1, <2>2, SubSeqProperties DEF Str
<1>2. ASSUME NEW t \in Str
      PROVE  (IF t = <<>> THEN <<>> ELSE <<SubSeq(t, 1, cut(t) - 1)>>) \in Seq(Str)
  <2> DEFINE e == SubSeq(t, 1, cut(t) - 1)
  <2>1. e \in Str
    BY <1>1
  <2> HIDE DEF e
  <2>2. <<e>> \in Seq(Str) /\ <<>> \in Seq(Str)
    BY <2>1, One, EmptySeq
  <2>3. QED
    BY <2>2 DEF e
<1>3. ASSUME NEW t \in Str PROVE (IF cut(t) > Len(t) THEN Len(t) ELSE cut(t)) \in Nat
  BY <1>1
<1>4. ASSUME NEW t \in Str, t # <<>> PROVE (IF cut(t) > Len(t) THEN Len(t) ELSE cut(t)) \in 1..Len(t)
  <2>1. Len(t) \in Nat \ {0}
    BY <1>4, EmptySeq DEF Str
  <2>2. QED
    BY <1>1, <2>1
<1>5. CutG(c) \in [Seq(Byte) -> Seq(Str)]
  BY <1>2 DEF CutG, Str
<1>6. CutM(c) \in [Seq(Byte) -> Nat] /\ \A t \in Seq(Byte) : t # <<>> => CutM(c)[t] \in 1..Len(t)
  BY <1>3, <1>4 DEF CutM, Str
<1>7. QED
  BY <1>5, <1>6 DEF Takes

\* The value of the recursive function of Split() at a place.
SplitBody(f, s, c, i) ==
  IF i > Len(s) THEN <<>>
  ELSE LET n == FindChar(From(s, i), c)
       IN <<SubSeq(s, i, i + n - 2)>> \o f[i + n]
IsSplit(f, s, c) == f = [i \in 1..Len(s) + 2 |-> SplitBody(f, s, c, i)]

\* It takes off a front and goes on with the rest.
LEMMA SplitStep ==
  ASSUME NEW c, NEW s \in Str, NEW i \in 1..Len(s), NEW f, f[Len(s) + 1] = <<>>, f[Len(s) + 2] = <<>>
  PROVE  SplitBody(f, s, c, i) = CutG(c)[Suffix(s, i)] \o f[i + CutM(c)[Suffix(s, i)]]
<1> DEFINE t == Suffix(s, i)
           n == Len(s)
           m == FindChar(t, c)
<1>1. n \in Nat /\ i \in 1..n + 1
  BY LenProperties DEF Str
<1>2. t \in Str /\ Len(t) = n + 1 - i
  BY <1>1, SuffixElements DEF Str
<1>3. m \in 1..Len(t) + 1
  BY <1>2, FindCharIs DEF Str, FoundAt
<1>4. FindChar(From(s, i), c) = m
  BY DEF From, Suffix
<1>5. SubSeq(t, 1, m - 1) = SubSeq(s, i, i + m - 2)
  <2>1. m - 1 \in 0..n + 1 - i /\ i + (m - 1) - 1 = i + m - 2
    BY <1>1, <1>2, <1>3
  <2> HIDE DEF t, m, n
  <2> DEFINE k == m - 1
  <2>2. k \in 0..n + 1 - i
    BY <2>1
  <2> HIDE DEF k
  <2>3. SubSeq(t, 1, k) = SubSeq(s, i, i + k - 1)
    BY <1>1, <2>2, PartOfSuffix DEF Str, t, n
  <2>4. QED
    BY <2>1, <2>3 DEF k
<1>6. t # <<>>
  BY <1>1, <1>2, EmptySeq DEF Str
<1>7. CutG(c)[t] = <<SubSeq(t, 1, m - 1)>> /\ CutM(c)[t] = IF m > Len(t) THEN Len(t) ELSE m
  BY <1>2, <1>6 DEF CutG, CutM
<1>8. SplitBody(f, s, c, i) = <<SubSeq(s, i, i + m - 2)>> \o f[i + m]
  BY <1>1, <1>4 DEF SplitBody
<1> HIDE DEF t, m
<1>9. f[i + m] = f[i + CutM(c)[t]]
  <2>1. CASE m > Len(t)
    <3>1. i + m = n + 2 /\ i + Len(t) = n + 1
      BY <1>1, <1>2, <1>3, <2>1
    <3>2. QED
      BY <1>7, <2>1, <3>1
  <2>2. CASE ~(m > Len(t))
    BY <1>7, <2>2
  <2>3. QED
    BY <2>1, <2>2
<1>10. QED
  BY <1>5, <1>7, <1>8, <1>9 DEF t

\* Splitting is such a recursive function.
LEMMA SplitIsChain ==
  ASSUME NEW c, NEW s \in Str
  PROVE  Split(s, c) = Chain(CutG(c), CutM(c), s)
<1> DEFINE n == Len(s)
           f == CHOOSE f : IsSplit(f, s, c)
           G == CutG(c)
           M == CutM(c)
<1>1. n \in Nat /\ s \in Seq(Byte)
  BY LenProperties DEF Str
<1>p. G \in [Seq(Byte) -> Seq(Str)] /\ Takes(M, Byte)
  BY CutParts
<1>2. PICK h : Extends(h, G, M, s, 2, Str)
  <2>1. 2 \in Nat \ {0}
    OBVIOUS
  <2> HIDE DEF G, M
  <2>2. QED
    BY <1>1, <1>p, <2>1, LinksExtend
<1>3. n + 1 \in 1..n + 2 /\ n + 1 > n /\ n + 2 \in 1..n + 2 /\ n + 2 > n
  BY <1>1
<1>4. ASSUME NEW i \in 1..n + 2 PROVE h[i] = SplitBody(h, s, c, i)
  <2>1. CASE i > n
    <3>1. h[i] = <<>>
      BY <1>2, <2>1 DEF Extends
    <3>2. SplitBody(h, s, c, i) = <<>>
      BY <2>1 DEF SplitBody
    <3>3. QED
      BY <3>1, <3>2
  <2>2. CASE i <= n
    <3>1. i \in 1..n
      BY <1>1, <2>2
    <3>2. h[n + 1] = <<>> /\ h[n + 2] = <<>>
      BY <1>2, <1>3 DEF Extends
    <3>3. h[i] = G[Suffix(s, i)] \o h[i + M[Suffix(s, i)]]
      BY <1>2, <3>1 DEF Extends
    <3>4. QED
      BY <3>1, <3>2, <3>3, SplitStep
  <2>3. QED
    BY <1>1, <2>1, <2>2
<1>5. IsSplit(h, s, c)
  <2>1. h = [i \in 1..n + 2 |-> h[i]]
    BY <1>2 DEF Extends
  <2>2. QED
    BY <1>4, <2>1 DEF IsSplit
<1>6. IsSplit(f, s, c)
  BY <1>5
<1> HIDE DEF f
<1>7. ASSUME NEW i \in 1..n + 2 PROVE f[i] = SplitBody(f, s, c, i)
  BY <1>6 DEF IsSplit
<1>8. f[n + 1] = <<>> /\ f[n + 2] = <<>>
  BY <1>3, <1>7 DEF SplitBody
<1>9. ASSUME NEW i \in 1..n PROVE f[i] = G[Suffix(s, i)] \o f[i + M[Suffix(s, i)]]
  <2>1. i \in 1..n + 2
    BY <1>1
  <2>2. QED
    BY <1>7, <1>8, <2>1, SplitStep
<1>10. Runs(f, G, M, s, Str)
  BY <1>8, <1>9 DEF Runs
<1>11. f[1] = Chain(G, M, s)
  <2> HIDE DEF G, M
  <2>1. QED
    BY <1>1, <1>p, <1>10, ChainIs
<1>12. Split(s, c) = f[1]
  BY Zenon DEF Split, f, IsSplit, SplitBody
<1>13. QED
  BY <1>11, <1>12

\* The parts are texts.
LEMMA SplitType ==
  ASSUME NEW c
  PROVE  Split(<<>>, c) = <<>> /\ \A s \in Str : Split(s, c) \in Seq(Str)
<1> DEFINE G == CutG(c)
           M == CutM(c)
<1>1. <<>> \in Str /\ Str = Seq(Byte)
  BY EmptySeq DEF Str
<1>2. G \in [Seq(Byte) -> Seq(Str)] /\ Takes(M, Byte)
  BY CutParts
<1>3. \A s \in Str : Split(s, c) = Chain(G, M, s)
  BY SplitIsChain
<1> HIDE DEF G, M
<1>4. Chain(G, M, <<>>) = <<>>
  BY <1>2, ChainEmpty
<1>5. \A s \in Str : Chain(G, M, s) \in Seq(Str)
  BY <1>1, <1>2, ChainType
<1>6. QED
  BY <1>1, <1>3, <1>4, <1>5

\* What is without c is one part.
LEMMA SplitWord ==
  ASSUME NEW c \in Byte, NEW a \in Seq(Byte \ {c}), a # <<>>
  PROVE  Split(a, c) = <<a>>
<1> DEFINE G == CutG(c)
           M == CutM(c)
<1>1. a \in Seq(Byte) /\ Len(a) \in Nat /\ Len(a) # 0
  <2>1. Byte \ {c} \subseteq Byte
    OBVIOUS
  <2>2. QED
    BY <2>1, EmptySeq
<1>2. FindChar(a, c) = Len(a) + 1
  BY <1>1, FindCharAfter
<1>3. SubSeq(a, 1, Len(a)) = a /\ Len(a) + 1 - 1 = Len(a) /\ Len(a) + 1 > Len(a) /\ 1 + Len(a) = Len(a) + 1
  BY <1>1, SubSeqFull
<1>4. G[a] = <<a>> /\ M[a] = Len(a)
  <2>1. G[a] = <<SubSeq(a, 1, FindChar(a, c) - 1)>> /\ M[a] = IF FindChar(a, c) > Len(a) THEN Len(a) ELSE FindChar(a, c)
    BY <1>1 DEF CutG, CutM, Str
  <2>2. SubSeq(a, 1, FindChar(a, c) - 1) = a /\ FindChar(a, c) > Len(a)
    BY <1>2, <1>3
  <2> QED
    BY <2>1, <2>2
<1>p. G \in [Seq(Byte) -> Seq(Str)] /\ Takes(M, Byte) /\ Split(a, c) = Chain(G, M, a)
  BY <1>1, CutParts, SplitIsChain DEF Str
<1> HIDE DEF G, M
<1>5. Unfolds(G, M, a) /\ Chain(G, M, <<>>) = <<>>
  BY <1>1, <1>p, ChainUnfolds
<1>6. Suffix(a, 1 + M[a]) = <<>>
  BY <1>1, <1>3, <1>4, SuffixEnds
<1>7. Chain(G, M, a) = G[a] \o <<>>
  BY <1>5, <1>6 DEF Unfolds
<1>8. G[a] \o <<>> = G[a]
  BY <1>1, <1>p, ConcatEmptySeq
<1>9. QED
  BY <1>4, <1>7, <1>8, <1>p

\* What is without c is the first part of what it begins.
LEMMA SplitJoin ==
  ASSUME NEW c \in Byte, NEW a \in Seq(Byte \ {c}), NEW t \in Str
  PROVE  /\ a \o (<<c>> \o t) \in Str
         /\ Split(a \o (<<c>> \o t), c) = <<a>> \o Split(t, c)
<1> DEFINE r == <<c>> \o t
           u == a \o r
           m == Len(a) + 1
<1>1. a \in Seq(Byte) /\ t \in Seq(Byte) /\ Len(a) \in Nat /\ Len(t) \in Nat
  <2>1. Byte \ {c} \subseteq Byte
    OBVIOUS
  <2>2. QED
    BY <2>1, LenProperties DEF Str
<1>2. FindChar(u, c) = m
  BY <1>1, FindCharAfter
<1>3. r \in Seq(Byte) /\ Len(r) = Len(t) + 1 /\ Suffix(r, 2) = t /\ a \o <<c>> \in Seq(Byte) /\ Len(a \o <<c>>) = m
  <2>1. <<c>> \in Seq(Byte) /\ Len(<<c>>) = 1
    BY <1>1, One
  <2> DEFINE w == <<c>>
  <2> HIDE DEF w
  <2>2. w \in Seq(Byte) /\ Len(w) = 1
    BY <2>1 DEF w
  <2>3. a \o w \in Seq(Byte) /\ Len(a \o w) = Len(a) + 1
    <3>1. a \o w \in Seq(Byte) /\ Len(a \o w) = Len(a) + Len(w)
      BY <1>1, <2>2, ConcatProperties
    <3>2. QED
      BY <2>2, <3>1
  <2>4. QED
    BY <1>1, <2>3, ConsElements DEF w
<1>4. u = (a \o <<c>>) \o t
  <2> DEFINE w == <<c>>
  <2>1. w \in Seq(Byte)
    BY <1>1, One
  <2> HIDE DEF w
  <2>2. (a \o w) \o t = a \o (w \o t)
    BY <1>1, <2>1, ConcatAssociative
  <2>3. QED
    BY <2>2 DEF w
<1>5. Suffix(u, m + 1) = t
  <2> DEFINE w == a \o <<c>>
  <2> HIDE DEF w, u, m
  <2>1. w \in Seq(Byte) /\ Len(w) = m /\ u = w \o t
    BY <1>3, <1>4 DEF w
  <2>2. Suffix(w \o t, Len(w) + 1) = t
    BY <1>1, <2>1, SuffixOfJoin
  <2>3. QED
    BY <2>1, <2>2
<1> HIDE DEF r
<1>6. u \in Seq(Byte) /\ Len(u) = Len(a) + Len(t) + 1 /\ SubSeq(u, 1, Len(a)) = a
  <2>1. u \in Seq(Byte) /\ Len(u) = Len(a) + Len(r) /\ SubSeq(u, 1, Len(a)) = a
    <3>1. u \in Seq(Byte) /\ Len(u) = Len(a) + Len(r)
      BY <1>1, <1>3, ConcatProperties
    <3>2. SubSeq(u, 1, Len(a)) = a
      BY <1>1, <1>3, PrefixOfJoin
    <3>3. QED
      BY <3>1, <3>2
  <2>2. Len(a) + (Len(t) + 1) = Len(a) + Len(t) + 1
    BY <1>1
  <2>3. QED
    BY <1>3, <2>1, <2>2
<1> HIDE DEF u
<1>7. u # <<>> /\ ~(m > Len(u)) /\ m - 1 = Len(a) /\ 1 + m = m + 1
  BY <1>1, <1>6, EmptySeq
<1> DEFINE G == CutG(c)
           M == CutM(c)
<1>8. G[u] = <<a>> /\ M[u] = m
  <2> HIDE DEF m
  <2>1. QED
    BY <1>2, <1>6, <1>7 DEF CutG, CutM, Str
<1>p. G \in [Seq(Byte) -> Seq(Str)] /\ Takes(M, Byte) /\ Split(u, c) = Chain(G, M, u) /\ Split(t, c) = Chain(G, M, t)
  BY <1>1, <1>6, CutParts, SplitIsChain DEF Str
<1> HIDE DEF G, M
<1>9. Unfolds(G, M, u)
  BY <1>6, <1>p, ChainUnfolds
<1>10. Chain(G, M, u) = <<a>> \o Chain(G, M, t)
  <2> HIDE DEF m
  <2>1. QED
    BY <1>5, <1>7, <1>8, <1>9 DEF Unfolds
<1>11. QED
  BY <1>6, <1>10, <1>p DEF u, r, Str

\* The items of the parts.
Parsed == [s \in Str |-> parsequerykv(s)]

\* A text is read as the items of its parts.
LEMMA ParseIsMap ==
  /\ Parsed \in [Str -> Item]
  /\ \A s \in Str : parse_query(s) = Mapped(Parsed, Split(s, Ampersand))
<1>1. Parsed \in [Str -> Item]
  BY ParsedType DEF Parsed
<1>2. ASSUME NEW s \in Str PROVE parse_query(s) = Mapped(Parsed, Split(s, Ampersand))
  <2> DEFINE p == Split(s, Ampersand)
  <2>1. p \in Seq(Str)
    BY SplitType
  <2>2. parse_query(s) = [k \in DOMAIN p |-> parsequerykv(p[k])]
    BY DEF parse_query
  <2> HIDE DEF p
  <2>3. DOMAIN p = 1..Len(p) /\ \A k \in 1..Len(p) : p[k] \in Str
    BY <2>1, LenProperties, ElementOfSeq
  <2>4. [k \in DOMAIN p |-> parsequerykv(p[k])] = Mapped(Parsed, p)
    BY <2>3 DEF Mapped, Parsed
  <2>5. QED
    BY <2>2, <2>4 DEF p
<1>3. QED
  BY <1>1, <1>2

\* A text is read as items.
LEMMA ParseType == parse_query(<<>>) = <<>> /\ \A s \in Str : parse_query(s) \in Seq(Item)
<1>1. <<>> \in Str
  BY EmptySeq DEF Str
<1>2. Mapped(Parsed, <<>>) = <<>>
  BY DEF Mapped
<1>3. ASSUME NEW s \in Str PROVE parse_query(s) \in Seq(Item)
  <2>1. MapsTo(Mapped(Parsed, Split(s, Ampersand)), Parsed, Split(s, Ampersand), Item)
    BY ParseIsMap, SplitType, MappedElements
  <2>2. QED
    BY <2>1, ParseIsMap DEF MapsTo
<1>4. QED
  BY <1>1, <1>2, <1>3, ParseIsMap, SplitType

\* Of one part.
LEMMA ParsedOne == \A a \in Str : Mapped(Parsed, <<a>>) = <<parsequerykv(a)>>
BY DEF Mapped, Parsed

\* A word is one item.
LEMMA ParseWord ==
  ASSUME NEW a \in Word, a # <<>>
  PROVE  parse_query(a) = <<parsequerykv(a)>>
<1>1. a \in Str /\ Ampersand \in Byte
  <2>1. Byte \ {Ampersand} \subseteq Byte /\ Ampersand \in Byte
    BY DEF Byte, Ampersand
  <2>2. QED
    BY <2>1, SeqMonotonic DEF Word, Str
<1>2. Split(a, Ampersand) = <<a>>
  BY <1>1, SplitWord DEF Word
<1>3. QED
  BY <1>1, <1>2, ParseIsMap, ParsedOne

\* A word before others is the first item.
LEMMA ParseSplit ==
  ASSUME NEW a \in Word, NEW t \in Str
  PROVE  /\ a \o (<<Ampersand>> \o t) \in Str
         /\ parse_query(a \o (<<Ampersand>> \o t)) = <<parsequerykv(a)>> \o parse_query(t)
<1> DEFINE u == a \o (<<Ampersand>> \o t)
           p == Split(t, Ampersand)
           w == <<a>>
<1>1. a \in Str /\ Ampersand \in Byte
  <2>1. Byte \ {Ampersand} \subseteq Byte /\ Ampersand \in Byte
    BY DEF Byte, Ampersand
  <2>2. QED
    BY <2>1, SeqMonotonic DEF Word, Str
<1>2. u \in Str /\ Split(u, Ampersand) = w \o p
  BY <1>1, SplitJoin DEF Word
<1>3. p \in Seq(Str) /\ w \in Seq(Str) /\ Mapped(Parsed, w) = <<parsequerykv(a)>>
  BY <1>1, SplitType, One, ParsedOne
<1>4. parse_query(u) = Mapped(Parsed, w \o p) /\ parse_query(t) = Mapped(Parsed, p)
  BY <1>2, ParseIsMap
<1> HIDE DEF p, w, u
<1>5. MapJoins(Parsed, w, p)
  BY <1>3, ParseIsMap, MappedJoin
<1>6. QED
  BY <1>2, <1>3, <1>4, <1>5 DEF MapJoins, u

\* What there is to see of an item.
Vis == [kv \in Item |-> IF ~(kv.keyless /\ kv.val = <<>>) THEN <<kv>> ELSE <<>>]
\* What is left of an item when one with that key is set.
Other(key) == [x \in Item |-> IF ~SameKey(x.key, key) THEN <<x>> ELSE <<>>]

\* They keep an item or nothing of it.
LEMMA VisKeeps == Keeps(Vis, Item) /\ \A key : Keeps(Other(key), Item)
<1>1. \A e \in Item : <<e>> \in Seq(Item) /\ <<>> \in Seq(Item)
  BY One, EmptySeq
<1>2. Keeps(Vis, Item)
  BY <1>1 DEF Keeps, Vis
<1>3. ASSUME NEW key PROVE Keeps(Other(key), Item)
  BY <1>1 DEF Keeps, Other
<1>4. QED
  BY <1>2, <1>3

\* They are the filters of the model.
LEMMA FiltersAre ==
  ASSUME NEW l \in Seq(Item)
  PROVE  /\ Visible(l) = FlatMap(Vis, l)
         /\ \A kv : SetItem(l, kv) = Append(FlatMap(Other(kv.key), l), kv)
<1>1. DOMAIN l = 1..Len(l) /\ \A k \in 1..Len(l) : l[k] \in Item
  BY LenProperties, ElementOfSeq
<1>2. [k \in DOMAIN l |-> IF ~(l[k].keyless /\ l[k].val = <<>>) THEN <<l[k]>> ELSE <<>>] = Mapped(Vis, l)
  BY <1>1 DEF Mapped, Vis
<1>3. Visible(l) = FlatMap(Vis, l)
  BY <1>2, Zenon DEF Visible, Filter, FlatMap
<1>4. ASSUME NEW kv PROVE SetItem(l, kv) = Append(FlatMap(Other(kv.key), l), kv)
  <2>1. [k \in DOMAIN l |-> IF ~SameKey(l[k].key, kv.key) THEN <<l[k]>> ELSE <<>>] = Mapped(Other(kv.key), l)
    BY <1>1 DEF Mapped, Other
  <2>2. QED
    BY <2>1, Zenon DEF SetItem, Filter, FlatMap
<1>5. QED
  BY <1>3, <1>4

\* Of several items.
LEMMA VisibleParts ==
  /\ Visible(<<>>) = <<>>
  /\ \A l \in Seq(Item) : Visible(l) \in Seq(Item)
  /\ \A kv \in Item : Visible(<<kv>>) = Vis[kv] /\ Vis[kv] \in Seq(Item)
  /\ \A kv \in Item, l \in Seq(Item) : Visible(<<kv>> \o l) = Vis[kv] \o Visible(l)
  /\ \A l \in Seq(Item), kv \in Item : Visible(Append(l, kv)) = Visible(l) \o Vis[kv]
<1>1. Vis \in [Item -> Seq(Item)]
  BY VisKeeps DEF Keeps
<1>2. <<>> \in Seq(Item) /\ \A kv \in Item : <<kv>> \in Seq(Item)
  BY EmptySeq, One
<1>3. Visible(<<>>) = <<>>
  BY <1>2, FiltersAre, FlatMapEmpty
<1>4. ASSUME NEW l \in Seq(Item) PROVE Visible(l) \in Seq(Item)
  <2>1. FlatMap(Vis, l) \in Seq(Item)
    BY <1>1, FlatMapType
  <2>2. QED
    BY <2>1, FiltersAre
<1>5. ASSUME NEW kv \in Item PROVE Visible(<<kv>>) = Vis[kv] /\ Vis[kv] \in Seq(Item)
  BY <1>1, <1>2, FiltersAre, FlatMapOne
<1>6. ASSUME NEW s \in Seq(Item), NEW t \in Seq(Item) PROVE Visible(s \o t) = Visible(s) \o Visible(t)
  <2>1. s \o t \in Seq(Item)
    BY ConcatProperties
  <2>2. FlatJoins(Vis, s, t)
    BY <1>1, FlatMapJoin
  <2>3. QED
    BY <2>1, <2>2, FiltersAre DEF FlatJoins
<1>7. ASSUME NEW kv \in Item, NEW l \in Seq(Item)
      PROVE  Visible(<<kv>> \o l) = Vis[kv] \o Visible(l) /\ Visible(Append(l, kv)) = Visible(l) \o Vis[kv]
  <2> DEFINE u == <<kv>>
  <2>1. u \in Seq(Item) /\ Visible(u) = Vis[kv] /\ Append(l, kv) = l \o u
    BY <1>2, <1>5, AppendIsConcat
  <2> HIDE DEF u
  <2>2. Visible(u \o l) = Visible(u) \o Visible(l) /\ Visible(l \o u) = Visible(l) \o Visible(u)
    BY <1>6, <2>1
  <2>3. QED
    BY <2>1, <2>2 DEF u
<1>8. QED
  BY <1>3, <1>4, <1>5, <1>7

\* An item is read back as it was written, and no other than the one without
\* key and value is written as nothing.
LEMMA ItemReadBack ==
  ASSUME NEW kv \in Item
  PROVE  /\ EncodeItem(kv) \in Word /\ parsequerykv(EncodeItem(kv)) = kv
         /\ EncodeItem(kv) = <<>> => Vis[kv] = <<>>
<1>0. Plain \subseteq Byte \ {Ampersand} /\ Plain \subseteq Byte \ {EqualSign} /\ Plain \subseteq Byte
      /\ EqualSign \in Byte \ {Ampersand} /\ EqualSign \in Byte /\ Byte \ {Ampersand} \subseteq Byte
  BY DEF Plain, Byte, Ampersand, EqualSign
<1>1. \A s \in Seq(Plain) : s \in Word /\ s \in Seq(Byte \ {EqualSign}) /\ s \in Str
  BY <1>0, SeqMonotonic DEF Word, Str
<1>2. CASE kv \in {keylessval(v) : v \in Str}
  <2>1. PICK v \in Str : kv = keylessval(v)
    BY <1>2
  <2>2. kv.keyless = TRUE /\ kv.val = v
    BY <2>1 DEF keylessval
  <2> DEFINE e == pctencode(v)
  <2>3. e \in Seq(Plain) /\ pctdecode(e) = v /\ (e = <<>> <=> v = <<>>)
    BY EncodeType, DecodeEncode
  <2>4. EncodeItem(kv) = e
    BY <2>2 DEF EncodeItem
  <2> HIDE DEF e
  <2>5. FindChar(e, EqualSign) = Len(e) + 1 /\ Len(e) + 1 > Len(e)
    <3>1. e \in Seq(Byte \ {EqualSign}) /\ EqualSign \in Byte /\ Len(e) \in Nat
      BY <1>0, <1>1, <2>3, LenProperties
    <3>2. FindChar(e, EqualSign) = Len(e) + 1
      BY <3>1, FindCharAfter
    <3>3. QED
      BY <3>1, <3>2
  <2>6. parsequerykv(e) = keylessval(pctdecode(e))
    BY <2>5 DEF parsequerykv
  <2>7. v = <<>> => Vis[kv] = <<>>
    BY <2>2 DEF Vis
  <2>8. QED
    BY <1>1, <2>1, <2>3, <2>4, <2>6, <2>7
<1>3. CASE kv \in {keyval(k, v) : k \in Str, v \in Str}
  <2>1. PICK k \in Str, v \in Str : kv = keyval(k, v)
    BY <1>3
  <2>2. kv.keyless = FALSE /\ kv.val = v /\ kv.key = k
    BY <2>1 DEF keyval
  <2> DEFINE a == pctencode(k)
             b == pctencode(v)
             q == EqualSign
             r == <<q>> \o b
             e == a \o r
  <2>3. a \in Seq(Plain) /\ pctdecode(a) = k /\ b \in Seq(Plain) /\ pctdecode(b) = v
    BY EncodeType, DecodeEncode
  <2> HIDE DEF a, b, q
  <2>4. a \in Seq(Byte) /\ b \in Seq(Byte) /\ a \in Seq(Byte \ {q}) /\ a \in Word /\ b \in Word /\ q \in Byte /\ q \in Byte \ {Ampersand}
        /\ Len(a) \in Nat /\ Len(b) \in Nat
    BY <1>0, <1>1, <2>3, LenProperties DEF Str, q
  <2>5. r \in Seq(Byte) /\ r \in Word /\ Len(r) = Len(b) + 1 /\ <<q>> \in Seq(Byte) /\ Len(<<q>>) = 1
    BY <2>4, ConsElements, One DEF Word
  <2>6. FindChar(e, q) = Len(a) + 1
    BY <2>4, FindCharAfter
  <2>7. EncodeItem(kv) = e
    <3> DEFINE w == <<q>>
    <3>1. w \in Seq(Byte)
      BY <2>5
    <3> HIDE DEF w
    <3>2. (a \o w) \o b = a \o (w \o b)
      BY <2>4, <3>1, ConcatAssociative
    <3>3. QED
      BY <2>2, <3>2 DEF EncodeItem, w, a, b, q
  <2>8. Suffix(e, Len(a) + 2) = b
    <3> DEFINE w == a \o <<q>>
    <3>1. w \in Seq(Byte) /\ Len(w) = Len(a) + 1
      <4> DEFINE x == <<q>>
      <4>1. x \in Seq(Byte) /\ Len(x) = 1
        BY <2>5
      <4> HIDE DEF x
      <4>2. a \o x \in Seq(Byte) /\ Len(a \o x) = Len(a) + Len(x)
        BY <2>4, <4>1, ConcatProperties
      <4>3. QED
        BY <4>1, <4>2 DEF x
    <3>2. e = w \o b
      <4> DEFINE x == <<q>>
      <4>1. x \in Seq(Byte)
        BY <2>5
      <4> HIDE DEF x
      <4>2. (a \o x) \o b = a \o (x \o b)
        BY <2>4, <4>1, ConcatAssociative
      <4>3. QED
        BY <4>2 DEF x
    <3> HIDE DEF w, e
    <3>3. Suffix(w \o b, Len(w) + 1) = b
      BY <2>4, <3>1, SuffixOfJoin
    <3>4. Len(a) + 1 + 1 = Len(a) + 2
      BY <2>4
    <3>5. QED
      BY <3>1, <3>2, <3>3, <3>4
  <2> HIDE DEF r
  <2>9. e \in Word /\ Len(e) = Len(a) + Len(r) /\ SubSeq(e, 1, Len(a)) = a /\ e \in Seq(Byte)
    <3>1. e \in Word
      BY <2>4, <2>5, ConcatProperties DEF Word
    <3>2. Len(e) = Len(a) + Len(r) /\ e \in Seq(Byte)
      BY <2>4, <2>5, ConcatProperties
    <3>3. SubSeq(e, 1, Len(a)) = a
      BY <2>4, <2>5, PrefixOfJoin
    <3>4. QED
      BY <3>1, <3>2, <3>3
  <2> HIDE DEF e
  <2>10. ~(Len(a) + 1 > Len(e)) /\ Len(a) + 1 - 1 = Len(a) /\ Len(a) + 1 + 1 = Len(a) + 2 /\ e # <<>>
    BY <2>4, <2>5, <2>9, EmptySeq
  <2>11. parsequerykv(e) = keyval(pctdecode(SubSeq(e, 1, Len(a))), pctdecode(From(e, Len(a) + 2)))
    BY <2>6, <2>10 DEF parsequerykv, q
  <2>12. From(e, Len(a) + 2) = b
    BY <2>8 DEF From, Suffix
  <2>13. parsequerykv(e) = kv
    BY <2>1, <2>3, <2>9, <2>11, <2>12
  <2>14. QED
    BY <2>7, <2>9, <2>10, <2>13
<1>4. QED
  BY <1>2, <1>3 DEF Item

\* What there is to see of the items that a text is read as.
Shown(s) == Visible(parse_query(s))

\* Of a word; of a word before others; of nothing.
LEMMA ShownWords ==
  /\ Shown(<<>>) = <<>>
  /\ \A s \in Str : Shown(s) \in Seq(Item)
  /\ \A a \in Word : Shown(a) = Vis[parsequerykv(a)]
  /\ \A a \in Word, t \in Str :
       /\ a \o (<<Ampersand>> \o t) \in Str
       /\ Shown(a \o (<<Ampersand>> \o t)) = Vis[parsequerykv(a)] \o Shown(t)
<1>1. Word \subseteq Str /\ <<>> \in Str
  <2>1. Byte \ {Ampersand} \subseteq Byte
    OBVIOUS
  <2>2. QED
    BY <2>1, EmptySeq, SeqMonotonic DEF Word, Str
<1>2. \A s \in Str : parse_query(s) \in Seq(Item) /\ Shown(s) \in Seq(Item)
  BY ParseType, VisibleParts DEF Shown
<1>3. Shown(<<>>) = <<>>
  BY ParseType, VisibleParts DEF Shown
<1>4. ASSUME NEW a \in Word PROVE Shown(a) = Vis[parsequerykv(a)]
  <2> DEFINE e == parsequerykv(a)
  <2>1. e \in Item
    BY <1>1, ParsedType
  <2>2. CASE a # <<>>
    <3>1. parse_query(a) = <<e>>
      BY <2>2, ParseWord
    <3> HIDE DEF e
    <3>2. QED
      BY <2>1, <3>1, VisibleParts DEF Shown, e
  <2>3. CASE a = <<>>
    <3>1. pctencode(<<>>) = <<>>
      BY <1>1, DecodeEncode
    <3> DEFINE kv == keylessval(<<>>)
    <3>2. kv \in Item /\ EncodeItem(kv) = <<>>
      <4>1. kv \in Item
        BY <1>1 DEF Item
      <4>2. kv.keyless = TRUE /\ kv.val = <<>>
        BY DEF keylessval
      <4>3. QED
        BY <3>1, <4>1, <4>2 DEF EncodeItem
    <3> HIDE DEF kv
    <3>3. e = kv /\ Vis[kv] = <<>>
      BY <2>3, <3>2, ItemReadBack
    <3>4. QED
      BY <1>3, <2>3, <3>3
  <2>4. QED
    BY <2>2, <2>3
<1>5. ASSUME NEW a \in Word, NEW t \in Str
      PROVE  /\ a \o (<<Ampersand>> \o t) \in Str
             /\ Shown(a \o (<<Ampersand>> \o t)) = Vis[parsequerykv(a)] \o Shown(t)
  <2> DEFINE u == a \o (<<Ampersand>> \o t)
             e == parsequerykv(a)
  <2>1. u \in Str /\ parse_query(u) = <<e>> \o parse_query(t)
    BY ParseSplit
  <2>2. e \in Item /\ parse_query(t) \in Seq(Item)
    BY <1>1, <1>2, ParsedType
  <2> HIDE DEF u, e
  <2>3. Shown(u) = Vis[e] \o Shown(t)
    BY <2>1, <2>2, VisibleParts DEF Shown
  <2>4. QED
    BY <2>1, <2>3 DEF u, e
<1>6. QED
  BY <1>2, <1>3, <1>4, <1>5

\* Two texts with the character between them.
Beside(s, t) == Between(s, Ampersand, t)
ShowsBoth(s, t) == Beside(s, t) \in Str /\ Shown(Beside(s, t)) = Shown(s) \o Shown(t)
\* The second is read after the first, whatever that is.
LEMMA ShownBetween == \A s \in Str, t \in Str : ShowsBoth(s, t)
<1> SUFFICES ASSUME NEW t \in Str PROVE \A s \in Str : ShowsBoth(s, t)
  OBVIOUS
<1> DEFINE c == Ampersand
           P == {s \in Str : ShowsBoth(s, t)}
<1>0. c \in Byte
  BY DEF Ampersand, Byte
<1>1. ASSUME NEW a \in Word PROVE a \in P
  <2>1. a \in Str
    <3>1. Byte \ {Ampersand} \subseteq Byte
      OBVIOUS
    <3>2. QED
      BY <3>1, SeqMonotonic DEF Word, Str
  <2>2. QED
    BY <2>1, ShownWords DEF ShowsBoth, Beside, Between
<1>2. ASSUME NEW a \in Word, NEW s \in P PROVE a \o (<<c>> \o s) \in P
  <2> DEFINE e == Vis[parsequerykv(a)]
             u == Beside(s, t)
  <2>1. a \in Str /\ e \in Seq(Item)
    <3>1. a \in Str
      BY <1>1
    <3>2. QED
      BY <3>1, ParsedType, VisibleParts
  <2>2. u \in Str /\ Shown(u) = Shown(s) \o Shown(t) /\ s \in Str
    BY DEF ShowsBoth
  <2>3. Beside(Beside(a, s), t) = Beside(a, u)
    BY <1>0, <2>1, <2>2, BetweenThree DEF Beside, Str
  <2>4. Beside(a, s) \in Str /\ Shown(Beside(a, s)) = e \o Shown(s)
    BY <2>2, ShownWords DEF Beside, Between
  <2> HIDE DEF u
  <2>5. Beside(a, u) \in Str /\ Shown(Beside(a, u)) = e \o Shown(u)
    BY <2>2, ShownWords DEF Beside, Between
  <2> HIDE DEF e
  <2>6. (e \o Shown(s)) \o Shown(t) = e \o (Shown(s) \o Shown(t))
    <3>1. Shown(s) \in Seq(Item) /\ Shown(t) \in Seq(Item)
      BY <2>2, ShownWords
    <3> DEFINE x == Shown(s)
               y == Shown(t)
    <3>2. x \in Seq(Item) /\ y \in Seq(Item)
      BY <3>1
    <3> HIDE DEF x, y
    <3>3. (e \o x) \o y = e \o (x \o y)
      BY <2>1, <3>2, ConcatAssociative
    <3>4. QED
      BY <3>3 DEF x, y
  <2>7. ShowsBoth(Beside(a, s), t)
    BY <2>2, <2>3, <2>4, <2>5, <2>6 DEF ShowsBoth
  <2>8. QED
    BY <2>4, <2>7 DEF Beside, Between
<1>3. Words(P, c, Byte)
  <2>1. P \subseteq Str
    OBVIOUS
  <2>2. QED
    BY <1>0, <1>1, <1>2, <2>1 DEF Words, Word, Str
<1> HIDE DEF P
<1>4. P = Seq(Byte)
  BY <1>3, WordInduction
<1>5. QED
  BY <1>4 DEF P, Str

\* An item at the end of a text is read after what the text held.
LEMMA ShownAppended ==
  ASSUME NEW s \in Str, NEW kv \in Item
  PROVE  AppendItem(s, kv) \in Str /\ Shown(AppendItem(s, kv)) = Shown(s) \o Vis[kv]
<1> DEFINE e == EncodeItem(kv)
           w == <<Ampersand>>
<1>1. e \in Word /\ e \in Str /\ Shown(e) = Vis[kv] /\ Vis[kv] \in Seq(Item)
  <2>1. e \in Word /\ parsequerykv(e) = kv
    BY ItemReadBack
  <2>2. Byte \ {Ampersand} \subseteq Byte
    OBVIOUS
  <2> HIDE DEF e
  <2>3. e \in Str
    BY <2>1, <2>2, SeqMonotonic DEF Word, Str
  <2>4. QED
    BY <2>1, <2>3, ShownWords, VisibleParts
<1>2. w \in Str
  <2>1. Ampersand \in Byte
    BY DEF Ampersand, Byte
  <2>2. QED
    BY <2>1, One DEF Str
<1> HIDE DEF e
<1>3. CASE s = <<>>
  <2>1. AppendItem(s, kv) = e
    BY <1>1, <1>3, ConcatEmptySeq DEF AppendItem, e, Str
  <2>2. Shown(s) \o Vis[kv] = Vis[kv]
    BY <1>1, <1>3, ShownWords, ConcatEmptySeq
  <2>3. QED
    BY <1>1, <2>1, <2>2
<1>4. CASE s # <<>>
  <2>1. Append(s, Ampersand) = s \o w
    <3>1. Ampersand \in Byte
      BY DEF Ampersand, Byte
    <3>2. QED
      BY <3>1, AppendIsConcat DEF Str
  <2>2. AppendItem(s, kv) = (s \o w) \o e
    BY <1>4, <2>1 DEF AppendItem, e
  <2> HIDE DEF w
  <2>3. (s \o w) \o e = s \o (w \o e)
    BY <1>1, <1>2, ConcatAssociative DEF Str
  <2>4. AppendItem(s, kv) = Beside(s, e)
    BY <2>2, <2>3 DEF Beside, Between, w
  <2>5. ShowsBoth(s, e)
    BY <1>1, ShownBetween
  <2>6. QED
    BY <1>1, <2>4, <2>5 DEF ShowsBoth
<1>5. QED
  BY <1>3, <1>4

\* One step of make_query().
Joined == [p \in Str \X Item |-> AppendItem(p[1], p[2])]

\* The text that is made of a list is read as what there is to see of it.
LEMMA ShownMade ==
  \A l \in Seq(Item) : make_query(l) \in Str /\ Shown(make_query(l)) = Visible(l)
<1>1. <<>> \in Str
  BY EmptySeq DEF Str
<1>2. \A v \in Str, e \in Item : Joined[v, e] = AppendItem(v, e)
  BY DEF Joined
<1>3. Steps(Joined, Str, Item)
  BY <1>2, ShownAppended DEF Steps
<1>4. ASSUME NEW l \in Seq(Item) PROVE make_query(l) = Fold(Joined, <<>>, l)
  <2> DEFINE n == Len(l)
             Is(f) == f = [k \in 0..n |-> IF k = 0 THEN <<>> ELSE AppendItem(f[k - 1], l[k])]
             g == CHOOSE f : Is(f)
  <2>1. n \in Nat /\ \A k \in 1..n : l[k] \in Item
    BY LenProperties, ElementOfSeq
  <2>2. PICK h : ValuesOf(h, Joined, <<>>, l, n, Str)
    BY <1>1, <1>3, FoldExists
  <2>3. \E f : Is(f)
    <3> DEFINE f == [k \in 0..n |-> h[k]]
    <3>1. ASSUME NEW k \in 0..n PROVE f[k] = IF k = 0 THEN <<>> ELSE AppendItem(f[k - 1], l[k])
      <4>1. CASE k = 0
        BY <2>2, <4>1 DEF ValuesOf
      <4>2. CASE k # 0
        <5>1. k \in 1..n /\ k - 1 \in 0..n
          BY <2>1, <4>2
        <5>2. h[k] = Joined[h[k - 1], l[k]] /\ h[k - 1] \in Str /\ f[k] = h[k] /\ f[k - 1] = h[k - 1]
          BY <2>2, <5>1 DEF ValuesOf
        <5> HIDE DEF f
        <5>3. QED
          BY <1>2, <2>1, <4>2, <5>1, <5>2
      <4>3. QED
        BY <4>1, <4>2
    <3>2. f = [k \in 0..n |-> f[k]]
      OBVIOUS
    <3> HIDE DEF f
    <3>3. Is(f)
      BY <3>1, <3>2
    <3>4. QED
      BY <3>3
  <2>4. Is(g)
    BY <2>3
  <2>5. make_query(l) = g[n]
    BY Zenon DEF make_query
  <2> HIDE DEF g
  <2>6. Follows(g, Joined, <<>>, l, n, Str)
    <3>1. g[0] = <<>>
      BY <2>1, <2>4
    <3>2. ASSUME NEW k \in 1..n, g[k - 1] \in Str PROVE g[k] = Joined[g[k - 1], l[k]]
      <4>1. k \in 0..n /\ k # 0
        BY <2>1
      <4>2. g[k] = AppendItem(g[k - 1], l[k])
        BY <2>4, <4>1
      <4>3. QED
        BY <1>2, <2>1, <3>2, <4>2
    <3>3. QED
      BY <3>1, <3>2 DEF Follows
  <2>7. g[n] = Fold(Joined, <<>>, l)
    BY <1>1, <1>3, <2>6, FoldIs
  <2>8. QED
    BY <2>5, <2>7
<1> DEFINE P == {l \in Seq(Item) : Fold(Joined, <<>>, l) \in Str /\ Shown(Fold(Joined, <<>>, l)) = Visible(l)}
<1>5. <<>> \in P
  <2>1. Fold(Joined, <<>>, <<>>) = <<>>
    BY <1>1, <1>3, FoldEmpty
  <2>2. QED
    BY <1>1, <2>1, ShownWords, VisibleParts, EmptySeq
<1>6. ASSUME NEW l \in P, NEW e \in Item PROVE Append(l, e) \in P
  <2> DEFINE q == Fold(Joined, <<>>, l)
  <2>0. l \in Seq(Item) /\ q \in Str /\ Shown(q) = Visible(l)
    OBVIOUS
  <2>1. q \in Str /\ Shown(q) = Visible(l) /\ Fold(Joined, <<>>, Append(l, e)) = Joined[q, e]
    <3> HIDE DEF P
    <3>1. Fold(Joined, <<>>, Append(l, e)) = Joined[q, e]
      <4>1. FoldsOn(Joined, <<>>, l, e, Str)
        BY <1>1, <1>3, <2>0, FoldAppend
      <4>2. QED
        BY <4>1 DEF FoldsOn
    <3>2. QED
      BY <2>0, <3>1
  <2> HIDE DEF q
  <2>2. AppendItem(q, e) \in Str /\ Shown(AppendItem(q, e)) = Shown(q) \o Vis[e]
    BY <2>1, ShownAppended
  <2>3. Append(l, e) \in Seq(Item) /\ Visible(Append(l, e)) = Visible(l) \o Vis[e]
    BY VisibleParts, AppendProperties
  <2>4. QED
    BY <1>2, <2>1, <2>2, <2>3
<1>7. P = Seq(Item)
  <2>1. P \subseteq Seq(Item)
    OBVIOUS
  <2> HIDE DEF P
  <2>2. QED
    BY <1>5, <1>6, <2>1, AppendInduction
<1>8. QED
  BY <1>4, <1>7

\* What there is to see after an item was set is told by what there was before.
LEMMA VisibleSet ==
  ASSUME NEW l \in Seq(Item), NEW m \in Seq(Item), Visible(l) = Visible(m), NEW kv \in Item
  PROVE  Visible(SetItem(l, kv)) = Visible(SetItem(m, kv)) /\ SetItem(l, kv) \in Seq(Item)
<1> DEFINE F == Other(kv.key)
<1>1. Keeps(F, Item) /\ F \in [Item -> Seq(Item)] /\ Keeps(Vis, Item)
  BY VisKeeps DEF Keeps
<1> HIDE DEF F
<1>2. ASSUME NEW s \in Seq(Item)
      PROVE  Visible(SetItem(s, kv)) = FlatMap(F, Visible(s)) \o Vis[kv] /\ SetItem(s, kv) \in Seq(Item)
  <2>1. FlatMap(F, s) \in Seq(Item)
    BY <1>1, FlatMapType
  <2>2. SetItem(s, kv) = Append(FlatMap(F, s), kv)
    BY FiltersAre DEF F
  <2>3. Visible(SetItem(s, kv)) = Visible(FlatMap(F, s)) \o Vis[kv]
    BY <2>1, <2>2, VisibleParts
  <2>4. Visible(FlatMap(F, s)) = FlatMap(Vis, FlatMap(F, s)) /\ Visible(s) = FlatMap(Vis, s)
    BY <2>1, FiltersAre
  <2>5. FlatMap(Vis, FlatMap(F, s)) = FlatMap(F, FlatMap(Vis, s))
    BY <1>1, FiltersCommute
  <2>6. QED
    BY <2>1, <2>2, <2>3, <2>4, <2>5, AppendProperties
<1>3. QED
  BY <1>2

-----------------------------------------------------------------------------
(* The two forms of a query. *)

Queries == [l : Seq(Item), q : Str, authority : {"L", "Q", "other"}]

\* The form that is the authority shows the items, and so does the other one
\* where it was made.
Agrees(x, it) ==
  /\ x \in Queries /\ it \in Seq(Item)
  /\ x.authority = "L" => Visible(x.l) = Visible(it) /\ (x.q = <<>> \/ Shown(x.q) = Visible(it))
  /\ x.authority = "Q" => Shown(x.q) = Visible(it) /\ (x.l = <<>> \/ Visible(x.l) = Visible(it))
  /\ x.authority = "other" => Visible(x.l) = Visible(it)

\* A query that is made of a text, of an item, or of nothing.
LEMMA NewAgrees ==
  /\ \A s \in Str : Agrees(QueryOf(s), parse_query(s))
  /\ \A kv \in Item : Agrees(QueryFromList(<<kv>>), <<kv>>)
  /\ Agrees(QueryFromList(<<>>), <<>>)
  /\ \A a \in {"L", "Q", "other"} : Agrees(DefaultQuery(a), <<>>)
<1>1. <<>> \in Str /\ <<>> \in Seq(Item)
  BY EmptySeq DEF Str
<1>2. ASSUME NEW s \in Str PROVE Agrees(QueryOf(s), parse_query(s))
  BY <1>1, ParseType DEF Agrees, QueryOf, Queries, Shown
<1>3. ASSUME NEW l \in Seq(Item) PROVE Agrees(QueryFromList(l), l)
  BY <1>1 DEF Agrees, QueryFromList, Queries
<1>4. ASSUME NEW kv \in Item PROVE <<kv>> \in Seq(Item)
  BY One
<1>5. ASSUME NEW a \in {"L", "Q", "other"} PROVE Agrees(DefaultQuery(a), <<>>)
  <2>1. Visible(<<>>) = <<>> /\ Shown(<<>>) = <<>>
    BY VisibleParts, ShownWords
  <2>2. QED
    BY <1>1, <2>1 DEF Agrees, DefaultQuery, Queries
<1>6. QED
  BY <1>1, <1>2, <1>3, <1>4, <1>5

\* Making the other form keeps the agreement, and both forms show the items.
LEMMA NeedAgrees ==
  ASSUME NEW x, NEW it, Agrees(x, it)
  PROVE  /\ Agrees(need_l(x), it) /\ Visible(need_l(x).l) = Visible(it)
         /\ Agrees(need_q(x), it) /\ need_q(x).authority = x.authority
         /\ x.authority # "other" => Shown(need_q(x).q) = Visible(it)
<1>1. x \in Queries /\ it \in Seq(Item) /\ x.l \in Seq(Item) /\ x.q \in Str
  BY DEF Agrees, Queries
<1>2. Agrees(need_l(x), it) /\ Visible(need_l(x).l) = Visible(it)
  <2>1. CASE x.authority = "Q" /\ x.l = <<>>
    <3> DEFINE p == parse_query(x.q)
               y == [x EXCEPT !.l = p]
    <3>1. p \in Seq(Item) /\ Visible(p) = Visible(it)
      BY <1>1, <2>1, ParseType DEF Agrees, Shown
    <3> HIDE DEF p
    <3>2. y \in Queries /\ y.l = p /\ y.q = x.q /\ y.authority = "Q"
      BY <1>1, <2>1, <3>1 DEF Queries
    <3>3. need_l(x) = y
      BY <2>1 DEF need_l, p
    <3> HIDE DEF y
    <3>4. QED
      BY <1>1, <2>1, <3>1, <3>2, <3>3 DEF Agrees
  <2>2. CASE ~(x.authority = "Q" /\ x.l = <<>>)
    <3>1. need_l(x) = x
      BY <2>2 DEF need_l
    <3>2. QED
      BY <1>1, <2>2, <3>1 DEF Agrees, Queries
  <2>3. QED
    BY <2>1, <2>2
<1>3. Agrees(need_q(x), it) /\ need_q(x).authority = x.authority
      /\ (x.authority # "other" => Shown(need_q(x).q) = Visible(it))
  <2>1. CASE x.authority = "L" /\ x.q = <<>>
    <3> DEFINE p == make_query(x.l)
               y == [x EXCEPT !.q = p]
    <3>1. p \in Str /\ Shown(p) = Visible(it)
      BY <1>1, <2>1, ShownMade DEF Agrees
    <3> HIDE DEF p
    <3>2. y \in Queries /\ y.l = x.l /\ y.q = p /\ y.authority = "L"
      BY <1>1, <2>1, <3>1 DEF Queries
    <3>3. need_q(x) = y
      BY <2>1 DEF need_q, p
    <3> HIDE DEF y
    <3>4. QED
      BY <1>1, <2>1, <3>1, <3>2, <3>3 DEF Agrees
  <2>2. CASE ~(x.authority = "L" /\ x.q = <<>>)
    <3>1. need_q(x) = x
      BY <2>2 DEF need_q
    <3>2. QED
      BY <1>1, <2>2, <3>1 DEF Agrees, Queries
  <2>3. QED
    BY <2>1, <2>2
<1>4. QED
  BY <1>2, <1>3

\* Adding and setting an item.
LEMMA ChangeAgrees ==
  ASSUME NEW x, NEW it, Agrees(x, it), NEW kv \in Item
  PROVE  Agrees(add(x, kv), Append(it, kv)) /\ Agrees(set(x, kv), SetItem(it, kv))
<1>1. x \in Queries /\ it \in Seq(Item) /\ x.l \in Seq(Item) /\ x.q \in Str /\ <<>> \in Str /\ <<>> \in Seq(Item)
      /\ x.authority \in {"L", "Q", "other"}
  BY EmptySeq DEF Agrees, Queries, Str
<1>2. Agrees(add(x, kv), Append(it, kv))
  <2>0. Append(it, kv) \in Seq(Item) /\ Visible(Append(it, kv)) = Visible(it) \o Vis[kv]
    BY <1>1, VisibleParts, AppendProperties
  <2>1. CASE x.authority = "Q"
    <3> DEFINE p == AppendItem(x.q, kv)
               y == [x EXCEPT !.q = p, !.l = <<>>]
    <3>1. p \in Str /\ Shown(p) = Visible(it) \o Vis[kv]
      BY <1>1, <2>1, ShownAppended DEF Agrees
    <3>2. add(x, kv) = y
      BY <2>1 DEF add
    <3> HIDE DEF p
    <3>3. y \in Queries /\ y.l = <<>> /\ y.q = p /\ y.authority = "Q"
      BY <1>1, <2>1, <3>1 DEF Queries
    <3> HIDE DEF y
    <3>4. QED
      BY <2>0, <3>1, <3>2, <3>3 DEF Agrees
  <2>2. CASE x.authority # "Q"
    <3> DEFINE p == Append(x.l, kv)
               y == [x EXCEPT !.l = p, !.q = <<>>]
    <3>1. p \in Seq(Item) /\ Visible(p) = Visible(it) \o Vis[kv]
      <4>1. Visible(x.l) = Visible(it)
        BY <1>1, <2>2 DEF Agrees
      <4>2. Append(x.l, kv) \in Seq(Item) /\ Visible(Append(x.l, kv)) = Visible(x.l) \o Vis[kv]
        BY <1>1, VisibleParts, AppendProperties
      <4>3. QED
        BY <4>1, <4>2
    <3>2. add(x, kv) = y
      BY <2>2 DEF add
    <3> HIDE DEF p
    <3>3. y \in Queries /\ y.l = p /\ y.q = <<>> /\ y.authority # "Q"
      BY <1>1, <2>2, <3>1 DEF Queries
    <3> HIDE DEF y
    <3>4. QED
      BY <2>0, <3>1, <3>2, <3>3 DEF Agrees
  <2>3. QED
    BY <2>1, <2>2
<1>3. Agrees(set(x, kv), SetItem(it, kv))
  <2> DEFINE l == need_l(x).l
             m == SetItem(l, kv)
             y == [l |-> m, q |-> <<>>, authority |-> "L"]
  <2>1. l \in Seq(Item) /\ Visible(l) = Visible(it)
    BY NeedAgrees DEF Agrees, Queries
  <2>2. set(x, kv) = y
    BY DEF set
  <2> HIDE DEF l
  <2>3. m \in Seq(Item) /\ Visible(m) = Visible(SetItem(it, kv)) /\ SetItem(it, kv) \in Seq(Item)
    BY <1>1, <2>1, VisibleSet
  <2> HIDE DEF m
  <2>4. y \in Queries /\ y.l = m /\ y.q = <<>> /\ y.authority = "L"
    BY <1>1, <2>3 DEF Queries
  <2> HIDE DEF y
  <2>5. QED
    BY <2>2, <2>3, <2>4 DEF Agrees
<1>4. QED
  BY <1>2, <1>3

-----------------------------------------------------------------------------
(* The text of the request. *)

Path == Seq(Byte \ {Question})

\* The text of a request names the path, and what the query shows after it.
Says(text, p, hq, it) ==
  LET at == FindChar(text, Question) IN
  /\ SubSeq(text, 1, at - 1) = p /\ (hq <=> at <= Len(text))
  /\ hq => Shown(From(text, at + 1)) = Visible(it)
  /\ ~hq => it = <<>>

\* The parts of a text that was given.
LEMMA TextParts ==
  ASSUME NEW s \in Str
  PROVE  LET at == FindChar(s, Question)
         IN SubSeq(s, 1, at - 1) \in Path /\ (at <= Len(s) => From(s, at + 1) \in Str)
<1> DEFINE at == FindChar(s, Question)
           p == SubSeq(s, 1, at - 1)
<1>1. Len(s) \in Nat /\ at \in 1..Len(s) + 1 /\ (\A i \in 1..Len(s) : s[i] \in Byte)
      /\ \A j \in 1..(at - 1) : s[j] # Question
  BY FindCharIs, LenProperties, ElementOfSeq DEF FoundAt, Str
<1> HIDE DEF at
<1>2. p \in Path
  <2>1. 1 \in Int /\ at - 1 \in Int /\ \A i \in 1..(at - 1) : s[i] \in Byte \ {Question}
    BY <1>1
  <2>2. QED
    BY <2>1, SubSeqProperties DEF Path
<1>3. ASSUME at <= Len(s) PROVE From(s, at + 1) \in Str
  <2>1. at + 1 \in 1..Len(s) + 1
    BY <1>1, <1>3
  <2>2. QED
    BY <2>1, SuffixElements DEF From, Suffix, Str
<1>4. QED
  BY <1>2, <1>3 DEF at

\* The parts of a text that is made.
LEMMA MadeText ==
  ASSUME NEW p \in Path, NEW q \in Str
  PROVE  /\ FindChar(p, Question) = Len(p) + 1 /\ Len(p) \in Nat
         /\ SubSeq(p, 1, Len(p)) = p /\ p \o <<>> = p
         /\ FindChar(p \o (<<Question>> \o q), Question) = Len(p) + 1
         /\ Len(p) + 1 <= Len(p \o (<<Question>> \o q))
         /\ SubSeq(p \o (<<Question>> \o q), 1, Len(p)) = p
         /\ From(p \o (<<Question>> \o q), Len(p) + 2) = q
<1> DEFINE c == Question
           r == <<c>> \o q
           u == p \o r
<1>1. p \in Seq(Byte) /\ q \in Seq(Byte) /\ Len(p) \in Nat /\ Len(q) \in Nat /\ c \in Byte /\ Byte \ {c} \subseteq Byte
  <2>1. Byte \ {Question} \subseteq Byte /\ Question \in Byte
    BY DEF Question, Byte
  <2>2. QED
    BY <2>1, SeqMonotonic, LenProperties DEF Path, Str
<1>2. FindChar(p, c) = Len(p) + 1 /\ FindChar(u, c) = Len(p) + 1
  BY <1>1, FindCharAfter DEF Path
<1> HIDE DEF c
<1>3. SubSeq(p, 1, Len(p)) = p /\ p \o <<>> = p
  BY <1>1, SubSeqFull, ConcatEmptySeq
<1>4. r \in Seq(Byte) /\ Len(r) = Len(q) + 1
  BY <1>1, ConsElements
<1>5. Suffix(u, Len(p) + 2) = q
  <2> DEFINE x == <<c>>
             w == p \o x
  <2>1. x \in Seq(Byte) /\ Len(x) = 1
    BY <1>1, One
  <2>2. r = x \o q
    OBVIOUS
  <2> HIDE DEF x, r
  <2>3. w \in Seq(Byte) /\ Len(w) = Len(p) + Len(x)
    BY <1>1, <2>1, ConcatProperties
  <2>4. u = w \o q
    BY <1>1, <2>1, <2>2, ConcatAssociative
  <2> HIDE DEF w, u
  <2>5. Suffix(w \o q, Len(w) + 1) = q
    BY <1>1, <2>3, SuffixOfJoin
  <2>6. Len(w) + 1 = Len(p) + 2
    BY <1>1, <2>1, <2>3
  <2>7. QED
    BY <2>4, <2>5, <2>6
<1> HIDE DEF r
<1>6. Len(u) = Len(p) + Len(r) /\ SubSeq(u, 1, Len(p)) = p
  <2>1. Len(u) = Len(p) + Len(r)
    BY <1>1, <1>4, ConcatProperties
  <2>2. SubSeq(u, 1, Len(p)) = p
    BY <1>1, <1>4, PrefixOfJoin
  <2>3. QED
    BY <2>1, <2>2
<1>7. Len(p) + 1 <= Len(u)
  BY <1>1, <1>4, <1>6
<1>8. QED
  BY <1>1, <1>2, <1>3, <1>5, <1>6, <1>7 DEF u, r, c, From, Suffix

-----------------------------------------------------------------------------
(* The inductive invariant: the forms of the query agree with the items;   *)
(* a text that was given says what the parts are; headers are as they were *)
(* added.                                                                  *)

Header == {keyval(k, v) : k \in Names, v \in Lengthy}

IInv ==
  /\ Agrees(query, items)
  /\ path \in Path /\ fullrequest \in Str /\ {fr_valid, havequery} \subseteq BOOLEAN
  /\ fr_valid /\ path # <<>> => Says(fullrequest, path, havequery, sent)
  /\ ~fr_valid => sent = IF havequery THEN items ELSE <<>>
  /\ headers \in Seq(Header)

\* The parameters of the calls are items, and the texts are texts.
LEMMA CallsTyped ==
  /\ \A k \in Keys, v \in Values : keyval(k, v) \in Item
  /\ \A v \in Values : keylessval(v) \in Item
  /\ Strings \subseteq Str /\ Requests \subseteq Str /\ Keys \subseteq Str /\ Values \subseteq Str /\ Lengthy \subseteq Str
  /\ Root \in Path /\ <<>> \in Path /\ <<>> \in Str
<1>1. Strings \subseteq Str /\ Requests \subseteq Str /\ Keys \subseteq Str /\ Values \subseteq Str /\ Lengthy \subseteq Str
  BY StringsAssumption DEF Str
<1>2. Root \in Path
  <2>1. 47 \in Byte \ {Question}
    BY DEF Byte, Question
  <2>2. QED
    BY <2>1, One DEF Root, Path
<1>3. <<>> \in Path /\ <<>> \in Str
  BY EmptySeq DEF Path, Str
<1>4. QED
  BY <1>1, <1>2, <1>3 DEF Item

\* Initially it holds.
LEMMA InitIInv == Init => IInv
<1> SUFFICES ASSUME Init PROVE IInv
  OBVIOUS
<1>1. Agrees(query, items)
  BY NewAgrees DEF Init
<1>2. path \in Path /\ fullrequest \in Str /\ {fr_valid, havequery} \subseteq BOOLEAN
  BY CallsTyped DEF Init
<1>3. ~(fr_valid /\ path # <<>>)
  BY DEF Init
<1>4. items = <<>> /\ sent = <<>>
  BY DEF Init
<1>5. headers \in Seq(Header)
  BY EmptySeq DEF Init
<1>6. QED
  BY <1>1, <1>2, <1>3, <1>4, <1>5 DEF IInv

\* Setting a header keeps the list one of headers.
LEMMA HeaderSet ==
  ASSUME NEW l \in Seq(Header), NEW h \in Header
  PROVE  Append(l, h) \in Seq(Header) /\ SetItem(l, h) \in Seq(Header)
<1> DEFINE F == [x \in Header |-> IF ~SameKey(x.key, h.key) THEN <<x>> ELSE <<>>]
<1>1. \A e \in Header : <<e>> \in Seq(Header) /\ <<>> \in Seq(Header)
  BY One, EmptySeq
<1>2. F \in [Header -> Seq(Header)]
  BY <1>1
<1>3. DOMAIN l = 1..Len(l) /\ \A k \in 1..Len(l) : l[k] \in Header
  BY LenProperties, ElementOfSeq
<1>4. [k \in DOMAIN l |-> IF ~SameKey(l[k].key, h.key) THEN <<l[k]>> ELSE <<>>] = Mapped(F, l)
  BY <1>3 DEF Mapped
<1>5. SetItem(l, h) = Append(FlatMap(F, l), h)
  BY <1>4, Zenon DEF SetItem, Filter, FlatMap
<1> HIDE DEF F
<1>6. FlatMap(F, l) \in Seq(Header)
  BY <1>2, FlatMapType
<1>7. QED
  BY <1>5, <1>6, AppendProperties

\* Every step keeps it.
LEMMA NextIInv == IInv /\ [Next]_vars => IInv'
<1> SUFFICES ASSUME IInv, [Next]_vars PROVE IInv'
  OBVIOUS
<1>0. Agrees(query, items) /\ items \in Seq(Item) /\ path \in Path /\ fullrequest \in Str
      /\ fr_valid \in BOOLEAN /\ havequery \in BOOLEAN /\ headers \in Seq(Header)
  BY DEF IInv, Agrees
\* where only the form of the query may change
<1>q. ASSUME UNCHANGED <<request, headers, items, sent>>, Agrees(query', items) PROVE IInv'
  <2>1. UNCHANGED <<path, fullrequest, fr_valid, havequery, headers, items, sent>>
    BY <1>q DEF request
  <2>2. QED
    BY <1>q, <2>1 DEF IInv
\* where only the headers change
<1>h. ASSUME UNCHANGED <<request, query, items, sent>>, headers' \in Seq(Header) PROVE IInv'
  <2>1. UNCHANGED <<path, fullrequest, fr_valid, havequery, query, items, sent>>
    BY <1>h DEF request
  <2>2. QED
    BY <1>h, <2>1 DEF IInv
\* where the query changes behind the text
<1>c. ASSUME NEW q, NEW l, Change(q, l), Agrees(q, l) PROVE IInv'
  <2>1. /\ UNCHANGED <<path, fullrequest, fr_valid, havequery, headers>>
        /\ query' = q /\ items' = l /\ sent' = IF havequery /\ ~fr_valid THEN l ELSE sent
    BY <1>c DEF Change, request
  <2>2. Agrees(query', items')
    BY <1>c, <2>1
  <2>3. ASSUME fr_valid', path' # <<>> PROVE Says(fullrequest', path', havequery', sent')
    <3>1. Says(fullrequest, path, havequery, sent) /\ sent' = sent
      BY <2>1, <2>3 DEF IInv
    <3>2. QED
      BY <2>1, <3>1
  <2>4. {fr_valid, havequery}' \subseteq BOOLEAN
    BY <1>0, <2>1
  <2>5. ~fr_valid' => sent' = IF havequery' THEN items' ELSE <<>>
    BY <1>0, <2>1 DEF IInv
  <2>6. QED
    BY <1>0, <2>1, <2>2, <2>3, <2>4, <2>5 DEF IInv
<1>1. CASE GetRequest
  <2>1. Agrees(query', items)
    BY <1>0, <1>1, NeedAgrees DEF GetRequest
  <2>2. QED
    BY <1>1, <1>q, <2>1 DEF GetRequest
<1>2. CASE SetRequest
  <2>1. PICK str \in Requests :
          LET pq == FindChar(str, Question) IN
          /\ fullrequest' = str /\ fr_valid' = TRUE /\ havequery' = (pq <= Len(str))
          /\ path' = SubSeq(str, 1, pq - 1)
          /\ query' = IF pq <= Len(str) THEN [query EXCEPT !.q = From(str, pq + 1), !.authority = "Q", !.l = <<>>]
                      ELSE query
          /\ items' = IF pq <= Len(str) THEN parse_query(From(str, pq + 1)) ELSE items
          /\ sent' = IF pq <= Len(str) THEN items' ELSE <<>>
          /\ UNCHANGED headers
    BY <1>2 DEF SetRequest
  <2> DEFINE pq == FindChar(str, Question)
             r == From(str, pq + 1)
  <2>2. /\ str \in Str /\ Len(str) \in Nat /\ pq \in Nat
        /\ SubSeq(str, 1, pq - 1) \in Path /\ (pq <= Len(str) => r \in Str)
    BY CallsTyped, TextParts, FindCharIs, LenProperties DEF FoundAt, Str
  <2>3. CASE pq <= Len(str)
    <3>1. query' = QueryOf(r) /\ items' = parse_query(r) /\ sent' = items' /\ havequery' = TRUE
      <4>1. [query EXCEPT !.q = r, !.authority = "Q", !.l = <<>>] = QueryOf(r)
        <5>1. query \in Queries
          BY <1>0 DEF Agrees
        <5> DEFINE y == [query EXCEPT !.q = r, !.authority = "Q", !.l = <<>>]
        <5>2. y \in Queries /\ y.q = r /\ y.authority = "Q" /\ y.l = <<>>
          <6>1. r \in Str /\ <<>> \in Seq(Item)
            BY <2>2, <2>3, EmptySeq
          <6> HIDE DEF r
          <6>2. QED
            BY <5>1, <6>1 DEF Queries
        <5>3. y = [l |-> y.l, q |-> y.q, authority |-> y.authority]
          <6> HIDE DEF y
          <6>1. QED
            BY <5>2 DEF Queries
        <5> HIDE DEF y, r
        <5>4. y = QueryOf(r)
          BY <5>2, <5>3 DEF QueryOf
        <5>5. QED
          BY <5>4 DEF y
      <4> HIDE DEF pq, r
      <4>2. ~(pq > Len(str))
        BY <2>2, <2>3
      <4>3. QED
        BY <2>1, <2>3, <4>1, <4>2 DEF pq, r
    <3>2. Agrees(query', items')
      BY <2>2, <2>3, <3>1, NewAgrees
    <3>3. Says(fullrequest', path', havequery', sent')
      BY <2>1, <2>3, <3>1 DEF Says, Shown
    <3>4. QED
      BY <1>0, <2>1, <2>2, <3>1, <3>2, <3>3 DEF IInv
  <2>4. CASE ~(pq <= Len(str))
    <3>1. query' = query /\ items' = items /\ sent' = <<>> /\ havequery' = FALSE
      <4>1. query' = query /\ items' = items /\ sent' = <<>>
        BY <2>1, <2>4
      <4>2. havequery' = FALSE
        <5>1. havequery' = (pq <= Len(str))
          BY <2>1
        <5>2. (pq <= Len(str)) = FALSE
          BY <2>4
        <5>3. QED
          BY <5>1, <5>2, Zenon
      <4>3. QED
        BY <4>1, <4>2
    <3>2. Agrees(query', items')
      BY <1>0, <3>1
    <3>3. Says(fullrequest', path', havequery', sent')
      BY <2>1, <2>4, <3>1 DEF Says
    <3>4. QED
      BY <1>0, <2>1, <2>2, <3>1, <3>2, <3>3 DEF IInv
  <2>5. QED
    BY <2>3, <2>4
<1>3. CASE NewQuery
  <2>1. UNCHANGED <<path, headers>> /\ fullrequest' = <<>> /\ fr_valid' = FALSE /\ havequery' = TRUE /\ sent' = items'
    BY <1>3 DEF NewQuery, SetQuery
  <2>2. Agrees(query', items')
    <3>1. CASE \E str \in Strings : SetQuery(QueryOf(str)) /\ items' = parse_query(str)
      BY <3>1, CallsTyped, NewAgrees DEF SetQuery
    <3>2. CASE \E k \in Keys, v \in Values :
                 SetQuery(QueryFromList(<<keyval(k, v)>>)) /\ items' = <<keyval(k, v)>>
      <4>1. PICK k \in Keys, v \in Values :
                 SetQuery(QueryFromList(<<keyval(k, v)>>)) /\ items' = <<keyval(k, v)>>
        BY <3>2
      <4>2. keyval(k, v) \in Item
        BY CallsTyped
      <4>3. QED
        BY <4>1, <4>2, NewAgrees DEF SetQuery
    <3>3. QED
      BY <1>3, <3>1, <3>2 DEF NewQuery
  <2>3. QED
    BY <1>0, <2>1, <2>2, CallsTyped DEF IInv
<1>4. CASE SetParam
  <2>1. PICK k \in Keys, v \in Values : Change(set(query, keyval(k, v)), SetItem(items, keyval(k, v)))
    BY <1>4 DEF SetParam
  <2>2. keyval(k, v) \in Item
    BY CallsTyped
  <2>3. Agrees(set(query, keyval(k, v)), SetItem(items, keyval(k, v)))
    BY <1>0, <2>2, ChangeAgrees
  <2>4. QED
    BY <1>c, <2>1, <2>3
<1>5. CASE AddParam
  <2>1. PICK kv \in Item : Change(add(query, kv), Append(items, kv))
    BY <1>5, CallsTyped DEF AddParam
  <2>2. Agrees(add(query, kv), Append(items, kv))
    BY <1>0, ChangeAgrees
  <2>3. QED
    BY <1>c, <2>1, <2>2
<1>6. CASE SetString
  <2>1. PICK str \in Str : Change(QueryOf(str), parse_query(str))
    BY <1>6, CallsTyped DEF SetString
  <2>2. QED
    BY <1>c, <2>1, NewAgrees
<1>7. CASE Param
  <2>1. Agrees(query', items)
    BY <1>0, <1>7, NeedAgrees DEF Param
  <2>2. QED
    BY <1>7, <1>q, <2>1 DEF Param
<1>8. CASE QueryString
  <2>1. Agrees(query', items)
    BY <1>0, <1>8, NeedAgrees DEF QueryString
  <2>2. QED
    BY <1>8, <1>q, <2>1 DEF QueryString
<1>9. CASE AddHeader
  <2>1. PICK k \in Names, v \in Lengthy : headers' = Append(headers, keyval(k, v))
    BY <1>9 DEF AddHeader
  <2>2. keyval(k, v) \in Header
    BY DEF Header
  <2>3. headers' \in Seq(Header)
    BY <1>0, <2>1, <2>2, HeaderSet
  <2>4. QED
    BY <1>9, <1>h, <2>3 DEF AddHeader
<1>10. CASE SetHeader
  <2>1. PICK k \in Names, v \in Lengthy : headers' = SetItem(headers, keyval(k, v))
    BY <1>10 DEF SetHeader
  <2>2. keyval(k, v) \in Header
    BY DEF Header
  <2>3. headers' \in Seq(Header)
    BY <1>0, <2>1, <2>2, HeaderSet
  <2>4. QED
    BY <1>10, <1>h, <2>3 DEF SetHeader
<1>11. CASE UNCHANGED vars
  <2>1. UNCHANGED <<request, query, items, sent>> /\ headers' = headers
    BY <1>11 DEF vars
  <2>2. QED
    BY <1>0, <1>h, <2>1
<1>12. QED
  BY <1>1, <1>2, <1>3, <1>4, <1>5, <1>6, <1>7, <1>8, <1>9, <1>10, <1>11 DEF Next

\* It holds always.
LEMMA Invariance == Spec => []IInv
BY InitIInv, NextIInv, PTL DEF Spec

\* Whichever form of the query is the authority, and however parameters were
\* added and set, written and read, param() finds what was set and added, and
\* so does who reads the text (query.h:28).
THEOREM ItemsKept == Spec => []QueryKeepsItems
<1>1. IInv => QueryKeepsItems
  <2> SUFFICES ASSUME IInv PROVE QueryKeepsItems
    OBVIOUS
  <2>1. Agrees(query, items)
    BY DEF IInv
  <2>2. QED
    BY <2>1, NeedAgrees DEF QueryKeepsItems, Shown
<1>2. QED
  BY <1>1, Invariance, PTL

-----------------------------------------------------------------------------
(* The lines of the headers. *)

\* Every line end is followed by a space.
Continued == {s \in Str : \A i \in 1..Len(s) : s[i] = LF => i < Len(s) /\ s[i + 1] = Space}

\* So are those of what is put together of such texts.
LEMMA ContinuedJoin == \A s \in Continued, t \in Continued : s \o t \in Continued
<1> SUFFICES ASSUME NEW s \in Continued, NEW t \in Continued PROVE s \o t \in Continued
  OBVIOUS
<1> DEFINE u == s \o t
           m == Len(s)
           n == Len(t)
<1>1. s \in Str /\ t \in Str /\ m \in Nat /\ n \in Nat
  BY LenProperties DEF Continued, Str
<1>2. (\A i \in 1..m : s[i] = LF => i < m /\ s[i + 1] = Space) /\ \A i \in 1..n : t[i] = LF => i < n /\ t[i + 1] = Space
  BY DEF Continued
<1>3. u \in Str /\ Len(u) = m + n /\ \A i \in 1..m + n : u[i] = IF i <= m THEN s[i] ELSE t[i - m]
  BY <1>1, ConcatProperties DEF Str
<1> HIDE DEF u, m, n
<1>4. ASSUME NEW i \in 1..m + n, u[i] = LF PROVE i < m + n /\ u[i + 1] = Space
  <2>1. CASE i <= m
    <3>1. i \in 1..m /\ s[i] = LF
      BY <1>1, <1>3, <1>4, <2>1
    <3>2. i < m /\ s[i + 1] = Space
      BY <1>2, <3>1
    <3>3. i + 1 \in 1..m + n /\ i + 1 <= m /\ i < m + n
      BY <1>1, <3>1, <3>2
    <3> DEFINE j == i + 1
    <3>4. j \in 1..m + n /\ j <= m
      BY <3>3
    <3> HIDE DEF j
    <3>5. u[j] = s[j]
      BY <1>3, <3>4
    <3>6. QED
      BY <3>2, <3>3, <3>5 DEF j
  <2>2. CASE ~(i <= m)
    <3>1. i - m \in 1..n /\ t[i - m] = LF
      BY <1>1, <1>3, <1>4, <2>2
    <3> DEFINE j == i - m
    <3>2. j < n /\ t[j + 1] = Space
      <4> HIDE DEF j
      <4>1. j \in 1..n /\ t[j] = LF
        BY <3>1 DEF j
      <4>2. QED
        BY <1>2, <4>1
    <3> DEFINE k == i + 1
    <3>3. k \in 1..m + n /\ ~(k <= m) /\ i < m + n /\ k - m = j + 1
      BY <1>1, <2>2, <3>1, <3>2
    <3> HIDE DEF j, k
    <3>4. u[k] = t[k - m]
      BY <1>3, <3>3
    <3>5. QED
      BY <3>2, <3>3, <3>4 DEF k
  <2>3. QED
    BY <2>1, <2>2
<1>5. u \in Continued
  BY <1>3, <1>4 DEF Continued
<1>6. QED
  BY <1>5 DEF u

\* A text without line ends is such a text.
LEMMA ContinuedWord == Seq(Byte \ {LF}) \subseteq Continued
<1> SUFFICES ASSUME NEW a \in Seq(Byte \ {LF}) PROVE a \in Continued
  OBVIOUS
<1>1. a \in Str
  <2>1. Byte \ {LF} \subseteq Byte
    OBVIOUS
  <2>2. QED
    BY <2>1, SeqMonotonic DEF Str
<1>2. \A i \in 1..Len(a) : a[i] # LF
  BY ElementOfSeq
<1>3. QED
  BY <1>1, <1>2 DEF Continued

\* What is written in the place of the character at k.
Continues(s, k) ==
  IF s[k] = LF \/ (s[k] = CR /\ k > 1 /\ s[k - 1] = CR) THEN <<CR, LF, Space>>
  ELSE IF s[k] = CR THEN <<>> ELSE <<s[k]>>

\* lineencode() writes a text of which every line end is followed by a space.
LEMMA LineEncoded == \A s \in Str : lineencode(s) \in Continued
<1> SUFFICES ASSUME NEW s \in Str PROVE lineencode(s) \in Continued
  OBVIOUS
<1> DEFINE ss == [k \in DOMAIN s |-> Continues(s, k)]
<1>1. lineencode(s) = FlattenSeq(ss)
  BY Zenon DEF lineencode, Continues
<1>2. <<CR, LF, Space>> \in Continued
  <2> DEFINE a == <<CR>>
             w == <<CR, LF, Space>>
  <2>1. CR \in Byte /\ LF \in Byte /\ Space \in Byte /\ CR # LF /\ Space # LF
    BY DEF CR, LF, Space, Byte
  <2>2. w \in Seq(Byte) /\ Len(w) = 3 /\ w[1] = CR /\ w[2] = LF /\ w[3] = Space
    BY <2>1
  <2> HIDE DEF w
  <2>3. ASSUME NEW i \in 1..3, w[i] = LF PROVE i < 3 /\ w[i + 1] = Space
    <3>1. i = 1 \/ i = 2 \/ i = 3
      OBVIOUS
    <3>2. i = 2
      BY <2>1, <2>2, <2>3, <3>1
    <3>3. QED
      BY <2>2, <3>2
  <2>4. w \in Continued
    BY <2>2, <2>3 DEF Continued, Str
  <2>5. QED
    BY <2>4 DEF w
<1>3. ASSUME NEW k \in DOMAIN s PROVE Continues(s, k) \in Continued
  <2>1. s[k] \in Byte
    BY LenProperties, ElementOfSeq DEF Str
  <2>2. <<>> \in Continued
    BY ContinuedWord, EmptySeq
  <2>3. ASSUME s[k] # LF PROVE <<s[k]>> \in Continued
    <3> DEFINE c == s[k]
    <3>1. c \in Byte \ {LF}
      BY <2>1, <2>3
    <3> HIDE DEF c
    <3>2. <<c>> \in Seq(Byte \ {LF})
      BY <3>1, One
    <3>3. QED
      BY <3>2, ContinuedWord DEF c
  <2>4. QED
    BY <1>2, <2>2, <2>3 DEF Continues
<1>4. ss \in Seq(Continued)
  <2>1. Len(s) \in Nat /\ DOMAIN s = 1..Len(s)
    BY LenProperties DEF Str
  <2>2. ss = [k \in 1..Len(s) |-> ss[k]] /\ \A k \in 1..Len(s) : ss[k] \in Continued
    BY <1>3, <2>1
  <2> HIDE DEF ss
  <2>3. ss \in [1..Len(s) -> Continued]
    BY <2>2
  <2>4. QED
    BY <2>1, <2>3, SeqDef
<1> DEFINE P == {tt \in Seq(Continued) : FlattenSeq(tt) \in Continued}
<1>5. <<>> \in P
  <2>1. <<>> \in Continued
    BY ContinuedWord, EmptySeq
  <2>2. QED
    BY <2>1, FlattenEmpty, EmptySeq
<1>6. ASSUME NEW tt \in P, NEW t \in Continued PROVE Append(tt, t) \in P
  <2>1. tt \in Seq(Continued) /\ FlattenSeq(tt) \in Continued
    OBVIOUS
  <2>2. Continued \subseteq Seq(Byte)
    BY DEF Continued, Str
  <2>3. tt \in Seq(Seq(Byte)) /\ t \in Seq(Byte)
    BY <2>1, <2>2, SeqMonotonic
  <2>4. FlattenSeq(Append(tt, t)) = FlattenSeq(tt) \o t
    BY <2>3, FlattenAppend
  <2>5. FlattenSeq(tt) \o t \in Continued
    BY <2>1, ContinuedJoin
  <2>6. Append(tt, t) \in Seq(Continued)
    BY <2>1, AppendProperties
  <2>7. QED
    BY <2>4, <2>5, <2>6
<1>7. P = Seq(Continued)
  <2>1. P \subseteq Seq(Continued)
    OBVIOUS
  <2> HIDE DEF P
  <2>2. QED
    BY <1>5, <1>6, <2>1, AppendInduction
<1> HIDE DEF ss
<1>8. QED
  BY <1>1, <1>4, <1>7

\* The lines that do not begin with a space.
Lead == [x \in Str |-> IF x[1] # Space THEN <<x>> ELSE <<>>]
Heads(s) == FlatMap(Lead, Split(s, LF))
\* The first line.
HeadOf(y) == SubSeq(y, 1, FindChar(y, LF) - 1)

\* They are sequences of lines.
LEMMA HeadsType ==
  /\ Lead \in [Str -> Seq(Str)] /\ Heads(<<>>) = <<>> /\ LF \in Byte
  /\ \A s \in Str : Heads(s) \in Seq(Str) /\ HeadOf(s) \in Str
<1>1. \A x \in Str : <<x>> \in Seq(Str) /\ <<>> \in Seq(Str)
  BY One, EmptySeq
<1>2. Lead \in [Str -> Seq(Str)]
  BY <1>1 DEF Lead
<1>3. Heads(<<>>) = <<>>
  BY SplitType, FlatMapEmpty DEF Heads
<1>4. ASSUME NEW s \in Str PROVE Heads(s) \in Seq(Str)
  BY <1>2, SplitType, FlatMapType DEF Heads
<1>5. ASSUME NEW s \in Str PROVE HeadOf(s) \in Str
  <2> DEFINE m == FindChar(s, LF)
  <2>1. Len(s) \in Nat /\ m \in 1..Len(s) + 1 /\ \A i \in 1..Len(s) : s[i] \in Byte
    BY FindCharIs, LenProperties, ElementOfSeq DEF FoundAt, Str
  <2> HIDE DEF m
  <2>2. 1 \in Int /\ m - 1 \in Int /\ \A i \in 1..(m - 1) : s[i] \in Byte
    BY <2>1
  <2>3. SubSeq(s, 1, m - 1) \in Seq(Byte)
    BY <2>2, SubSeqProperties
  <2>4. QED
    BY <2>3 DEF HeadOf, m, Str
<1>6. LF \in Byte
  BY DEF LF, Byte
<1>7. QED
  BY <1>2, <1>3, <1>4, <1>5, <1>6

\* A line before others.
LEMMA HeadsLine ==
  ASSUME NEW a \in Seq(Byte \ {LF}), NEW t \in Str
  PROVE  /\ Between(a, LF, t) \in Str /\ Heads(Between(a, LF, t)) = Lead[a] \o Heads(t)
         /\ HeadOf(a) = a /\ HeadOf(Between(a, LF, t)) = a /\ a \in Str
<1> DEFINE u == Between(a, LF, t)
           w == <<a>>
<1>1. a \in Str /\ LF \in Byte /\ Len(a) \in Nat
  <2>1. Byte \ {LF} \subseteq Byte
    OBVIOUS
  <2>2. QED
    BY <2>1, HeadsType, SeqMonotonic, LenProperties DEF Str
<1>2. u \in Str /\ Split(u, LF) = w \o Split(t, LF)
  BY <1>1, SplitJoin DEF Between
<1>3. w \in Seq(Str) /\ FlatMap(Lead, w) = Lead[a]
  <2>1. w \in Seq(Str)
    BY <1>1, One
  <2>2. FlatMap(Lead, w) = Lead[a]
    BY <1>1, HeadsType, FlatMapOne
  <2>3. QED
    BY <2>1, <2>2
<1> HIDE DEF w
<1>4. FlatJoins(Lead, w, Split(t, LF))
  BY <1>3, HeadsType, SplitType, FlatMapJoin
<1>5. Heads(u) = Lead[a] \o Heads(t)
  BY <1>2, <1>3, <1>4 DEF FlatJoins, Heads
<1>6. FindChar(a, LF) = Len(a) + 1 /\ FindChar(u, LF) = Len(a) + 1
  BY <1>1, FindCharAfter DEF Between, Str
<1>7. SubSeq(a, 1, Len(a)) = a
  BY <1>1, SubSeqFull DEF Str
<1>8. SubSeq(u, 1, Len(a)) = a
  BY <1>1, BetweenParts DEF Parted, Str
<1>9. Len(a) + 1 - 1 = Len(a)
  BY <1>1
<1> HIDE DEF u
<1>10. HeadOf(a) = a /\ HeadOf(u) = a
  BY <1>6, <1>7, <1>8, <1>9 DEF HeadOf
<1>11. QED
  BY <1>1, <1>2, <1>5, <1>10 DEF u

\* What there is to see of the lines of a text, of which every line end is
\* followed by a space, and of what comes after it.
HeadFirst(y, r) == Between(y, LF, r) \in Str /\ Heads(Between(y, LF, r)) = Lead[HeadOf(y)] \o Heads(r)
\* Only its first line, and what is seen of what comes after it.
LEMMA HeadsBefore == \A y \in Continued, r \in Str : HeadFirst(y, r)
<1> SUFFICES ASSUME NEW r \in Str PROVE \A y \in Continued : HeadFirst(y, r)
  OBVIOUS
<1> DEFINE P == {y \in Str : y \in Continued => HeadFirst(y, r)}
           W == Seq(Byte \ {LF})
<1>1. ASSUME NEW a \in W PROVE a \in P
  BY HeadsLine DEF HeadFirst
<1>2. ASSUME NEW a \in W, NEW z \in P PROVE Between(a, LF, z) \in P
  <2> DEFINE y == Between(a, LF, z)
             x == Between(z, LF, r)
  <2>0. z \in Str /\ (z \in Continued => HeadFirst(z, r)) /\ LF \in Byte /\ a \in Str
    BY HeadsType, HeadsLine
  <2>1. y \in Str /\ HeadOf(y) = a /\ Lead[a] \in Seq(Str)
    BY <2>0, HeadsType, HeadsLine
  <2>2. ASSUME y \in Continued PROVE HeadFirst(y, r)
    <3>1. Parted(y, a, LF, z, Byte)
      BY <2>0, BetweenParts DEF Str
    <3>2. /\ Len(y) = Len(a) + Len(z) + 1 /\ Len(a) \in Nat /\ Len(z) \in Nat /\ y[Len(a) + 1] = LF
          /\ \A i \in 1..Len(z) : y[Len(a) + 1 + i] = z[i]
      BY <3>1 DEF Parted
    <3> HIDE DEF y
    <3>3. \A i \in 1..Len(y) : y[i] = LF => i < Len(y) /\ y[i + 1] = Space
      BY <2>2 DEF Continued
    <3>4. Len(z) > 0 /\ z[1] = Space
      <4> DEFINE i == Len(a) + 1
      <4>1. i \in 1..Len(y) /\ y[i] = LF
        BY <3>2
      <4> HIDE DEF i
      <4>2. i < Len(y) /\ y[i + 1] = Space
        BY <3>3, <4>1
      <4>3. 1 \in 1..Len(z)
        BY <3>2, <4>2 DEF i
      <4>4. y[i + 1] = z[1]
        BY <3>2, <4>3 DEF i
      <4>5. QED
        BY <4>2, <4>3, <4>4
    <3>5. z \in Continued
      <4>1. ASSUME NEW i \in 1..Len(z), z[i] = LF PROVE i < Len(z) /\ z[i + 1] = Space
        <5> DEFINE k == Len(a) + 1 + i
        <5>1. k \in 1..Len(y) /\ y[k] = LF
          BY <3>2, <4>1
        <5> HIDE DEF k
        <5>2. k < Len(y) /\ y[k + 1] = Space
          BY <3>3, <5>1
        <5> DEFINE j == i + 1
        <5>3. j \in 1..Len(z) /\ k + 1 = Len(a) + 1 + j /\ i < Len(z)
          BY <3>2, <5>2 DEF k
        <5> HIDE DEF j
        <5>4. y[Len(a) + 1 + j] = z[j]
          BY <3>2, <5>3
        <5>5. QED
          BY <5>2, <5>3, <5>4 DEF j
      <4>2. QED
        BY <2>0, <4>1 DEF Continued
    <3>6. HeadFirst(z, r)
      BY <2>0, <3>5
    <3>7. x \in Str /\ Heads(x) = Lead[HeadOf(z)] \o Heads(r)
      BY <3>6 DEF HeadFirst
    <3>8. Lead[HeadOf(z)] = <<>>
      <4> DEFINE m == FindChar(z, LF)
                 h == HeadOf(z)
      <4>1. FoundAt(z, LF, m)
        BY <2>0, FindCharIs DEF Str
      <4>2. Space # LF
        BY DEF Space, LF
      <4>3. m \in 1..Len(z) + 1 /\ m # 1
        BY <3>2, <3>4, <4>1, <4>2 DEF FoundAt
      <4>4. h = SubSeq(z, 1, m - 1)
        BY DEF HeadOf
      <4> HIDE DEF m, h
      <4>5. h[1] = z[1]
        <5>1. 1 \in Int /\ m - 1 \in Int /\ (\A i \in 1..(m - 1) : z[i] \in Byte) /\ 1 \in 1..(m - 1) - 1 + 1
          <6>1. \A i \in 1..(m - 1) : i \in 1..Len(z)
            BY <3>2, <4>3
          <6>2. \A i \in 1..Len(z) : z[i] \in Byte
            BY <2>0, ElementOfSeq DEF Str
          <6>3. QED
            BY <3>2, <4>3, <6>1, <6>2
        <5>2. \A i \in 1..(m - 1) - 1 + 1 : SubSeq(z, 1, m - 1)[i] = z[1 + i - 1]
          BY <5>1, SubSeqProperties
        <5>3. 1 + 1 - 1 = 1
          OBVIOUS
        <5>4. QED
          BY <4>4, <5>1, <5>2, <5>3
      <4>6. h \in Str
        BY <2>0, HeadsType DEF h
      <4>7. QED
        BY <3>4, <4>5, <4>6 DEF Lead, h
    <3>9. Heads(x) = Heads(r)
      BY <3>7, <3>8, HeadsType, ConcatEmptySeq
    <3>10. Between(y, LF, r) = Between(a, LF, x)
      BY <2>0, BetweenThree DEF y, Str
    <3>11. Between(a, LF, x) \in Str /\ Heads(Between(a, LF, x)) = Lead[a] \o Heads(x)
      BY <3>7, HeadsLine
    <3> HIDE DEF x
    <3>12. QED
      BY <2>1, <3>9, <3>10, <3>11 DEF HeadFirst
  <2>3. QED
    BY <2>1, <2>2
<1>3. Words(P, LF, Byte)
  <2>1. P \subseteq Seq(Byte)
    BY DEF Str
  <2>2. \A a \in W, z \in P : a \o (<<LF>> \o z) \in P
    BY <1>2 DEF Between
  <2>3. W \subseteq P
    BY <1>1
  <2> HIDE DEF P
  <2>4. QED
    BY <2>1, <2>2, <2>3, HeadsType DEF Words
<1> HIDE DEF P
<1>4. P = Seq(Byte)
  BY <1>3, WordInduction
<1>5. Continued \subseteq Str
  BY DEF Continued
<1>6. QED
  BY <1>4, <1>5 DEF P, Str

\* The first line of a text that begins with a name.
LEMMA FirstLine ==
  ASSUME NEW k \in Seq(Byte \ {LF}), k # <<>> => k[1] # Space,
         NEW b \in Byte \ {LF, Space}, NEW z \in Str
  PROVE  LET h == HeadOf(Between(k, b, z)) IN h[1] # Space /\ SubSeq(h, 1, Len(k)) = k
<1> DEFINE y == Between(k, b, z)
           n == Len(k)
           m == FindChar(y, LF)
           h == HeadOf(y)
<1>0. k \in Seq(Byte) /\ b \in Byte /\ b # LF /\ b # Space /\ \A i \in 1..n : k[i] # LF
  <2>1. Byte \ {LF} \subseteq Byte
    OBVIOUS
  <2>2. k \in Seq(Byte)
    BY <2>1, SeqMonotonic
  <2>3. \A i \in 1..n : k[i] \in Byte \ {LF}
    BY ElementOfSeq
  <2>4. QED
    BY <2>2, <2>3
<1>1. Parted(y, k, b, z, Byte)
  BY <1>0, BetweenParts DEF Str
<1>2. /\ y \in Seq(Byte) /\ n \in Nat /\ Len(z) \in Nat /\ Len(y) = n + Len(z) + 1
      /\ y[n + 1] = b /\ \A i \in 1..n : y[i] = k[i]
  BY <1>1 DEF Parted
<1> HIDE DEF y
<1>3. FoundAt(y, LF, m)
  BY <1>2, FindCharIs
<1>4. m \in 1..Len(y) + 1 /\ (m <= Len(y) => y[m] = LF)
  BY <1>3 DEF FoundAt
<1>5. h = SubSeq(y, 1, m - 1)
  BY DEF HeadOf
<1> HIDE DEF m, h
<1>6. m > n + 1
  <2> SUFFICES ASSUME m <= n + 1 PROVE FALSE
    BY <1>2, <1>4
  <2>1. m \in 1..n \/ m = n + 1
    BY <1>2, <1>4
  <2>2. m <= Len(y) /\ y[m] = LF
    BY <1>2, <1>4, <2>1
  <2>3. QED
    BY <1>0, <1>2, <2>1, <2>2
<1>7. h \in Seq(Byte) /\ Len(h) = m - 1 /\ \A i \in 1..(m - 1) : h[i] = y[i]
  <2>1. \A i \in 1..(m - 1) : i \in 1..Len(y)
    BY <1>2, <1>4
  <2>2. 1 \in Int /\ m - 1 \in Int /\ \A i \in 1..(m - 1) : y[i] \in Byte
    BY <1>2, <1>4, <2>1, ElementOfSeq
  <2>3. /\ SubSeq(y, 1, m - 1) \in Seq(Byte)
        /\ Len(SubSeq(y, 1, m - 1)) = IF 1 <= m - 1 THEN m - 1 - 1 + 1 ELSE 0
        /\ \A i \in 1..(m - 1 - 1 + 1) : SubSeq(y, 1, m - 1)[i] = y[1 + i - 1]
    BY <2>2, SubSeqProperties
  <2>4. (IF 1 <= m - 1 THEN m - 1 - 1 + 1 ELSE 0) = m - 1 /\ m - 1 - 1 + 1 = m - 1
    BY <1>4
  <2>5. \A i \in 1..(m - 1) : 1 + i - 1 = i
    OBVIOUS
  <2>6. QED
    BY <1>5, <2>3, <2>4, <2>5
<1>8. \A i \in 1..n : i \in 1..(m - 1) /\ h[i] = k[i]
  <2>1. \A i \in 1..n : i \in 1..(m - 1)
    BY <1>2, <1>4, <1>6
  <2>2. QED
    BY <1>2, <1>7, <2>1
<1>9. h[1] # Space
  <2>1. 1 \in 1..(m - 1)
    BY <1>2, <1>4, <1>6
  <2>2. CASE n = 0
    <3>1. n + 1 = 1
      BY <2>2
    <3>2. QED
      BY <1>0, <1>2, <1>7, <2>1, <3>1
  <2>3. CASE n # 0
    <3>1. 1 \in 1..n /\ k # <<>>
      BY <1>0, <1>2, <2>3, EmptySeq
    <3>2. QED
      BY <1>8, <3>1
  <2>4. QED
    BY <2>2, <2>3
<1>10. SubSeq(h, 1, n) = k
  <2> DEFINE v == SubSeq(h, 1, n)
  <2>1. 1 \in Int /\ n \in Int /\ \A i \in 1..n : h[i] \in Byte
    BY <1>0, <1>2, <1>8, ElementOfSeq
  <2>2. /\ SubSeq(h, 1, n) \in Seq(Byte)
        /\ Len(SubSeq(h, 1, n)) = IF 1 <= n THEN n - 1 + 1 ELSE 0
        /\ \A i \in 1..(n - 1 + 1) : SubSeq(h, 1, n)[i] = h[1 + i - 1]
    BY <2>1, SubSeqProperties
  <2>3. (IF 1 <= n THEN n - 1 + 1 ELSE 0) = n /\ n - 1 + 1 = n
    BY <1>2
  <2>4. \A i \in 1..n : 1 + i - 1 = i
    OBVIOUS
  <2>5. v \in Seq(Byte) /\ Len(v) = n /\ \A i \in 1..n : v[i] = h[i]
    BY <2>2, <2>3, <2>4
  <2> HIDE DEF v
  <2>6. v = k
    BY <1>0, <1>8, <2>5, SeqEqual
  <2>7. QED
    BY <2>6 DEF v
<1>11. QED
  BY <1>9, <1>10 DEF h, y

\* The text of a header, and that text up to its last character.
HeaderText(h) == h.key \o <<58, Space>> \o lineencode(h.val) \o <<CR, LF>>
Body(h) == Between(h.key, 58, (<<Space>> \o lineencode(h.val)) \o <<CR>>)

\* The text ends its last line, which every line end within continues.
HeaderEnds(h, r) == HeaderText(h) \o r = Between(Body(h), LF, r) /\ HeaderText(h) \in Str
\* It does; and its first line begins with the name.
LEMMA HeaderLines ==
  ASSUME NEW h \in Header
  PROVE  /\ Body(h) \in Continued /\ \A r \in Str : HeaderEnds(h, r)
         /\ HeadOf(Body(h))[1] # Space
         /\ SubSeq(HeadOf(Body(h)), 1, Len(h.key)) = h.key
<1>1. PICK k \in Names, v \in Lengthy : h.key = k /\ h.val = v
  BY DEF Header, keyval
<1>2. k \in Seq(Byte \ {LF}) /\ (k # <<>> => k[1] # Space) /\ k \in Seq(Byte)
  <2>1. k \in Seq(Byte) /\ \A i \in DOMAIN k : k[i] # 10 /\ (i = 1 => k[i] # Space)
    BY NamesAssumption
  <2>2. DOMAIN k = 1..Len(k) /\ \A i \in 1..Len(k) : k[i] \in Byte
    BY <2>1, LenProperties, ElementOfSeq
  <2>3. \A i \in 1..Len(k) : k[i] \in Byte \ {LF}
    BY <2>1, <2>2 DEF LF
  <2>4. k \in Seq(Byte \ {LF})
    BY <2>1, <2>3, ElementsIn
  <2>5. ASSUME k # <<>> PROVE k[1] # Space
    <3>1. Len(k) \in Nat \ {0}
      BY <2>1, <2>5, EmptySeq
    <3>2. 1 \in 1..Len(k)
      BY <3>1
    <3>3. QED
      BY <2>1, <2>2, <3>2
  <2>6. QED
    BY <2>1, <2>4, <2>5
<1> DEFINE a == <<58>>
           s == <<Space>>
           l == lineencode(v)
           c == <<CR>>
           e == <<LF>>
           z == (s \o l) \o c
<1>3. 58 \in Byte \ {LF, Space} /\ LF \in Byte /\ 58 \in Byte
  BY DEF LF, Space, Byte
<1>4. a \in Seq(Byte \ {LF}) /\ s \in Seq(Byte \ {LF}) /\ c \in Seq(Byte \ {LF})
      /\ a \in Seq(Byte) /\ s \in Seq(Byte) /\ c \in Seq(Byte) /\ e \in Seq(Byte)
  <2>1. 58 \in Byte \ {LF} /\ Space \in Byte \ {LF} /\ CR \in Byte \ {LF}
    BY DEF LF, Space, CR, Byte
  <2>2. Space \in Byte /\ CR \in Byte
    BY <2>1
  <2>3. QED
    BY <1>3, <2>1, <2>2, One
<1>5. l \in Continued /\ l \in Seq(Byte)
  BY CallsTyped, LineEncoded DEF Continued, Str
<1>6. <<58, Space>> = a \o s /\ <<CR, LF>> = c \o e
  <2>1. Space \in Byte /\ LF \in Byte /\ CR \in Byte
    BY DEF Space, LF, CR, Byte
  <2> HIDE DEF Byte
  <2>2. <<58>> \o <<Space>> = <<58, Space>>
    BY <1>3, <2>1, Pair
  <2>3. <<CR>> \o <<LF>> = <<CR, LF>>
    BY <2>1, Pair
  <2>4. QED
    BY <2>2, <2>3
<1>b. Body(h) = k \o (a \o z)
  BY <1>1 DEF Body, Between
<1>t. HeaderText(h) = k \o (a \o s) \o l \o (c \o e)
  BY <1>1, <1>6 DEF HeaderText
<1> HIDE DEF a, s, l, c, e
<1>7. s \o l \in Seq(Byte) /\ z \in Seq(Byte)
  <2>1. s \o l \in Seq(Byte)
    BY <1>4, <1>5, ConcatProperties
  <2>2. QED
    BY <1>4, <2>1, ConcatProperties
<1>8. a \o z \in Seq(Byte) /\ k \o (a \o z) \in Seq(Byte)
  <2> HIDE DEF z
  <2>1. a \o z \in Seq(Byte)
    BY <1>4, <1>7, ConcatProperties
  <2>2. QED
    BY <1>2, <2>1, ConcatProperties
<1>9. Body(h) \in Continued
  <2>1. k \in Continued /\ a \in Continued /\ s \in Continued /\ c \in Continued
    BY <1>2, <1>4, ContinuedWord
  <2>2. s \o l \in Continued
    BY <1>5, <2>1, ContinuedJoin
  <2>3. z \in Continued
    BY <2>1, <2>2, ContinuedJoin
  <2> HIDE DEF z
  <2>4. a \o z \in Continued
    BY <2>1, <2>3, ContinuedJoin
  <2>5. k \o (a \o z) \in Continued
    BY <2>1, <2>4, ContinuedJoin
  <2>6. QED
    BY <1>b, <2>5
<1>10. HeaderText(h) = Body(h) \o e
  <2> DEFINE x == k \o (a \o s)
             y == a \o s
             w == c \o e
             u == s \o l
  <2>1. y \in Seq(Byte) /\ w \in Seq(Byte)
    BY <1>4, ConcatProperties
  <2>2. Associates(a, s, l) /\ Associates(a, u, c)
    BY <1>4, <1>5, <1>7, JoinAssociates
  <2> HIDE DEF y, w
  <2>3. k \o y \in Seq(Byte) /\ y \o l \in Seq(Byte)
    BY <1>2, <1>5, <2>1, ConcatProperties
  <2>4. Associates(k, y, l)
    BY <1>2, <1>5, <2>1, JoinAssociates
  <2> DEFINE j == y \o l
  <2>5. j \in Seq(Byte)
    BY <2>3
  <2> HIDE DEF j
  <2>6. k \o j \in Seq(Byte) /\ j \o c \in Seq(Byte)
    BY <1>2, <1>4, <2>5, ConcatProperties
  <2> DEFINE i == k \o j
  <2>7. i \in Seq(Byte)
    BY <2>6
  <2> HIDE DEF i
  <2>8. Associates(i, c, e) /\ Associates(k, j, c)
    BY <1>2, <1>4, <2>5, <2>7, JoinAssociates
  <2>9. HeaderText(h) = (k \o y) \o l \o w
    BY <1>t DEF y, w
  <2>10. (k \o y) \o l = i
    BY <2>4 DEF Associates, i, j
  <2>11. HeaderText(h) = (i \o c) \o e
    BY <2>8, <2>9, <2>10 DEF Associates, w
  <2>12. i \o c = k \o (j \o c)
    BY <2>8 DEF Associates, i
  <2>13. j = a \o u
    BY <2>2 DEF Associates, j, y
  <2>14. (a \o u) \o c = a \o z
    BY <2>2 DEF Associates
  <2> HIDE DEF u, z
  <2>15. i \o c = Body(h)
    BY <1>b, <2>12, <2>13, <2>14
  <2>16. QED
    BY <2>11, <2>15
<1>11. ASSUME NEW r \in Str PROVE HeaderEnds(h, r)
  <2> DEFINE y == Body(h)
  <2>1. y \in Seq(Byte) /\ r \in Seq(Byte)
    BY <1>9 DEF Continued, Str
  <2> HIDE DEF y
  <2>2. y \o e \in Seq(Byte)
    BY <1>4, <2>1, ConcatProperties
  <2>3. Associates(y, e, r)
    BY <1>4, <2>1, JoinAssociates
  <2>4. QED
    BY <1>10, <2>2, <2>3 DEF Associates, HeaderEnds, Between, e, y, Str
<1>12. z \in Str /\ Body(h) = Between(k, 58, z)
  BY <1>7, <1>b DEF Str, Between, a
<1> HIDE DEF z
<1>13. HeadOf(Body(h))[1] # Space /\ SubSeq(HeadOf(Body(h)), 1, Len(k)) = k
  BY <1>2, <1>3, <1>12, FirstLine
<1>14. QED
  BY <1>1, <1>9, <1>11, <1>13

HText == [h \in Header |-> HeaderText(h)]
HLine == [h \in Header |-> HeadOf(Body(h))]

\* The lines of the headers that do not begin with a space are the first lines
\* of the headers.
LEMMA HeadsOfHeaders ==
  ASSUME NEW l \in Seq(Header)
  PROVE  asstring(l) \in Str /\ Heads(asstring(l)) = Mapped(HLine, l)
<1>1. HText \in [Header -> Seq(Byte)] /\ HLine \in [Header -> Str]
  <2>1. ASSUME NEW h \in Header PROVE HeaderText(h) \in Seq(Byte) /\ HeadOf(Body(h)) \in Str
    <3>1. <<>> \in Str
      BY EmptySeq DEF Str
    <3>2. HeaderText(h) \in Str /\ Body(h) \in Continued
      BY <3>1, HeaderLines DEF HeaderEnds
    <3>3. QED
      BY <3>2, HeadsType DEF Continued, Str
  <2>2. QED
    BY <2>1 DEF HText, HLine
<1>2. asstring(l) = FlatMap(HText, l)
  <2>1. DOMAIN l = 1..Len(l) /\ \A k \in 1..Len(l) : l[k] \in Header
    BY LenProperties, ElementOfSeq
  <2>2. [k \in DOMAIN l |-> l[k].key \o <<58, Space>> \o lineencode(l[k].val) \o <<CR, LF>>] = Mapped(HText, l)
    BY <2>1 DEF Mapped, HText, HeaderText
  <2>3. QED
    BY <2>2, Zenon DEF asstring, FlatMap
<1> DEFINE P == {m \in Seq(Header) : Heads(FlatMap(HText, m)) = Mapped(HLine, m)}
<1>3. <<>> \in P
  <2>1. Mapped(HLine, <<>>) = <<>>
    BY DEF Mapped
  <2>2. QED
    BY <2>1, HeadsType, FlatMapEmpty, EmptySeq
<1>4. ASSUME NEW m \in P, NEW h \in Header PROVE <<h>> \o m \in P
  <2> DEFINE w == <<h>>
             r == FlatMap(HText, m)
  <2>1. m \in Seq(Header) /\ Heads(r) = Mapped(HLine, m)
    OBVIOUS
  <2>2. w \in Seq(Header) /\ Mapped(HLine, w) = <<HLine[h]>>
    BY One DEF Mapped
  <2>3. FlatMap(HText, w) = HText[h]
    BY <1>1, FlatMapOne
  <2> HIDE DEF w
  <2>4. FlatJoins(HText, w, m) /\ MapJoins(HLine, w, m)
    BY <1>1, <2>1, <2>2, FlatMapJoin, MappedJoin
  <2>5. r \in Str
    BY <1>1, <2>1, FlatMapType DEF Str
  <2>6. FlatMap(HText, w \o m) = HeaderText(h) \o r
    BY <2>3, <2>4 DEF FlatJoins, HText
  <2> HIDE DEF r
  <2>7. HeaderEnds(h, r) /\ HeadFirst(Body(h), r)
    BY <2>5, HeaderLines, HeadsBefore
  <2>8. Heads(HeaderText(h) \o r) = Lead[HeadOf(Body(h))] \o Heads(r)
    BY <2>7 DEF HeaderEnds, HeadFirst
  <2>9. Lead[HeadOf(Body(h))] = <<HLine[h]>>
    BY <1>1, HeaderLines DEF Lead, HLine
  <2>10. Mapped(HLine, w \o m) = <<HLine[h]>> \o Mapped(HLine, m)
    BY <2>2, <2>4 DEF MapJoins
  <2>11. w \o m \in Seq(Header)
    BY <2>1, <2>2, ConcatProperties
  <2>12. QED
    BY <2>1, <2>6, <2>8, <2>9, <2>10, <2>11 DEF w
<1>5. P = Seq(Header)
  <2>1. P \subseteq Seq(Header)
    OBVIOUS
  <2> HIDE DEF P
  <2>2. QED
    BY <1>3, <1>4, <2>1, ConsInduction
<1>6. FlatMap(HText, l) \in Str
  BY <1>1, FlatMapType DEF Str
<1>7. QED
  BY <1>2, <1>5, <1>6

\* A reader of the message finds what its parts are: in the first line the path
\* and the parameters (request.h:56), which after request(str) are those of str,
\* whatever setparam() and addparam() do then, and one line for every header,
\* which begins with its name, whatever the values are.
THEOREM PartsRead == Spec => []MessageMeansParts
<1>1. IInv => MessageMeansParts
  <2> SUFFICES ASSUME IInv PROVE MessageMeansParts
    OBVIOUS
  <2>0. /\ Agrees(query, items) /\ path \in Path /\ headers \in Seq(Header)
        /\ fr_valid \in BOOLEAN /\ havequery \in BOOLEAN /\ (havequery /\ ~fr_valid => sent = items)
    BY DEF IInv
  <2> DEFINE q == need_q(query).q
             text == RequestText(need_q(query))
             at == FindChar(text, Question)
  <2>1. ASSUME query.authority # "other", path # <<>>
        PROVE  /\ SubSeq(text, 1, at - 1) = path
               /\ at <= Len(text) => Visible(parse_query(From(text, at + 1))) = Visible(sent)
               /\ at > Len(text) => sent = <<>>
    <3>1. q \in Str /\ Shown(q) = Visible(items)
      BY <2>0, <2>1, NeedAgrees DEF Agrees, Queries
    <3>2. CASE fr_valid
      <4>1. text = fullrequest
        BY <3>2 DEF RequestText
      <4> HIDE DEF text
      <4>2. Says(text, path, havequery, sent) /\ text \in Str
        BY <2>1, <3>2, <4>1 DEF IInv
      <4>3. at \in Nat /\ Len(text) \in Nat
        BY <4>2, FindCharIs, LenProperties DEF FoundAt, Str
      <4>4. /\ SubSeq(text, 1, at - 1) = path /\ (havequery <=> at <= Len(text))
            /\ (havequery => Shown(From(text, at + 1)) = Visible(sent)) /\ (~havequery => sent = <<>>)
        BY <2>1, <4>2 DEF Says
      <4>5. at > Len(text) <=> ~(at <= Len(text))
        BY <4>3
      <4> HIDE DEF at
      <4>6. QED
        BY <4>4, <4>5 DEF Shown
    <3>3. CASE ~fr_valid /\ havequery
      <4> HIDE DEF q
      <4>1. text = path \o (<<Question>> \o q)
        BY <3>3 DEF RequestText, q
      <4> HIDE DEF text
      <4>2. /\ at = Len(path) + 1 /\ Len(path) \in Nat /\ Len(path) + 1 <= Len(text)
            /\ SubSeq(text, 1, Len(path)) = path /\ From(text, Len(path) + 2) = q
        BY <2>0, <3>1, <4>1, MadeText
      <4>3. Len(path) + 1 - 1 = Len(path) /\ Len(path) + 1 + 1 = Len(path) + 2
        BY <4>2
      <4>4. text \in Seq(Byte) /\ Len(text) \in Nat
        <5>1. Byte \ {Question} \subseteq Byte /\ Question \in Byte
          BY DEF Byte, Question
        <5>2. path \in Seq(Byte) /\ q \in Seq(Byte)
          BY <2>0, <3>1, <5>1, SeqMonotonic DEF Path, Str
        <5>3. <<Question>> \o q \in Seq(Byte)
          BY <5>1, <5>2, ConsElements
        <5>4. text \in Seq(Byte)
          BY <4>1, <5>2, <5>3, ConcatProperties
        <5>5. QED
          BY <5>4, LenProperties
      <4>5. ~(at > Len(text))
        BY <4>2, <4>4
      <4> HIDE DEF at
      <4>6. sent = items
        BY <2>0, <3>3
      <4>7. QED
        BY <3>1, <4>2, <4>3, <4>5, <4>6 DEF Shown
    <3>4. CASE ~fr_valid /\ ~havequery
      <4> HIDE DEF q
      <4>0. /\ FindChar(path, Question) = Len(path) + 1 /\ Len(path) \in Nat
            /\ SubSeq(path, 1, Len(path)) = path /\ path \o <<>> = path
        BY <2>0, <3>1, MadeText
      <4>1. text = path
        BY <3>4, <4>0 DEF RequestText
      <4> HIDE DEF text
      <4>2. at = Len(text) + 1 /\ Len(text) \in Nat /\ SubSeq(text, 1, Len(text)) = text
        BY <4>0, <4>1
      <4>3. Len(text) + 1 - 1 = Len(text) /\ ~(at <= Len(text))
        BY <4>2
      <4>4. sent = <<>>
        BY <2>1, <3>4 DEF IInv
      <4> HIDE DEF at
      <4>5. QED
        BY <4>1, <4>2, <4>3, <4>4
    <3>5. QED
      BY <3>2, <3>3, <3>4
  <2> DEFINE rows == Split(asstring(headers), LF)
             first == Filter(rows, LAMBDA s : s[1] # Space)
  <2>2. first = Mapped(HLine, headers)
    <3>1. rows \in Seq(Str) /\ Heads(asstring(headers)) = Mapped(HLine, headers)
      BY <2>0, HeadsOfHeaders, SplitType
    <3>2. Heads(asstring(headers)) = FlatMap(Lead, rows)
      BY DEF Heads
    <3> HIDE DEF rows
    <3>3. DOMAIN rows = 1..Len(rows) /\ \A k \in 1..Len(rows) : rows[k] \in Str
      BY <3>1, LenProperties, ElementOfSeq
    <3>4. [k \in DOMAIN rows |-> IF rows[k][1] # Space THEN <<rows[k]>> ELSE <<>>] = Mapped(Lead, rows)
      BY <3>3 DEF Mapped, Lead
    <3>5. first = FlatMap(Lead, rows)
      BY <3>4, Zenon DEF Filter, FlatMap
    <3>6. QED
      BY <3>1, <3>2, <3>5
  <2> HIDE DEF first, rows
  <2>3. HLine \in [Header -> Str]
    BY HeaderLines, HeadsType DEF HLine, Continued
  <2>4. MapsTo(first, HLine, headers, Str)
    BY <2>0, <2>2, <2>3, MappedElements
  <2>5. Len(first) = Len(headers) /\ first \in Seq(Str) /\ \A k \in 1..Len(headers) : first[k] = HLine[headers[k]]
    BY <2>4 DEF MapsTo
  <2>6. ASSUME NEW k \in DOMAIN first PROVE SubSeq(first[k], 1, Len(headers[k].key)) = headers[k].key
    <3>1. k \in 1..Len(headers)
      BY <2>5, LenProperties
    <3>2. headers[k] \in Header
      BY <2>0, <3>1, ElementOfSeq
    <3>3. first[k] = HeadOf(Body(headers[k]))
      BY <2>5, <3>1, <3>2 DEF HLine
    <3>4. QED
      BY <3>2, <3>3, HeaderLines
  <2>7. QED
    BY <2>0, <2>1, <2>5, <2>6 DEF MessageMeansParts, first, rows
<1>2. QED
  BY <1>1, Invariance, PTL

-----------------------------------------------------------------------------
(* readline() returns the lines sendline() was given.  The argument: the   *)
(* bytes that have not been returned yet are in readline's answer, in the  *)
(* wire and in sendline's hands, in this order, and joined they are the    *)
(* line with its end or nothing.                                           *)

\* The answer of a readline() that is running.
Ans == IF reader = "idle" THEN <<>> ELSE answer

\* Underway is a, w and o one after the other.
Underway(a, w, o) == (a \o w) \o o

HasEol(s) == \E k \in DOMAIN s : s[k] = Eol
EolFree == {s \in Seq(Byte) : ~HasEol(s)}

\* No line is on its way, or x is: the last line, or what is left of it.
Quiet == Len(lines) = Len(got) /\ Underway(Ans, wire, out) = <<>>
Carrying(x) ==
  /\ Len(lines) = Len(got) + 1 /\ PartOf(x, Len(lines))
  /\ Underway(Ans, wire, out) = Append(x, Eol)

\* What has been returned.
Returned == \A k \in 1..Len(got) : PartOf(got[k], k)

LineTypes ==
  /\ lines \in Seq(EolFree) /\ got \in Seq(EolFree)
  /\ out \in Seq(Byte) /\ wire \in Seq(Byte) /\ answer \in Seq(Byte)

\* The inductive invariant.
LInv ==
  /\ LineTypes /\ Returned
  /\ Quiet \/ \E x \in EolFree : Carrying(x)
  /\ reader # "idle" => ~HasEol(answer)
  /\ reader = "failed" => sender = "gone" /\ wire = <<>>

-----------------------------------------------------------------------------
(* Sequences of bytes. *)

\* What the arguments of sendline() are.
LEMMA TextsEolFree == Texts \subseteq EolFree
BY LineAssumption DEF EolFree, HasEol, Byte

\* What has no line end is a sequence of bytes.
LEMMA EolFreeBytes ==
  ASSUME NEW x \in EolFree
  PROVE  x \in Seq(Byte) /\ Len(x) \in Nat /\ \A i \in 1..Len(x) : x[i] \in Byte /\ x[i] # Eol
BY LenProperties, ElementOfSeq DEF EolFree, HasEol

\* An end of an end of x is an end of x, and it has no line end.
LEMMA EndOfEnd ==
  ASSUME NEW x \in EolFree, NEW y \in EolFree, y \in Suffixes(x), NEW n \in 0..Len(y)
  PROVE  SubSeq(y, n + 1, Len(y)) \in Suffixes(x) /\ SubSeq(y, n + 1, Len(y)) \in EolFree
<1> DEFINE z == SubSeq(y, n + 1, Len(y))
<1>0. Len(x) \in Nat /\ Len(y) \in Nat /\ x \in Seq(Byte) /\ y \in Seq(Byte)
  BY EolFreeBytes
<1>1. CASE n = Len(y)
  <2>1. z = <<>>
    BY <1>0, <1>1, SubSeqEmpty
  <2>2. QED
    BY <2>1, EmptySeq DEF Suffixes, EolFree, HasEol
<1>2. CASE n # Len(y)
  <2>1. y # <<>>
    BY <1>0, <1>2, EmptySeq
  <2>2. PICK l \in 1..Len(x) : y = SubSeq(x, l, Len(x))
    BY <2>1 DEF Suffixes
  <2>3. \A i \in l..Len(x) : x[i] \in Byte
    BY <1>0, EolFreeBytes
  <2>4. /\ Len(y) = Len(x) - l + 1
        /\ \A i \in 1..Len(y) : y[i] = x[l + i - 1]
    BY <1>0, <2>2, <2>3, SubSeqProperties
  <2>5. \A i \in n + 1..Len(y) : y[i] \in Byte
    BY EolFreeBytes
  <2>6. /\ z \in Seq(Byte) /\ Len(z) = Len(y) - n
        /\ \A i \in 1..Len(z) : z[i] = y[n + i]
    <3>1. /\ z \in Seq(Byte) /\ Len(z) = (IF n + 1 <= Len(y) THEN Len(y) - (n + 1) + 1 ELSE 0)
          /\ \A i \in 1..(Len(y) - (n + 1) + 1) : z[i] = y[(n + 1) + i - 1]
      BY <1>0, <2>5, SubSeqProperties
    <3>2. QED
      BY <1>0, <3>1
  <2>7. z \in EolFree
    <3>1. \A i \in 1..Len(z) : z[i] # Eol
      BY <1>0, <2>6, EolFreeBytes
    <3>2. QED
      BY <2>6, <3>1, LenProperties DEF EolFree, HasEol
  <2>8. l + n \in 1..Len(x)
    BY <1>0, <1>2, <2>2, <2>4
  <2>9. z = SubSeq(x, l + n, Len(x))
    <3> DEFINE v == SubSeq(x, l + n, Len(x))
    <3>1. \A i \in l + n..Len(x) : x[i] \in Byte
      BY <1>0, <2>3
    <3>2. /\ v \in Seq(Byte) /\ Len(v) = Len(x) - (l + n) + 1
          /\ \A i \in 1..(Len(x) - (l + n) + 1) : v[i] = x[(l + n) + i - 1]
      BY <1>0, <2>8, <3>1, SubSeqProperties
    <3> HIDE DEF v, z
    <3>3. Len(v) = Len(z)
      BY <1>0, <2>4, <2>6, <3>2
    <3>4. ASSUME NEW i \in 1..Len(z) PROVE v[i] = z[i]
      <4>1. n + i \in 1..Len(y) /\ i \in 1..(Len(x) - (l + n) + 1) /\ l + (n + i) - 1 = (l + n) + i - 1
        BY <1>0, <2>4, <2>6
      <4>2. QED
        BY <2>4, <2>6, <3>2, <4>1
    <3>5. v = z
      BY <2>6, <3>2, <3>3, <3>4, SeqEqual
    <3>6. QED
      BY <3>5 DEF v
  <2>10. QED
    BY <2>7, <2>8, <2>9 DEF Suffixes
<1>3. QED
  BY <1>1, <1>2

\* A sequence cut after n elements: both parts, and that they join again.
LEMMA CutBytes ==
  ASSUME NEW s \in Seq(Byte), NEW n \in 0..Len(s)
  PROVE  /\ SubSeq(s, 1, n) \in Seq(Byte) /\ SubSeq(s, n + 1, Len(s)) \in Seq(Byte)
         /\ SubSeq(s, 1, n) \o SubSeq(s, n + 1, Len(s)) = s
<1>1. Len(s) \in Nat /\ \A i \in 1..Len(s) : s[i] \in Byte
  BY LenProperties, ElementOfSeq
<1>2. SubSeq(s, 1, n) \in Seq(Byte)
  <2>1. \A i \in 1..n : s[i] \in Byte
    BY <1>1
  <2>2. QED
    BY <1>1, <2>1, SubSeqProperties
<1>3. SubSeq(s, n + 1, Len(s)) \in Seq(Byte)
  <2>1. \A i \in n + 1..Len(s) : s[i] \in Byte
    BY <1>1
  <2>2. n + 1 \in Int /\ Len(s) \in Int
    BY <1>1
  <2>3. QED
    BY <2>1, <2>2, SubSeqProperties
<1>4. SubSeq(s, 1, n) \o SubSeq(s, n + 1, Len(s)) = s
  <2>1. 1 \in 1..Len(s) + 1 /\ n \in 1 - 1..Len(s) /\ Len(s) \in n..Len(s)
    BY <1>1
  <2>2. SubSeq(s, 1, n) \o SubSeq(s, n + 1, Len(s)) = SubSeq(s, 1, Len(s))
    BY <2>1, ConcatAdjacentSubSeq
  <2>3. QED
    BY <2>2, SubSeqFull
<1>5. QED
  BY <1>2, <1>3, <1>4

\* a, h and b may be grouped either way.
Regroups(a, h, b) == (a \o h) \o b = a \o (h \o b)

\* As any sequences may.
LEMMA Regroup ==
  ASSUME NEW a \in Seq(Byte), NEW h \in Seq(Byte), NEW b \in Seq(Byte)
  PROVE  Regroups(a, h, b)
BY ConcatAssociative DEF Regroups

\* What is moved from the front of o to the end of w stays where it was.
LEMMA MoveToWire ==
  ASSUME NEW a \in Seq(Byte), NEW w \in Seq(Byte), NEW o \in Seq(Byte), NEW n \in 0..Len(o)
  PROVE  Underway(a, w \o SubSeq(o, 1, n), SubSeq(o, n + 1, Len(o))) = Underway(a, w, o)
<1> DEFINE h == SubSeq(o, 1, n)
           b == SubSeq(o, n + 1, Len(o))
           v == a \o w
<1>1. h \in Seq(Byte) /\ b \in Seq(Byte) /\ h \o b = o
  BY CutBytes
<1>2. v \in Seq(Byte)
  BY ConcatProperties
<1> HIDE DEF h, b, v
<1>3. Regroups(a, w, h)
  BY <1>1, Regroup
<1>4. Regroups(v, h, b)
  BY <1>1, <1>2, Regroup
<1>5. a \o (w \o h) = v \o h
  BY <1>3 DEF Regroups, v
<1>6. Underway(a, w \o h, b) = v \o o
  BY <1>1, <1>4, <1>5 DEF Underway, Regroups
<1>7. QED
  BY <1>6 DEF Underway, h, b, v

\* The same from the front of w to the end of a.
LEMMA MoveToAnswer ==
  ASSUME NEW a \in Seq(Byte), NEW w \in Seq(Byte), NEW o \in Seq(Byte), NEW n \in 0..Len(w)
  PROVE  Underway(a \o SubSeq(w, 1, n), SubSeq(w, n + 1, Len(w)), o) = Underway(a, w, o)
<1> DEFINE h == SubSeq(w, 1, n)
           b == SubSeq(w, n + 1, Len(w))
<1>1. h \in Seq(Byte) /\ b \in Seq(Byte) /\ h \o b = w
  BY CutBytes
<1> HIDE DEF h, b
<1>2. Regroups(a, h, b)
  BY <1>1, Regroup
<1>3. (a \o h) \o b = a \o w
  BY <1>1, <1>2 DEF Regroups
<1>4. Underway(a \o h, b, o) = Underway(a, w, o)
  BY <1>3 DEF Underway
<1>5. QED
  BY <1>4 DEF h, b

\* Nothing joined is nothing anywhere.
LEMMA NothingJoined ==
  ASSUME NEW a \in Seq(Byte), NEW w \in Seq(Byte), NEW o \in Seq(Byte)
  PROVE  Underway(a, w, o) = <<>> <=> a = <<>> /\ w = <<>> /\ o = <<>>
<1>1. a \o w \in Seq(Byte)
  BY ConcatProperties
<1>2. QED
  BY <1>1, ConcatEqualIffEmpty DEF Underway

\* A first part of a line that holds a line end is the whole line.
LEMMA EolIsLast ==
  ASSUME NEW x \in EolFree, NEW a \in Seq(Byte), NEW w \in Seq(Byte), NEW o \in Seq(Byte),
         Underway(a, w, o) = Append(x, Eol), NEW k \in 1..Len(a), a[k] = Eol
  PROVE  k = Len(x) + 1 /\ a = Append(x, Eol) /\ w = <<>> /\ o = <<>>
<1>1. x \in Seq(Byte) /\ Len(x) \in Nat /\ \A i \in 1..Len(x) : x[i] # Eol
  BY EolFreeBytes
<1>2. Eol \in Byte
  BY DEF Eol, Byte
<1>3. /\ Len(Append(x, Eol)) = Len(x) + 1
      /\ \A i \in 1..Len(x) : Append(x, Eol)[i] = x[i]
  BY <1>1, <1>2, AppendProperties
<1>4. a \o w \in Seq(Byte) /\ Len(a \o w) = Len(a) + Len(w)
      /\ (a \o w)[k] = a[k] /\ Len(a) \in Nat /\ Len(w) \in Nat /\ Len(o) \in Nat
  BY ConcatProperties, LenProperties
<1>5. /\ Len(Underway(a, w, o)) = Len(a) + Len(w) + Len(o)
      /\ Underway(a, w, o)[k] = a[k]
  <2>1. /\ Len((a \o w) \o o) = Len(a \o w) + Len(o)
        /\ \A i \in 1..Len(a \o w) + Len(o) :
             ((a \o w) \o o)[i] = IF i <= Len(a \o w) THEN (a \o w)[i] ELSE o[i - Len(a \o w)]
    BY <1>4, ConcatProperties
  <2>2. k \in 1..Len(a \o w) + Len(o) /\ k <= Len(a \o w)
    BY <1>4
  <2>3. QED
    BY <1>4, <2>1, <2>2 DEF Underway
<1>6. k = Len(x) + 1 /\ Len(w) = 0 /\ Len(o) = 0
  BY <1>1, <1>3, <1>4, <1>5
<1>7. w = <<>> /\ o = <<>>
  BY <1>6, EmptySeq
<1>8. Underway(a, <<>>, <<>>) = a
  BY ConcatEmptySeq DEF Underway
<1>9. QED
  BY <1>6, <1>7, <1>8

\* What the rest of the line is when its first part is dropped.
LEMMA DropAnswer ==
  ASSUME NEW x \in EolFree, NEW a \in Seq(Byte), NEW w \in Seq(Byte), NEW o \in Seq(Byte),
         Underway(a, w, o) = Append(x, Eol), ~HasEol(a)
  PROVE  Len(a) \in 0..Len(x) /\ Underway(<<>>, w, o) = Append(SubSeq(x, Len(a) + 1, Len(x)), Eol)
<1> DEFINE n == Len(a)
           z == SubSeq(x, n + 1, Len(x))
           u == Underway(a, w, o)
           v == Underway(<<>>, w, o)
<1>0. /\ x \in Seq(Byte) /\ Len(x) \in Nat /\ \A i \in 1..Len(x) : x[i] \in Byte
      /\ Eol \in Byte /\ n \in Nat
      /\ Append(x, Eol) \in Seq(Byte) /\ Len(Append(x, Eol)) = Len(x) + 1
      /\ \A i \in 1..Len(x) : Append(x, Eol)[i] = x[i]
      /\ Append(x, Eol)[Len(x) + 1] = Eol
  BY EolFreeBytes, LenProperties, AppendProperties DEF Eol, Byte
<1>1. u = a \o v /\ v \in Seq(Byte)
  <2>1. Regroups(a, w, o) /\ Regroups(<<>>, w, o)
    BY EmptySeq, Regroup
  <2>2. w \o o \in Seq(Byte) /\ <<>> \o (w \o o) = w \o o
    BY ConcatProperties, ConcatEmptySeq
  <2>3. QED
    BY <2>1, <2>2 DEF Underway, Regroups
<1>2. /\ Len(u) = n + Len(v) /\ Len(v) \in Nat
      /\ \A i \in 1..n + Len(v) : u[i] = IF i <= n THEN a[i] ELSE v[i - n]
  BY <1>1, ConcatProperties, LenProperties
<1> HIDE DEF u, v
<1>3. u = Append(x, Eol)
  BY DEF u
<1>4. n <= Len(x)
  <2> SUFFICES ASSUME n > Len(x) PROVE FALSE
    BY <1>0
  <2>1. n = Len(x) + 1
    BY <1>0, <1>2, <1>3
  <2>2. a[n] = Eol
    BY <1>0, <1>2, <1>3, <2>1
  <2>3. n \in DOMAIN a
    BY <1>0, <2>1, LenProperties
  <2>4. QED
    BY <2>2, <2>3 DEF HasEol
<1>5. /\ z \in Seq(Byte) /\ Len(z) = Len(x) - n
      /\ \A i \in 1..Len(z) : z[i] = x[n + i]
  <2>1. \A i \in n + 1..Len(x) : x[i] \in Byte
    BY <1>0
  <2>2. /\ z \in Seq(Byte) /\ Len(z) = (IF n + 1 <= Len(x) THEN Len(x) - (n + 1) + 1 ELSE 0)
        /\ \A i \in 1..(Len(x) - (n + 1) + 1) : z[i] = x[(n + 1) + i - 1]
    BY <1>0, <2>1, SubSeqProperties
  <2>3. QED
    BY <1>0, <1>4, <2>2
<1> HIDE DEF z
<1>6. /\ Append(z, Eol) \in Seq(Byte) /\ Len(Append(z, Eol)) = Len(z) + 1
      /\ \A i \in 1..Len(z) : Append(z, Eol)[i] = z[i]
      /\ Append(z, Eol)[Len(z) + 1] = Eol
  BY <1>0, <1>5, AppendProperties
<1>7. Len(v) = Len(z) + 1
  BY <1>0, <1>2, <1>3, <1>5
<1>8. ASSUME NEW i \in 1..Len(v) PROVE v[i] = Append(z, Eol)[i]
  <2>1. /\ n + i \in 1..n + Len(v) /\ ~(n + i <= n) /\ (n + i) - n = i
        /\ n + i \in 1..Len(x) + 1
    BY <1>0, <1>2, <1>5, <1>7
  <2>2. v[i] = Append(x, Eol)[n + i]
    BY <1>2, <1>3, <2>1
  <2>3. CASE i = Len(z) + 1
    BY <1>0, <1>5, <1>6, <2>2, <2>3
  <2>4. CASE i # Len(z) + 1
    <3>0. i \in 1..Len(z) + 1 /\ Len(z) = Len(x) - n /\ n \in Nat /\ Len(x) \in Nat
      BY <1>0, <1>5, <1>7
    <3>1. i \in 1..Len(z) /\ n + i \in 1..Len(x)
      <4> HIDE DEF n
      <4>1. QED
        BY <1>4, <2>4, <3>0
    <3>2. QED
      BY <1>0, <1>5, <1>6, <2>2, <3>1
  <2>5. QED
    BY <2>3, <2>4
<1>9. v = Append(z, Eol)
  BY <1>1, <1>6, <1>7, <1>8, SeqEqual
<1>10. QED
  BY <1>0, <1>4, <1>9 DEF z, v
-----------------------------------------------------------------------------
(* The steps. *)

\* Nothing has been sent, and nobody reads.
LEMMA LineInitLInv == LineInit => LInv
<1> SUFFICES ASSUME LineInit PROVE LInv
  OBVIOUS
<1>1. LineTypes
  BY EmptySeq DEF LineInit, LineTypes
<1>2. Quiet
  <2>1. Underway(<<>>, <<>>, <<>>) = <<>>
    BY EmptySeq, NothingJoined
  <2>2. QED
    BY <2>1 DEF LineInit, Quiet, Ans
<1>3. Returned
  BY EmptySeq DEF LineInit, Returned
<1>4. QED
  BY <1>1, <1>2, <1>3 DEF LInv, LineInit

\* What the two lists have to do with each other tells which case it is.
LEMMA WhichCase ==
  ASSUME LInv
  PROVE  /\ Len(got) = Len(lines) => Quiet
         /\ wire # <<>> => \E x \in EolFree : Carrying(x)
         /\ Ans \in Seq(Byte)
<1>1. Ans \in Seq(Byte)
  BY EmptySeq DEF LInv, LineTypes, Ans
<1>2. ASSUME NEW x \in EolFree, Carrying(x) PROVE Len(got) # Len(lines)
  <2>1. Len(lines) = Len(got) + 1 /\ Len(got) \in Nat
    BY <1>2, LenProperties DEF Carrying, LInv, LineTypes
  <2>2. QED
    BY <2>1
<1>3. Quiet => wire = <<>>
  BY <1>1, NothingJoined DEF Quiet, LInv, LineTypes
<1>4. QED
  BY <1>1, <1>2, <1>3 DEF LInv

\* Every step keeps the invariant.
LEMMA LineStep == LInv /\ [LineNext]_linevars => LInv'
<1> SUFFICES ASSUME LInv, [LineNext]_linevars PROVE LInv'
  OBVIOUS
<1>0. /\ Ans \in Seq(Byte) /\ wire \in Seq(Byte) /\ out \in Seq(Byte) /\ answer \in Seq(Byte)
      /\ lines \in Seq(EolFree) /\ got \in Seq(EolFree) /\ Returned
      /\ Len(lines) \in Nat /\ Len(got) \in Nat
  BY WhichCase, LenProperties DEF LInv, LineTypes
<1>1. CASE UNCHANGED linevars
  BY <1>1 DEF linevars, LInv, LineTypes, Returned, PartOf, Quiet, Carrying, Ans, HasEol
<1>2. CASE SendLine
  <2>1. Quiet
    BY <1>2, WhichCase DEF SendLine
  <2>2. Ans = <<>> /\ wire = <<>> /\ Len(lines) = Len(got)
    BY <1>0, <2>1, NothingJoined DEF Quiet
  <2>3. PICK x \in Texts : lines' = Append(lines, x) /\ out' = Append(x, Eol)
    BY <1>2 DEF SendLine
  <2>4. /\ Append(x, Eol) \in Seq(Byte) /\ lines' \in Seq(EolFree)
        /\ Len(lines') = Len(lines) + 1 /\ lines'[Len(lines) + 1] = x
        /\ \A k \in 1..Len(lines) : lines'[k] = lines[k]
    <3>1. x \in Seq(Byte) /\ x \in EolFree /\ Eol \in Byte
      BY TextsEolFree, EolFreeBytes DEF Byte, Eol
    <3>2. QED
      BY <1>0, <2>3, <3>1, AppendProperties
  <2>5. Ans' = <<>> /\ wire' = <<>> /\ got' = got /\ torn' = torn
    BY <1>2, <2>2 DEF SendLine, Ans
  <2>6. Carrying(x)'
    <3>1. <<>> \o <<>> = <<>> /\ <<>> \o Append(x, Eol) = Append(x, Eol)
      BY <2>4, EmptySeq, ConcatEmptySeq
    <3>2. Underway(<<>>, <<>>, Append(x, Eol)) = Append(x, Eol)
      BY <3>1 DEF Underway
    <3>3. x \in Suffixes(x)
      <4>1. x \in Seq(Byte) /\ Len(x) \in Nat
        BY TextsEolFree, EolFreeBytes
      <4>2. SubSeq(x, 1, Len(x)) = x
        BY <4>1, SubSeqFull
      <4>3. x = <<>> \/ 1 \in 1..Len(x)
        BY <4>1, EmptySeq
      <4>4. QED
        BY <4>2, <4>3 DEF Suffixes
    <3>4. Len(lines') = Len(got') + 1 /\ lines'[Len(lines')] = x
      BY <2>2, <2>4, <2>5
    <3>5. QED
      BY <2>3, <2>5, <3>2, <3>3, <3>4 DEF Carrying, PartOf
  <2>7. LineTypes'
    BY <1>0, <1>2, <2>3, <2>4 DEF SendLine, LineTypes
  <2>8. Returned'
    BY <1>0, <2>2, <2>4, <2>5 DEF Returned, PartOf
  <2>9. x \in EolFree
    BY TextsEolFree
  <2>10. QED
    BY <1>2, <2>6, <2>7, <2>8, <2>9 DEF SendLine, LInv, HasEol
<1>3. CASE WriteSome
  <2>1. PICK n \in 0..Len(out) : /\ wire' = wire \o SubSeq(out, 1, n)
                                  /\ out' = SubSeq(out, n + 1, Len(out))
    <3>1. PICK n \in 1..(IF Len(out) = 1 THEN 1 ELSE Len(out) - 1) :
            /\ wire' = wire \o SubSeq(out, 1, n)
            /\ out' = SubSeq(out, n + 1, Len(out))
      BY <1>3 DEF WriteSome
    <3>2. Len(out) \in Nat
      BY <1>0, LenProperties
    <3>3. n \in 0..Len(out)
      BY <3>2
    <3>4. QED
      BY <3>1, <3>3
  <2>2. Underway(Ans, wire', out') = Underway(Ans, wire, out)
    BY <1>0, <2>1, MoveToWire
  <2>3. /\ Ans' = Ans /\ lines' = lines /\ got' = got /\ answer' = answer /\ reader' = reader
        /\ torn' = torn
    BY <1>3 DEF WriteSome, Ans
  <2>4. Returned' /\ (Quiet' \/ \E x \in EolFree : Carrying(x)')
    BY <2>2, <2>3 DEF LInv, Quiet, Carrying, Returned, PartOf
  <2>5. LineTypes'
    <3>1. SubSeq(out, 1, n) \in Seq(Byte) /\ out' \in Seq(Byte)
      BY <1>0, <2>1, CutBytes
    <3>2. wire' \in Seq(Byte)
      BY <1>0, <2>1, <3>1, ConcatProperties
    <3>3. QED
      BY <1>0, <2>3, <3>1, <3>2 DEF LineTypes
  <2>6. reader # "failed"
    BY <1>3 DEF WriteSome, LInv
  <2>7. QED
    BY <2>3, <2>4, <2>5, <2>6 DEF LInv, HasEol
<1>4. CASE WriteFails \/ Shutdown
  BY <1>4 DEF WriteFails, Shutdown, LInv, LineTypes, Returned, PartOf, Quiet, Carrying, Ans, HasEol
<1>5. CASE ReadLine
  <2>1. Ans' = Ans /\ reader' = "reading" /\ answer' = <<>>
        /\ lines' = lines /\ got' = got /\ out' = out /\ wire' = wire /\ torn' = torn
    BY <1>5 DEF ReadLine, Ans
  <2>2. Returned' /\ (Quiet' \/ \E x \in EolFree : Carrying(x)')
    BY <2>1 DEF LInv, Quiet, Carrying, Returned, PartOf
  <2>3. LineTypes'
    BY <1>0, <2>1, EmptySeq DEF LineTypes
  <2>4. ~HasEol(<<>>)
    BY DEF HasEol
  <2>5. QED
    BY <2>1, <2>2, <2>3, <2>4 DEF LInv
<1>6. CASE ReadSome
  <2>1. PICK n \in 0..Len(wire) : /\ wire' = SubSeq(wire, n + 1, Len(wire))
                                   /\ answer' = answer \o SubSeq(wire, 1, n)
    <3>1. PICK n \in 1..Chunk : /\ n <= Len(wire)
                               /\ wire' = SubSeq(wire, n + 1, Len(wire))
                               /\ answer' = answer \o SubSeq(wire, 1, n)
      BY <1>6 DEF ReadSome, Collected
    <3>2. n \in 0..Len(wire)
      BY <1>0, <3>1, LenProperties, LineAssumption
    <3>3. QED
      BY <3>1, <3>2
  <2>2. /\ reader = "reading" /\ wire # <<>> /\ out' = out /\ lines' = lines /\ sender' = sender
        /\ torn' = torn
    BY <1>6 DEF ReadSome
  <2>3. Ans = answer
    BY <2>2 DEF Ans
  <2>4. Underway(answer', wire', out) = Underway(Ans, wire, out)
    BY <1>0, <2>1, <2>3, MoveToAnswer
  <2>5. answer' \in Seq(Byte) /\ wire' \in Seq(Byte)
    <3>1. SubSeq(wire, 1, n) \in Seq(Byte) /\ wire' \in Seq(Byte)
      BY <1>0, <2>1, CutBytes
    <3>2. QED
      BY <1>0, <2>1, <3>1, ConcatProperties
  <2>6. PICK x \in EolFree : Carrying(x)
    BY <2>2, WhichCase
  <2>7. /\ Underway(answer', wire', out') = Append(x, Eol)
        /\ Len(lines) = Len(got) + 1 /\ PartOf(x, Len(lines))
    BY <2>2, <2>4, <2>6 DEF Carrying
  <2>8. CASE ~HasEol(answer')
    <3>1. got' = got /\ reader' = reader
      BY <1>6, <2>8 DEF ReadSome, HasEol
    <3>2. Carrying(x)'
      BY <2>2, <2>7, <3>1 DEF Carrying, Ans, PartOf
    <3>3. LineTypes' /\ Returned'
      BY <1>0, <2>2, <2>5, <3>1 DEF LineTypes, Returned, PartOf
    <3>4. QED
      BY <2>2, <2>8, <3>1, <3>2, <3>3 DEF LInv
  <2>9. CASE HasEol(answer')
    <3> DEFINE First(k) == answer'[k] = Eol /\ \A j \in 1..(k - 1) : answer'[j] # Eol
    <3>1. DOMAIN answer' = 1..Len(answer') /\ Len(answer') \in Nat
      BY <2>5, LenProperties
    <3>2. \A k \in DOMAIN answer' : answer'[k] = Eol =>
            k = Len(x) + 1 /\ answer' = Append(x, Eol) /\ wire' = <<>> /\ out' = <<>>
      <4> SUFFICES ASSUME NEW k \in 1..Len(answer'), answer'[k] = Eol
                   PROVE  /\ k = Len(x) + 1 /\ answer' = Append(x, Eol)
                          /\ wire' = <<>> /\ out' = <<>>
        BY <3>1
      <4>1. out' \in Seq(Byte)
        BY <1>0, <2>2
      <4>2. QED
        BY <2>5, <2>7, <4>1, EolIsLast, ZenonT(30)
    <3>3. answer' = Append(x, Eol) /\ wire' = <<>> /\ out' = <<>>
      BY <2>9, <3>2 DEF HasEol
    <3>4. x \in Seq(Byte) /\ Len(x) \in Nat /\ Eol \in Byte
          /\ \A i \in 1..Len(x) : x[i] \in Byte /\ x[i] # Eol
      BY EolFreeBytes DEF Byte, Eol
    <3>5. /\ Len(x) + 1 \in DOMAIN answer'
          /\ answer'[Len(x) + 1] = Eol
          /\ \A j \in 1..Len(x) : answer'[j] = x[j]
      BY <3>1, <3>3, <3>4, AppendProperties
    <3>6. First(Len(x) + 1) /\ Len(x) + 1 - 1 = Len(x)
      BY <3>4, <3>5
    <3> DEFINE K == CHOOSE k \in DOMAIN answer' : First(k)
    <3>7. K = Len(x) + 1
      BY <3>2, <3>5, <3>6
    <3>8. got' = Append(got, SubSeq(answer', 1, K - 1)) /\ reader' = "idle"
      BY <1>6, <2>9 DEF ReadSome, HasEol
    <3>9. SubSeq(answer', 1, Len(x)) = x
      <4>1. \A i \in 1..Len(x) : answer'[i] \in Byte
        BY <3>4, <3>5
      <4>2. /\ SubSeq(answer', 1, Len(x)) \in Seq(Byte)
            /\ Len(SubSeq(answer', 1, Len(x))) = Len(x)
            /\ \A i \in 1..Len(x) : SubSeq(answer', 1, Len(x))[i] = x[i]
        <5>1. /\ SubSeq(answer', 1, Len(x)) \in Seq(Byte)
              /\ Len(SubSeq(answer', 1, Len(x))) = IF 1 <= Len(x) THEN Len(x) - 1 + 1 ELSE 0
              /\ \A i \in 1..Len(x) - 1 + 1 : SubSeq(answer', 1, Len(x))[i] = answer'[1 + i - 1]
          BY <3>4, <4>1, SubSeqProperties
        <5>2. QED
          BY <3>4, <3>5, <5>1
      <4>3. QED
        BY <3>4, <4>2, SeqEqual
    <3>10. got' = Append(got, x)
      <4> HIDE DEF K
      <4>1. K - 1 = Len(x)
        BY <3>6, <3>7
      <4>2. QED
        BY <3>8, <3>9, <4>1, Zenon
    <3>11. Quiet'
      <4>1. Ans' = <<>>
        BY <3>8 DEF Ans
      <4>2. Underway(<<>>, <<>>, <<>>) = <<>>
        BY EmptySeq, NothingJoined
      <4>3. Len(lines') = Len(got')
        BY <1>0, <2>2, <2>7, <3>10, AppendProperties
      <4>4. QED
        BY <3>3, <4>1, <4>2, <4>3 DEF Quiet
    <3>12. LineTypes' /\ Returned'
      <4>1. /\ got' \in Seq(EolFree) /\ Len(got') = Len(got) + 1 /\ got'[Len(got) + 1] = x
            /\ \A k \in 1..Len(got) : got'[k] = got[k]
        BY <1>0, <3>10, AppendProperties
      <4>2. Returned'
        <5> SUFFICES ASSUME NEW k \in 1..Len(got) + 1 PROVE PartOf(got'[k], k)
          BY <2>2, <4>1 DEF Returned, PartOf
        <5>1. CASE k = Len(got) + 1
          BY <2>2, <2>7, <4>1, <5>1 DEF PartOf
        <5>2. CASE k # Len(got) + 1
          <6>1. k \in 1..Len(got)
            BY <1>0, <5>2
          <6>2. QED
            BY <1>0, <2>2, <4>1, <6>1 DEF Returned, PartOf
        <5>3. QED
          BY <5>1, <5>2
      <4>3. QED
        BY <1>0, <2>2, <2>5, <4>1, <4>2 DEF LineTypes
    <3>13. QED
      BY <3>8, <3>11, <3>12 DEF LInv
  <2>10. QED
    BY <2>8, <2>9
<1>7. CASE ReadEnd
  BY <1>7 DEF ReadEnd, LInv, LineTypes, Returned, PartOf, Quiet, Carrying, Ans, HasEol
<1>8. CASE ReadFails
  <2>1. /\ reader = "reading" /\ reader' = "idle" /\ answer' = <<>> /\ Ans = answer /\ Ans' = <<>>
        /\ lines' = lines /\ out' = out /\ wire' = wire /\ got' = got
        /\ torn' = IF answer = <<>> THEN torn ELSE torn \cup {Len(got) + 1}
    BY <1>8 DEF ReadFails, Ans
  <2>2. LineTypes' /\ Returned'
    <3>1. \A k : k \notin torn' => k \notin torn
      BY <2>1
    <3>2. QED
      BY <1>0, <2>1, <3>1, EmptySeq DEF LineTypes, Returned, PartOf
  <2>3. CASE Quiet
    <3>1. Ans = <<>>
      BY <1>0, <2>3, NothingJoined DEF Quiet
    <3>2. Quiet'
      BY <2>1, <2>3, <3>1 DEF Quiet
    <3>3. QED
      BY <2>1, <2>2, <3>2 DEF LInv
  <2>4. ASSUME NEW x \in EolFree, Carrying(x) PROVE LInv'
    <3>0. PICK y : y = SubSeq(x, Len(answer) + 1, Len(x))
      OBVIOUS
    <3>1. Underway(answer, wire, out) = Append(x, Eol) /\ ~HasEol(answer)
      BY <2>1, <2>4 DEF Carrying, LInv
    <3>2. Len(answer) \in 0..Len(x) /\ Underway(<<>>, wire, out) = Append(y, Eol)
      BY <1>0, <3>0, <3>1, DropAnswer
    <3>3. /\ Len(lines) \in 1..Len(lines) /\ lines[Len(lines)] \in EolFree
          /\ x \in Suffixes(lines[Len(lines)])
      <4>1. Len(lines) \in 1..Len(lines)
        BY <1>0, <2>4 DEF Carrying
      <4>2. QED
        BY <1>0, <2>4, <4>1, ElementOfSeq DEF Carrying, PartOf
    <3>4. y \in Suffixes(lines[Len(lines)]) /\ y \in EolFree
      BY <3>0, <3>2, <3>3, EndOfEnd
    <3>5. CASE answer = <<>>
      <4>1. x \in Seq(Byte) /\ Len(x) \in Nat /\ Len(answer) + 1 = 1
        BY <3>5, EolFreeBytes, EmptySeq
      <4>2. y = x
        BY <3>0, <4>1, SubSeqFull
      <4>3. PartOf(y, Len(lines))'
        BY <2>1, <2>4, <3>5, <4>2 DEF Carrying, PartOf
      <4>4. Carrying(y)'
        BY <2>1, <2>4, <3>2, <4>3 DEF Carrying
      <4>5. QED
        BY <2>1, <2>2, <3>4, <4>4 DEF LInv
    <3>6. CASE answer # <<>>
      <4>1. Len(lines) \in torn'
        BY <2>1, <2>4, <3>6 DEF Carrying
      <4>2. PartOf(y, Len(lines))'
        BY <2>1, <3>4, <4>1 DEF PartOf
      <4>3. Carrying(y)'
        BY <2>1, <2>4, <3>2, <4>2 DEF Carrying
      <4>4. QED
        BY <2>1, <2>2, <3>4, <4>3 DEF LInv
    <3>7. QED
      BY <3>5, <3>6
  <2>5. QED
    BY <2>3, <2>4 DEF LInv
<1>9. QED
  BY <1>1, <1>2, <1>3, <1>4, <1>5, <1>6, <1>7, <1>8 DEF LineNext

\* The invariant says what the property says.
LEMMA LInvLines == LInv => LinesArrive
<1> SUFFICES ASSUME LInv PROVE LinesArrive
  OBVIOUS
<1>0. /\ Ans \in Seq(Byte) /\ wire \in Seq(Byte) /\ out \in Seq(Byte) /\ answer \in Seq(Byte)
      /\ lines \in Seq(EolFree) /\ got \in Seq(EolFree) /\ Len(got) \in Nat /\ Len(lines) \in Nat
      /\ \A k \in 1..Len(got) : PartOf(got[k], k)
  BY WhichCase, LenProperties DEF LInv, LineTypes, Returned
<1>1. CASE Quiet
  <2>1. wire = <<>> /\ out = <<>> /\ Len(lines) = Len(got)
    BY <1>0, <1>1, NothingJoined DEF Quiet
  <2>2. QED
    BY <1>0, <2>1 DEF LinesArrive
<1>2. ASSUME NEW x \in EolFree, Carrying(x) PROVE LinesArrive
  <2>1. /\ Len(lines) = Len(got) + 1 /\ PartOf(x, Len(lines))
        /\ Underway(Ans, wire, out) = Append(x, Eol)
    BY <1>2 DEF Carrying
  <2>2. ~(reader = "failed" /\ out = <<>>)
    <3> SUFFICES ASSUME reader = "failed", out = <<>> PROVE FALSE
      OBVIOUS
    <3>1. wire = <<>> /\ ~HasEol(answer) /\ Ans = answer
      BY DEF LInv, Ans
    <3>2. answer = Append(x, Eol)
      BY <1>0, <2>1, <3>1, ConcatEmptySeq DEF Underway
    <3>3. x \in Seq(Byte) /\ Eol \in Byte /\ Len(x) \in Nat
      BY EolFreeBytes DEF Byte, Eol
    <3>4. Len(x) + 1 \in DOMAIN answer /\ answer[Len(x) + 1] = Eol
      BY <3>2, <3>3, AppendProperties, LenProperties
    <3>5. QED
      BY <3>1, <3>4 DEF HasEol
  <2>3. (IF reader = "idle" THEN <<>> ELSE answer) \o wire \o out = Append(x, Eol)
    BY <2>1 DEF Underway, Ans
  <2>4. x \in Suffixes(lines[Len(lines)])
    BY <2>1 DEF PartOf
  <2>5. Len(lines) <= Len(got) + 1 /\ Len(got) # Len(lines) /\ Len(got) <= Len(lines)
    BY <1>0, <2>1
  <2>6. QED
    BY <1>0, <2>1, <2>2, <2>3, <2>4, <2>5 DEF LinesArrive
<1>3. QED
  BY <1>1, <1>2 DEF LInv

\* However the kernel splits what is written and read, readline() returns the
\* lines sendline() was given, once and in order, and fails only when no
\* complete one is left; of a line whose beginning a failing recv() lost, the
\* end (tcpsocket::sendline, tcpsocket::readline).
THEOREM LinesDelivered == LineSpec => []LinesArrive
  BY LineInitLInv, LineStep, LInvLines, PTL DEF LineSpec
=============================================================================
