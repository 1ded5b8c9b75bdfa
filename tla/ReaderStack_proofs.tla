------------------------- MODULE ReaderStack_proofs -------------------------
(***************************************************************************)
(* Proofs about ReaderStack, for all readers the constructors make, of any *)
(* length, and all sizes of requests, blocks and buffers.  First what      *)
(* sequences, windows on them and overwriting do; then, for each class of  *)
(* reader, that each of its calls keeps it well-formed and is a call of a  *)
(* stream; then the calls of any reader; the theorems are at the end.      *)
(***************************************************************************)
EXTENDS ReaderStack, SequenceTheorems, WellFoundedInduction, TLAPS

\* What the readers hold: bytes, whose width no argument here needs.
Bytes == Seq(Nat)

-----------------------------------------------------------------------------
(* Sequences of bytes, element by element. *)

\* The part of s after its first a elements, k long.
LEMMA Part ==
  ASSUME NEW s \in Bytes, NEW a \in Nat, NEW k \in Nat, a + k <= Len(s)
  PROVE  /\ SubSeq(s, a + 1, a + k) \in Bytes /\ Len(SubSeq(s, a + 1, a + k)) = k
         /\ \A i \in 1..k : SubSeq(s, a + 1, a + k)[i] = s[a + i]
<1>1. Len(s) \in Nat /\ \A i \in (a + 1)..(a + k) : s[i] \in Nat
  BY LenProperties, ElementOfSeq DEF Bytes
<1>2. /\ SubSeq(s, a + 1, a + k) \in Seq(Nat)
      /\ Len(SubSeq(s, a + 1, a + k)) = IF a + 1 <= a + k THEN a + k - (a + 1) + 1 ELSE 0
      /\ \A i \in 1..(a + k - (a + 1) + 1) : SubSeq(s, a + 1, a + k)[i] = s[a + 1 + i - 1]
  <2>1. a + 1 \in Int /\ a + k \in Int
    OBVIOUS
  <2>2. QED
    BY <1>1, <2>1, SubSeqProperties
<1>3. a + k - (a + 1) + 1 = k
  OBVIOUS
<1>4. QED
  BY <1>2, <1>3 DEF Bytes

\* The first k elements.
LEMMA Start ==
  ASSUME NEW s \in Bytes, NEW k \in Nat, k <= Len(s)
  PROVE  /\ SubSeq(s, 1, k) \in Bytes /\ Len(SubSeq(s, 1, k)) = k
         /\ \A i \in 1..k : SubSeq(s, 1, k)[i] = s[i]
<1>1. 0 \in Nat /\ 0 + k <= Len(s)
  BY LenProperties DEF Bytes
<1>2. /\ SubSeq(s, 0 + 1, 0 + k) \in Bytes /\ Len(SubSeq(s, 0 + 1, 0 + k)) = k
      /\ \A i \in 1..k : SubSeq(s, 0 + 1, 0 + k)[i] = s[0 + i]
  BY <1>1, Part
<1>3. 0 + 1 = 1 /\ 0 + k = k /\ \A i \in 1..k : 0 + i = i
  OBVIOUS
<1>4. QED
  BY <1>2, <1>3

\* Two sequences are equal that have the same elements.
LEMMA Same ==
  ASSUME NEW s \in Bytes, NEW t \in Bytes, Len(s) = Len(t), \A i \in 1..Len(s) : s[i] = t[i]
  PROVE  s = t
BY SeqEqual DEF Bytes

\* One sequence after another.
LEMMA Join ==
  ASSUME NEW s \in Bytes, NEW t \in Bytes
  PROVE  /\ s \o t \in Bytes /\ Len(s \o t) = Len(s) + Len(t)
         /\ \A i \in 1..Len(s) : (s \o t)[i] = s[i]
         /\ \A i \in 1..Len(t) : (s \o t)[Len(s) + i] = t[i]
<1>1. Len(s) \in Nat /\ Len(t) \in Nat
  BY LenProperties DEF Bytes
<1>2. /\ s \o t \in Bytes /\ Len(s \o t) = Len(s) + Len(t)
      /\ \A i \in 1..(Len(s) + Len(t)) : (s \o t)[i] = IF i <= Len(s) THEN s[i] ELSE t[i - Len(s)]
  BY ConcatProperties DEF Bytes
<1>3. \A i \in 1..Len(s) : (s \o t)[i] = s[i]
  BY <1>1, <1>2
<1>4. \A i \in 1..Len(t) : (s \o t)[Len(s) + i] = t[i]
  <2> SUFFICES ASSUME NEW i \in 1..Len(t) PROVE (s \o t)[Len(s) + i] = t[i]
    OBVIOUS
  <2> DEFINE j == Len(s) + i
  <2>1. j \in 1..(Len(s) + Len(t)) /\ ~(j <= Len(s)) /\ j - Len(s) = i
    BY <1>1
  <2> HIDE DEF j
  <2>2. (s \o t)[j] = t[i]
    BY <1>2, <2>1
  <2>3. QED
    BY <2>2 DEF j
<1>5. QED
  BY <1>2, <1>3, <1>4

\* A part of a part.
LEMMA PartOfPart ==
  ASSUME NEW s \in Bytes, NEW b \in Nat, NEW n \in Nat, b + n <= Len(s),
         NEW a \in Nat, NEW k \in Nat, a + k <= n
  PROVE  SubSeq(SubSeq(s, b + 1, b + n), a + 1, a + k) = SubSeq(s, b + a + 1, b + a + k)
<1> DEFINE w == SubSeq(s, b + 1, b + n)
           u == SubSeq(w, a + 1, a + k)
           h == b + a
           v == SubSeq(s, h + 1, h + k)
<1>1. w \in Bytes /\ Len(w) = n /\ \A i \in 1..n : w[i] = s[b + i]
  BY Part
<1> HIDE DEF w
<1>2. u \in Bytes /\ Len(u) = k /\ \A i \in 1..k : u[i] = w[a + i]
  BY <1>1, Part
<1>3. h \in Nat /\ h + k <= Len(s) /\ h = b + a
  BY LenProperties DEF Bytes
<1> HIDE DEF u, h
<1>4. v \in Bytes /\ Len(v) = k /\ \A i \in 1..k : v[i] = s[h + i]
  BY <1>3, Part
<1> HIDE DEF v
<1>5. \A i \in 1..k : u[i] = v[i]
  <2> SUFFICES ASSUME NEW i \in 1..k PROVE u[i] = v[i]
    OBVIOUS
  <2>1. a + i \in 1..n /\ b + (a + i) = h + i
    BY <1>3
  <2> DEFINE j == a + i
  <2>2. u[i] = w[j] /\ v[i] = s[h + i] /\ w[j] = s[b + j]
    BY <1>1, <1>2, <1>4, <2>1
  <2>3. QED
    BY <2>1, <2>2
<1>6. u = v
  BY <1>2, <1>4, <1>5, Same
<1>7. QED
  BY <1>6 DEF u, v, w, h

\* A part of the first n elements.
LEMMA PartOfStart ==
  ASSUME NEW s \in Bytes, NEW n \in Nat, n <= Len(s), NEW a \in Nat, NEW k \in Nat, a + k <= n
  PROVE  SubSeq(SubSeq(s, 1, n), a + 1, a + k) = SubSeq(s, a + 1, a + k)
<1> DEFINE z == 0
<1>1. z \in Nat /\ z + n <= Len(s)
  OBVIOUS
<1>2. z + 1 = 1 /\ z + n = n /\ z + a + 1 = a + 1 /\ z + a + k = a + k
  OBVIOUS
<1> HIDE DEF z
<1>3. SubSeq(SubSeq(s, z + 1, z + n), a + 1, a + k) = SubSeq(s, z + a + 1, z + a + k)
  BY <1>1, PartOfPart
<1>4. QED
  BY <1>2, <1>3

\* What writing p over s from the position a on makes.
LEMMA OverlayFacts ==
  ASSUME NEW s \in Bytes, NEW a \in Nat, a <= Len(s), NEW p \in Bytes
  PROVE  /\ OverlayAt(s, a, p) \in Bytes /\ Len(p) \in Nat /\ Len(s) \in Nat
         /\ Len(OverlayAt(s, a, p)) = IF a + Len(p) > Len(s) THEN a + Len(p) ELSE Len(s)
         /\ \A i \in 1..Len(OverlayAt(s, a, p)) :
              OverlayAt(s, a, p)[i] = IF a < i /\ i <= a + Len(p) THEN p[i - a] ELSE s[i]
<1>1. Len(s) \in Nat /\ Len(p) \in Nat
  BY LenProperties DEF Bytes
<1> DEFINE h == SubSeq(s, 1, a)
           t == SubSeq(s, a + Len(p) + 1, Len(s))
           hp == h \o p
           o == hp \o t
<1>2. h \in Bytes /\ Len(h) = a /\ \A i \in 1..a : h[i] = s[i]
  BY Start
<1>3. /\ t \in Bytes
      /\ Len(t) = IF a + Len(p) > Len(s) THEN 0 ELSE Len(s) - (a + Len(p))
      /\ \A i \in 1..Len(t) : t[i] = s[a + Len(p) + i]
  <2>1. CASE a + Len(p) > Len(s)
    <3>1. t = <<>>
      BY <1>1, <2>1, SubSeqEmpty
    <3>2. <<>> \in Bytes /\ Len(<<>>) = 0
      BY EmptySeq DEF Bytes
    <3> HIDE DEF t
    <3>3. QED
      BY <2>1, <3>1, <3>2
  <2>2. CASE a + Len(p) <= Len(s)
    <3> DEFINE at == a + Len(p)
               k == Len(s) - at
    <3>1. at \in Nat /\ k \in Nat /\ at + k = Len(s)
      BY <1>1, <2>2
    <3> HIDE DEF at, k
    <3>2. /\ SubSeq(s, at + 1, at + k) \in Bytes /\ Len(SubSeq(s, at + 1, at + k)) = k
          /\ \A i \in 1..k : SubSeq(s, at + 1, at + k)[i] = s[at + i]
      <4>1. at + k <= Len(s)
        BY <1>1, <3>1
      <4>2. QED
        BY <3>1, <4>1, Part
    <3>3. t \in Bytes /\ Len(t) = k /\ \A i \in 1..k : t[i] = s[at + i]
      BY <3>1, <3>2 DEF at
    <3>4. QED
      BY <1>1, <2>2, <3>3 DEF at, k
  <2>3. QED
    BY <1>1, <2>1, <2>2
<1> HIDE DEF h, t
<1>a. Len(t) \in Nat /\ Len(h) \in Nat
  BY <1>2, <1>3, LenProperties DEF Bytes
<1>4. /\ hp \in Bytes /\ Len(hp) = a + Len(p)
      /\ \A i \in 1..(a + Len(p)) : hp[i] = IF i <= a THEN h[i] ELSE p[i - a]
  BY <1>2, ConcatProperties DEF Bytes
<1> HIDE DEF hp
<1>5. /\ o \in Bytes /\ Len(o) = Len(hp) + Len(t)
      /\ \A i \in 1..(Len(hp) + Len(t)) : o[i] = IF i <= Len(hp) THEN hp[i] ELSE t[i - Len(hp)]
  BY <1>3, <1>4, ConcatProperties DEF Bytes
<1>6. o = OverlayAt(s, a, p)
  BY DEF OverlayAt, o, hp, h, t
<1> HIDE DEF o
<1>7. Len(o) = IF a + Len(p) > Len(s) THEN a + Len(p) ELSE Len(s)
  <2>1. Len(o) = a + Len(p) + Len(t)
    BY <1>4, <1>5
  <2>2. CASE a + Len(p) > Len(s)
    BY <1>1, <1>3, <2>1, <2>2
  <2>3. CASE a + Len(p) <= Len(s)
    <3>1. Len(t) = Len(s) - (a + Len(p))
      BY <1>1, <1>3, <2>3
    <3>2. Len(o) = Len(s)
      BY <1>1, <2>1, <3>1
    <3>3. QED
      BY <1>1, <2>3, <3>2
  <2>4. QED
    BY <1>1, <2>2, <2>3
<1>8. \A i \in 1..Len(o) : o[i] = IF a < i /\ i <= a + Len(p) THEN p[i - a] ELSE s[i]
  <2> SUFFICES ASSUME NEW i \in 1..Len(o)
               PROVE  o[i] = IF a < i /\ i <= a + Len(p) THEN p[i - a] ELSE s[i]
    OBVIOUS
  <2>1. CASE i <= a
    BY <1>1, <1>2, <1>4, <1>5, <2>1
  <2>2. CASE a < i /\ i <= a + Len(p)
    BY <1>1, <1>4, <1>5, <2>2
  <2>3. CASE i > a + Len(p)
    <3>1. i - Len(hp) \in 1..Len(t) /\ i - (a + Len(p)) = i - Len(hp)
          /\ a + Len(p) + (i - Len(hp)) = i
      <4>1. i \in Nat /\ i <= Len(o) /\ Len(hp) = a + Len(p) /\ Len(o) = Len(hp) + Len(t)
            /\ Len(t) \in Nat
        BY <1>1, <1>a, <1>4, <1>5
      <4>2. QED
        BY <1>1, <2>3, <4>1
    <3>2. o[i] = t[i - Len(hp)]
      BY <1>1, <1>a, <1>4, <1>5, <2>3
    <3>3. QED
      BY <1>3, <2>3, <3>1, <3>2
  <2>4. QED
    BY <1>1, <2>1, <2>2, <2>3
<1>9. QED
  BY <1>1, <1>5, <1>6, <1>7, <1>8
-----------------------------------------------------------------------------
(* Readers over memory. *)

\* The readers over memory.
MemoryKinds == {"memory", "vector", "mmap"}

\* The position and the size stay inside the buffer; a vector is its size; an
\* anonymous mapping is never less than half used, so doubling it keeps all.
GoodMemory(m) ==
  /\ m \in [kind : MemoryKinds, mem : Bytes, size : Nat, pos : Nat, growable : BOOLEAN,
            readonly : BOOLEAN]
  /\ m.pos <= m.size /\ m.size <= Len(m.mem)
  /\ m.growable <=> m.kind # "memory"
  /\ m.kind = "vector" => m.size = Len(m.mem)
  /\ m.kind = "mmap" => Len(m.mem) <= 2 * m.size

\* A memory reader k bytes further, and one with d written at its position.
Moved(m, k) == [m EXCEPT !.pos = @ + k]
Written(m, d) == [m EXCEPT !.mem = OverlayAt(@, m.pos, d), !.pos = @ + Len(d)]

\* All but the position, and all but position and bytes.
SameBuffer(m, x) ==
  x.kind = m.kind /\ x.mem = m.mem /\ x.size = m.size /\ x.readonly = m.readonly
SameShape(m, x) ==
  x.kind = m.kind /\ x.size = m.size /\ x.readonly = m.readonly /\ Len(x.mem) = Len(m.mem)

\* Moving within the size changes the position only.
LEMMA MovedFacts ==
  ASSUME NEW m, GoodMemory(m), NEW k \in Int, 0 <= m.pos + k, m.pos + k <= m.size
  PROVE  GoodMemory(Moved(m, k)) /\ SameBuffer(m, Moved(m, k)) /\ Moved(m, k).pos = m.pos + k
BY DEF GoodMemory, Moved, SameBuffer

\* Writing what fits changes the bytes at the position, and moves behind them.
LEMMA WrittenFacts ==
  ASSUME NEW m, GoodMemory(m), NEW d \in Bytes, Len(d) <= m.size - m.pos
  PROVE  /\ GoodMemory(Written(m, d)) /\ SameShape(m, Written(m, d))
         /\ Written(m, d).pos = m.pos + Len(d)
         /\ Written(m, d).mem = OverlayAt(m.mem, m.pos, d)
         /\ \A i \in 1..Len(m.mem) :
              Written(m, d).mem[i]
                    = IF m.pos < i /\ i <= m.pos + Len(d) THEN d[i - m.pos] ELSE m.mem[i]
<1>1. /\ m.mem \in Bytes /\ m.pos \in Nat /\ m.size \in Nat
      /\ m.pos <= m.size /\ m.size <= Len(m.mem)
  BY DEF GoodMemory
<1>2. m.pos <= Len(m.mem) /\ Len(d) \in Nat /\ Len(m.mem) \in Nat
  BY <1>1, LenProperties DEF Bytes
<1>3. /\ OverlayAt(m.mem, m.pos, d) \in Bytes
      /\ Len(OverlayAt(m.mem, m.pos, d))
           = IF m.pos + Len(d) > Len(m.mem) THEN m.pos + Len(d) ELSE Len(m.mem)
      /\ \A i \in 1..Len(OverlayAt(m.mem, m.pos, d)) : OverlayAt(m.mem, m.pos, d)[i]
           = IF m.pos < i /\ i <= m.pos + Len(d) THEN d[i - m.pos] ELSE m.mem[i]
  <2> DEFINE s == m.mem
             a == m.pos
  <2>1. s \in Bytes /\ a \in Nat /\ a <= Len(s)
    BY <1>1, <1>2
  <2> HIDE DEF s, a
  <2>2. /\ OverlayAt(s, a, d) \in Bytes
        /\ Len(OverlayAt(s, a, d)) = IF a + Len(d) > Len(s) THEN a + Len(d) ELSE Len(s)
        /\ \A i \in 1..Len(OverlayAt(s, a, d)) :
             OverlayAt(s, a, d)[i] = IF a < i /\ i <= a + Len(d) THEN d[i - a] ELSE s[i]
    BY <2>1, OverlayFacts
  <2>3. QED
    BY <2>2 DEF s, a
<1>4. Len(OverlayAt(m.mem, m.pos, d)) = Len(m.mem)
  BY <1>1, <1>2, <1>3
<1>5. /\ Written(m, d).pos = m.pos + Len(d) /\ Written(m, d).mem = OverlayAt(m.mem, m.pos, d)
      /\ SameShape(m, Written(m, d))
  BY <1>4 DEF GoodMemory, Written, SameShape
<1>6. GoodMemory(Written(m, d))
  <2> DEFINE q == OverlayAt(m.mem, m.pos, d)
  <2> HIDE DEF q
  <2>1. q \in Bytes /\ Len(q) = Len(m.mem)
        /\ Written(m, d) = [m EXCEPT !.mem = q, !.pos = @ + Len(d)]
    BY <1>3, <1>4 DEF q, Written
  <2> DEFINE k == m.pos + Len(d)
  <2>2. k \in Nat /\ k <= m.size /\ Written(m, d) = [m EXCEPT !.mem = q, !.pos = k]
    BY <1>1, <1>2, <2>1
  <2> HIDE DEF k
  <2>3. /\ Written(m, d) \in [kind : MemoryKinds, mem : Bytes, size : Nat, pos : Nat,
                             growable : BOOLEAN, readonly : BOOLEAN]
        /\ Written(m, d).mem = q /\ Written(m, d).pos = k /\ Written(m, d).kind = m.kind
        /\ Written(m, d).size = m.size /\ Written(m, d).growable = m.growable
    BY <2>1, <2>2 DEF GoodMemory
  <2>4. QED
    BY <1>1, <2>1, <2>2, <2>3 DEF GoodMemory
<1>7. QED
  BY <1>3, <1>4, <1>5, <1>6

\* Writing past the part c of g shows in a longer part of g.
LEMMA WriteShows ==
  ASSUME NEW c \in Bytes, NEW g \in Bytes, NEW a \in Nat, a <= Len(c), NEW d \in Bytes,
         NEW n \in Nat, Len(c) <= n, n <= Len(g), a + Len(d) <= n,
         \A i \in 1..Len(c) : g[i] = c[i]
  PROVE  /\ Len(OverlayAt(c, a, d)) <= n
         /\ SubSeq(SubSeq(OverlayAt(g, a, d), 1, n), 1, Len(OverlayAt(c, a, d)))
               = OverlayAt(c, a, d)
<1> DEFINE s == OverlayAt(c, a, d)
           t == OverlayAt(g, a, d)
           l == Len(s)
           u == SubSeq(t, 1, n)
           v == SubSeq(u, 1, l)
<1>1. Len(c) \in Nat /\ Len(d) \in Nat /\ Len(g) \in Nat /\ a <= Len(g)
  BY LenProperties DEF Bytes
<1>2. /\ s \in Bytes /\ l \in Nat /\ l = IF a + Len(d) > Len(c) THEN a + Len(d) ELSE Len(c)
      /\ \A i \in 1..l : s[i] = IF a < i /\ i <= a + Len(d) THEN d[i - a] ELSE c[i]
  <2>1. OverlayAt(c, a, d) \in Bytes
    BY <1>1, OverlayFacts
  <2>2. Len(OverlayAt(c, a, d)) \in Nat
    BY <2>1, LenProperties DEF Bytes
  <2>3. QED
    BY <2>1, <2>2, <1>1, OverlayFacts
<1>3. t \in Bytes /\ Len(t) = Len(g)
      /\ \A i \in 1..Len(g) : t[i] = IF a < i /\ i <= a + Len(d) THEN d[i - a] ELSE g[i]
  BY <1>1, OverlayFacts
<1> HIDE DEF s, t
<1>4. l <= n
  BY <1>1, <1>2
<1>5. u \in Bytes /\ Len(u) = n /\ \A i \in 1..n : u[i] = t[i]
  BY <1>3, Start
<1> HIDE DEF u, l
<1>6. v \in Bytes /\ Len(v) = l /\ \A i \in 1..l : v[i] = u[i]
  BY <1>2, <1>4, <1>5, Start
<1> HIDE DEF v
<1>7. \A i \in 1..l : v[i] = s[i]
  <2> SUFFICES ASSUME NEW i \in 1..l PROVE v[i] = s[i]
    OBVIOUS
  <2>1. i \in 1..n /\ i \in 1..Len(g)
    BY <1>1, <1>2, <1>4
  <2>2. v[i] = t[i]
    BY <1>5, <1>6, <2>1
  <2>3. CASE a < i /\ i <= a + Len(d)
    BY <1>2, <1>3, <2>1, <2>2, <2>3
  <2>4. CASE ~(a < i /\ i <= a + Len(d))
    <3>1. i \in 1..Len(c)
      BY <1>1, <1>2, <2>4
    <3>2. QED
      BY <1>2, <1>3, <2>1, <2>2, <2>4, <3>1
  <2>5. QED
    BY <2>3, <2>4
<1>8. v = s /\ Len(s) = l
  <2>1. Len(s) = l
    BY DEF l
  <2>2. Len(s) = Len(v) /\ \A i \in 1..Len(v) : v[i] = s[i]
    BY <2>1, <1>6, <1>7
  <2>3. QED
    BY <1>2, <1>6, <2>1, <2>2, Same
<1>9. QED
  BY <1>4, <1>8 DEF s, t, u, v, l

\* The zeros a buffer grows by.
LEMMA ZerosFacts ==
  ASSUME NEW k \in Nat
  PROVE  Zeros(k) \in Bytes /\ Len(Zeros(k)) = k
<1>1. Zeros(k) \in [1..k -> Nat]
  BY DEF Zeros
<1>2. QED
  BY <1>1, LenProperties, IsASeq DEF Bytes, Zeros

\* A new buffer for a reader that may replace it.
LEMMA SetBufFacts ==
  ASSUME NEW m, GoodMemory(m), m.kind # "memory", NEW q \in Bytes, m.pos <= Len(q)
  PROVE  /\ GoodMemory(setbuf(m, q))
         /\ setbuf(m, q).mem = q /\ setbuf(m, q).size = Len(q) /\ setbuf(m, q).pos = m.pos
         /\ setbuf(m, q).kind = m.kind /\ setbuf(m, q).readonly = m.readonly
<1> DEFINE k == Len(q)
<1>1. k \in Nat
  BY LenProperties DEF Bytes
<1>2. setbuf(m, q) = [m EXCEPT !.mem = q, !.size = k] /\ m.pos <= k
  BY DEF setbuf
<1> HIDE DEF k
<1>3. /\ setbuf(m, q) \in [kind : MemoryKinds, mem : Bytes, size : Nat, pos : Nat,
                           growable : BOOLEAN, readonly : BOOLEAN]
      /\ setbuf(m, q).mem = q /\ setbuf(m, q).size = k /\ setbuf(m, q).pos = m.pos
      /\ setbuf(m, q).kind = m.kind /\ setbuf(m, q).readonly = m.readonly
      /\ setbuf(m, q).growable = m.growable
  BY <1>1, <1>2 DEF GoodMemory
<1>4. k = Len(q)
  BY DEF k
<1>5. QED
  BY <1>1, <1>2, <1>3, <1>4 DEF GoodMemory

\* A reader that grows keeps what it has.
LEMMA GrowFacts ==
  ASSUME NEW m, GoodMemory(m), m.kind # "memory", NEW k \in Nat
  PROVE  LET g == grow(m, k) IN
         /\ m.kind = "vector" => g.size = Len(m.mem) + k
         /\ GoodMemory(g) /\ g.kind = m.kind /\ g.pos = m.pos /\ g.readonly = m.readonly
         /\ m.size <= g.size /\ \A i \in 1..m.size : g.mem[i] = m.mem[i]
<1>1. /\ m.mem \in Bytes /\ m.size \in Nat /\ m.pos \in Nat /\ m.pos <= m.size
      /\ m.size <= Len(m.mem) /\ Len(m.mem) \in Nat
  BY LenProperties DEF GoodMemory, Bytes
<1>2. CASE m.kind = "vector"
  <2> DEFINE z == Zeros(k)
             q == m.mem \o z
  <2>z. z \in Bytes /\ Len(z) = k
    BY ZerosFacts
  <2> HIDE DEF z
  <2>1. q \in Bytes /\ Len(q) = Len(m.mem) + k /\ \A i \in 1..Len(m.mem) : q[i] = m.mem[i]
    BY <1>1, <2>z, Join
  <2>2. grow(m, k) = setbuf(m, q)
    BY <1>2 DEF grow, vectorgrow, z
  <2> HIDE DEF q
  <2>3. m.pos <= Len(q) /\ m.size <= Len(q)
    BY <1>1, <2>1
  <2> DEFINE g == setbuf(m, q)
  <2>4. /\ GoodMemory(g) /\ g.mem = q /\ g.size = Len(q) /\ g.pos = m.pos
        /\ g.kind = m.kind /\ g.readonly = m.readonly
    BY <1>2, <2>1, <2>3, SetBufFacts
  <2> HIDE DEF g
  <2>5. grow(m, k) = g
    BY <2>2 DEF g
  <2>6. QED
    BY <1>1, <1>2, <2>1, <2>3, <2>4, <2>5
<1>3. CASE m.kind = "mmap"
  <2> DEFINE l == 2 * m.size
             z == Zeros(l)
             b == m.mem \o z
             q == SubSeq(b, 1, l)
  <2>1. l \in Nat /\ m.size <= l /\ Len(m.mem) <= l
    BY <1>1, <1>3 DEF GoodMemory
  <2> HIDE DEF l
  <2>z. z \in Bytes /\ Len(z) = l
    BY <2>1, ZerosFacts
  <2> HIDE DEF z
  <2>2. b \in Bytes /\ Len(b) = Len(m.mem) + l /\ \A i \in 1..Len(m.mem) : b[i] = m.mem[i]
    BY <1>1, <2>1, <2>z, Join
  <2>3. grow(m, k) = setbuf(m, q)
    BY <1>3 DEF grow, mmapgrow, z, l
  <2> HIDE DEF b
  <2>4. q \in Bytes /\ Len(q) = l /\ \A i \in 1..l : q[i] = b[i]
    BY <1>1, <2>1, <2>2, Start
  <2> HIDE DEF q
  <2>5. \A i \in 1..m.size : q[i] = m.mem[i]
    BY <1>1, <2>1, <2>2, <2>4
  <2>6. QED
    BY <1>1, <1>3, <2>1, <2>3, <2>4, <2>5, SetBufFacts
<1>4. QED
  BY <1>2, <1>3 DEF GoodMemory, MemoryKinds

\* What can be read.
Held(m) == SubSeq(m.mem, 1, m.size)

\* What a memory reader holds, element by element.
LEMMA HeldFacts ==
  ASSUME NEW m, GoodMemory(m)
  PROVE  /\ Held(m) \in Bytes /\ Len(Held(m)) = m.size
         /\ \A i \in 1..m.size : Held(m)[i] = m.mem[i]
<1>1. m.mem \in Bytes /\ m.size \in Nat /\ m.size <= Len(m.mem)
  BY DEF GoodMemory
<1>2. QED
  BY <1>1, Start DEF Held

\* A read returns what is held at the position.
LEMMA MemoryRead ==
  ASSUME NEW m, GoodMemory(m), NEW n \in Nat
  PROVE  LET k == Min2(n, m.size - m.pos) IN
         /\ k \in Nat /\ k <= n /\ m.pos + k <= m.size
         /\ mread(m, n) = Done(Moved(m, k), SubSeq(Held(m), m.pos + 1, m.pos + k))
<1> DEFINE k == Min2(n, m.size - m.pos)
<1>1. /\ m.mem \in Bytes /\ m.size \in Nat /\ m.pos \in Nat /\ m.pos <= m.size
      /\ m.size <= Len(m.mem)
  BY DEF GoodMemory
<1>2. k \in Nat /\ k <= n /\ m.pos + k <= m.size
  BY <1>1 DEF Min2
<1>3. mread(m, n) = Done(Moved(m, k), SubSeq(m.mem, m.pos + 1, m.pos + k))
  BY DEF mread, Moved
<1> HIDE DEF k
<1>4. SubSeq(Held(m), m.pos + 1, m.pos + k) = SubSeq(m.mem, m.pos + 1, m.pos + k)
  BY <1>1, <1>2, PartOfStart DEF Held
<1>5. QED
  BY <1>2, <1>3, <1>4 DEF k

\* What a write leaves of the bytes c, from the position a on, when it has
\* taken the bytes d and there are now the bytes e.
Overwritten(c, a, d, e) ==
  Len(OverlayAt(c, a, d)) <= Len(e) /\ SubSeq(e, 1, Len(OverlayAt(c, a, d))) = OverlayAt(c, a, d)

\* A write puts as many bytes at the position as there is, or can be made,
\* room for.
LEMMA MemoryWrite ==
  ASSUME NEW m, GoodMemory(m), NEW p \in Bytes, ~m.readonly
  PROVE  LET o == mwrite(m, p) IN
         /\ GoodMemory(o.r) /\ o.r.kind = m.kind /\ ~o.thrown
         /\ o.out \in Bytes /\ Len(o.out) <= Len(p) /\ o.r.pos = m.pos + Len(o.out)
         /\ Overwritten(Held(m), m.pos, o.out, Held(o.r))
         /\ o.out = SubSeq(p, 1, Len(o.out))
         /\ m.kind = "vector" => Len(o.out) = Len(p)
         /\ m.kind = "memory" => /\ Len(o.out) = Min2(Len(p), m.size - m.pos)
                                 /\ o = Done(Written(m, o.out), o.out)
<1> DEFINE g == IF m.growable /\ m.pos + Len(p) > m.size
                THEN grow(m, m.pos + Len(p) - m.size)
                ELSE m
           k == Min2(Len(p), g.size - g.pos)
           d == SubSeq(p, 1, k)
<1>1. /\ m.mem \in Bytes /\ m.size \in Nat /\ m.pos \in Nat /\ m.pos <= m.size
      /\ m.size <= Len(m.mem) /\ Len(p) \in Nat
  BY LenProperties DEF GoodMemory, Bytes
<1>2. /\ GoodMemory(g) /\ g.kind = m.kind /\ g.pos = m.pos
      /\ m.size <= g.size /\ \A i \in 1..m.size : g.mem[i] = m.mem[i]
      /\ m.kind = "memory" => g = m
      /\ m.kind = "vector" => Len(p) <= g.size - g.pos
  <2>1. CASE m.growable /\ m.pos + Len(p) > m.size
    <3>1. m.pos + Len(p) - m.size \in Nat /\ m.kind # "memory"
      BY <1>1, <2>1 DEF GoodMemory
    <3>2. g = grow(m, m.pos + Len(p) - m.size)
      BY <2>1
    <3> HIDE DEF g
    <3>3. m.kind = "vector" => g.size = m.pos + Len(p)
      <4> DEFINE n == m.pos + Len(p) - m.size
      <4>1. n \in Nat /\ g = grow(m, n) /\ m.kind # "memory"
        BY <3>1, <3>2
      <4>n. n = m.pos + Len(p) - m.size
        OBVIOUS
      <4> HIDE DEF n
      <4>2. m.kind = "vector" => g.size = Len(m.mem) + n
        BY <4>1, GrowFacts
      <4>3. m.kind = "vector" => m.size = Len(m.mem)
        BY DEF GoodMemory
      <4>4. QED
        BY <1>1, <4>2, <4>3, <4>n
    <3>4. QED
      BY <1>1, <3>1, <3>2, <3>3, GrowFacts
  <2>2. CASE ~(m.growable /\ m.pos + Len(p) > m.size)
    <3>1. g = m
      BY <2>2
    <3> HIDE DEF g
    <3>2. m.kind = "vector" => Len(p) <= m.size - m.pos
      BY <1>1, <2>2 DEF GoodMemory
    <3>3. QED
      BY <1>1, <3>1, <3>2
  <2>3. QED
    BY <2>1, <2>2
<1>3. mwrite(m, p) = Done(Written(g, d), d)
  BY DEF mwrite, Written
<1> HIDE DEF g
<1>4. /\ g.mem \in Bytes /\ g.size \in Nat /\ g.pos \in Nat /\ g.pos <= g.size
      /\ g.size <= Len(g.mem)
  BY <1>2 DEF GoodMemory
<1>5. k \in Nat /\ k <= Len(p) /\ k <= g.size - g.pos
  BY <1>1, <1>4 DEF Min2
<1> HIDE DEF k
<1>6. d \in Bytes /\ Len(d) = k /\ d = SubSeq(p, 1, Len(d))
  BY <1>5, Start
<1> HIDE DEF d
<1>7. /\ GoodMemory(Written(g, d)) /\ SameShape(g, Written(g, d))
      /\ Written(g, d).pos = g.pos + Len(d)
      /\ Written(g, d).mem = OverlayAt(g.mem, g.pos, d)
  BY <1>2, <1>5, <1>6, WrittenFacts
<1>8. Overwritten(Held(m), m.pos, d, Held(Written(g, d)))
  <2> DEFINE c == Held(m)
  <2>1. c \in Bytes /\ Len(c) = m.size /\ \A i \in 1..m.size : c[i] = m.mem[i]
    BY HeldFacts
  <2> HIDE DEF c
  <2>2. \A i \in 1..Len(c) : g.mem[i] = c[i]
    BY <1>2, <2>1
  <2>3. m.pos <= Len(c) /\ Len(c) <= g.size /\ m.pos + Len(d) <= g.size
    BY <1>1, <1>2, <1>4, <1>5, <1>6, <2>1
  <2>4. /\ Len(OverlayAt(c, m.pos, d)) <= g.size
        /\ SubSeq(SubSeq(OverlayAt(g.mem, m.pos, d), 1, g.size), 1, Len(OverlayAt(c, m.pos, d)))
             = OverlayAt(c, m.pos, d)
    <3> DEFINE b == g.mem
               a == m.pos
               n == g.size
    <3>1. /\ b \in Bytes /\ n \in Nat /\ n <= Len(b) /\ a \in Nat
          /\ \A i \in 1..Len(c) : b[i] = c[i]
          /\ a <= Len(c) /\ Len(c) <= n /\ a + Len(d) <= n /\ d \in Bytes /\ c \in Bytes
      BY <1>1, <1>4, <1>6, <2>1, <2>2, <2>3
    <3> HIDE DEF b, a, n
    <3>2. /\ Len(OverlayAt(c, a, d)) <= n
          /\ SubSeq(SubSeq(OverlayAt(b, a, d), 1, n), 1, Len(OverlayAt(c, a, d)))
               = OverlayAt(c, a, d)
      BY <3>1, WriteShows
    <3>3. QED
      BY <3>2 DEF a, b, n
  <2>5. Held(Written(g, d)) = SubSeq(OverlayAt(g.mem, m.pos, d), 1, g.size)
    BY <1>2, <1>7 DEF Held, SameShape
  <2>6. Len(Held(Written(g, d))) = g.size
    BY <1>7, HeldFacts DEF SameShape
  <2>7. QED
    BY <2>4, <2>5, <2>6 DEF Overwritten, c
<1>9. Len(d) <= Len(p) /\ Written(g, d).pos = m.pos + Len(d) /\ Written(g, d).kind = m.kind
  BY <1>2, <1>5, <1>6, <1>7 DEF SameShape
<1>10. m.kind = "memory" => Len(d) = Min2(Len(p), m.size - m.pos) /\ Written(g, d) = Written(m, d)
  BY <1>2, <1>6 DEF k
<1> DEFINE o == mwrite(m, p)
           y == Written(g, d)
<1>11. o = Done(y, d)
  BY <1>3
<1> HIDE DEF o, y
<1>12. o.r = y /\ o.out = d /\ ~o.thrown
  BY <1>11 DEF Done
<1>13. m.kind = "memory" => o = Done(Written(m, o.out), o.out)
  BY <1>10, <1>11, <1>12 DEF y
<1>14. m.kind = "memory" => Len(o.out) = Min2(Len(p), m.size - m.pos)
  BY <1>10, <1>12
<1>15. GoodMemory(y) /\ Overwritten(Held(m), m.pos, d, Held(y))
  BY <1>7, <1>8 DEF y
<1>16. Len(d) <= Len(p) /\ y.pos = m.pos + Len(d) /\ y.kind = m.kind
  BY <1>9 DEF y
<1>17. m.kind = "vector" => Len(o.out) = Len(p)
  BY <1>1, <1>2, <1>4, <1>6, <1>12 DEF k, Min2
<1>18. QED
  BY <1>6, <1>12, <1>13, <1>14, <1>15, <1>16, <1>17 DEF o

\* A truncation keeps what is before the position.
LEMMA MemoryTruncate ==
  ASSUME NEW m, GoodMemory(m), NEW off \in Nat, m.pos <= off,
         m.kind # "vector" => off <= Len(m.mem), m.kind = "mmap" => Len(m.mem) <= 2 * off
  PROVE  LET o == mtruncate(m, off) IN
         /\ GoodMemory(o.r) /\ o.r.kind = m.kind /\ ~o.thrown /\ o.out = off /\ o.r.pos = m.pos
         /\ Len(Held(o.r)) = off /\ SubSeq(Held(o.r), 1, m.pos) = SubSeq(Held(m), 1, m.pos)
<1> DEFINE k == Min2(off, m.size)
           z == Zeros(off - k)
           h == SubSeq(m.mem, 1, k)
           q == h \o z
           g == IF m.kind = "vector" THEN setbuf(m, q) ELSE [m EXCEPT !.size = off]
<1>1. /\ m.mem \in Bytes /\ m.size \in Nat /\ m.pos \in Nat /\ m.pos <= m.size
      /\ m.size <= Len(m.mem)
  BY DEF GoodMemory
<1>2. k \in Nat /\ k <= off /\ k <= m.size /\ m.pos <= k /\ off - k \in Nat
  BY <1>1 DEF Min2
<1>3. mtruncate(m, off) = Done(g, off)
  BY DEF mtruncate, vectortruncate
<1> HIDE DEF k
<1>4. h \in Bytes /\ Len(h) = k /\ \A i \in 1..k : h[i] = m.mem[i]
  <2>1. k <= Len(m.mem)
    BY <1>1, <1>2, LenProperties DEF Bytes
  <2>2. QED
    BY <1>1, <1>2, <2>1, Start
<1>5. z \in Bytes /\ Len(z) = off - k
  BY <1>2, ZerosFacts
<1> HIDE DEF h, z
<1>6. q \in Bytes /\ Len(q) = off /\ \A i \in 1..k : q[i] = m.mem[i]
  <2>1. q \in Bytes /\ Len(q) = Len(h) + Len(z) /\ \A i \in 1..Len(h) : q[i] = h[i]
    BY <1>4, <1>5, Join
  <2>2. QED
    BY <1>2, <1>4, <1>5, <2>1
<1> HIDE DEF q
<1>7. /\ GoodMemory(g) /\ g.kind = m.kind /\ g.pos = m.pos /\ g.size = off
      /\ \A i \in 1..m.pos : g.mem[i] = m.mem[i]
  <2>1. CASE m.kind = "vector"
    <3>1. g = setbuf(m, q)
      BY <2>1
    <3>2. \A i \in 1..m.pos : q[i] = m.mem[i]
      BY <1>1, <1>2, <1>6
    <3> HIDE DEF g
    <3>3. QED
      BY <2>1, <3>1, <3>2, <1>6, SetBufFacts
  <2>2. CASE m.kind # "vector"
    <3>1. g = [m EXCEPT !.size = off]
      BY <2>2
    <3> HIDE DEF g
    <3>2. g \in [kind : MemoryKinds, mem : Bytes, size : Nat, pos : Nat, growable : BOOLEAN,
                 readonly : BOOLEAN]
      BY <3>1 DEF GoodMemory
    <3>3. /\ g.kind = m.kind /\ g.pos = m.pos /\ g.size = off /\ g.mem = m.mem
          /\ g.growable = m.growable
      BY <3>1 DEF GoodMemory
    <3>4. QED
      BY <1>1, <2>2, <3>2, <3>3 DEF GoodMemory
  <2>3. QED
    BY <2>1, <2>2
<1> HIDE DEF g
<1>8. SubSeq(Held(g), 1, m.pos) = SubSeq(Held(m), 1, m.pos)
  <2> DEFINE a == m.pos
             c == Held(m)
             e == Held(g)
  <2>1. /\ c \in Bytes /\ Len(c) = m.size /\ \A i \in 1..m.size : c[i] = m.mem[i]
        /\ e \in Bytes /\ Len(e) = off /\ \A i \in 1..off : e[i] = g.mem[i]
        /\ a \in Nat /\ a <= off /\ a <= m.size
    BY <1>1, <1>2, <1>7, HeldFacts
  <2>2. \A i \in 1..a : e[i] = c[i]
    BY <1>7, <2>1
  <2>3. /\ a <= Len(c) /\ a <= Len(e)
    BY <2>1
  <2> HIDE DEF a, c, e
  <2> DEFINE u == SubSeq(c, 1, a)
             v == SubSeq(e, 1, a)
  <2>4. /\ u \in Bytes /\ Len(u) = a /\ \A i \in 1..a : u[i] = c[i]
        /\ v \in Bytes /\ Len(v) = a /\ \A i \in 1..a : v[i] = e[i]
    BY <2>1, <2>3, Start
  <2> HIDE DEF u, v
  <2>5. \A i \in 1..Len(u) : u[i] = v[i]
    BY <2>2, <2>4
  <2>6. u = v
    BY <2>4, <2>5, Same
  <2>7. QED
    BY <2>6 DEF u, v, a, c, e
<1>9. Len(Held(g)) = off
  BY <1>7, HeldFacts
<1>10. mtruncate(m, off).r = g /\ mtruncate(m, off).out = off /\ ~mtruncate(m, off).thrown
  BY <1>3 DEF Done
<1>11. QED
  BY <1>7, <1>8, <1>9, <1>10
-----------------------------------------------------------------------------
(* What each operation promises of a reader as a stream. *)

\* How many bytes there are from the position to the end.
Left(x) == Len(Content(x)) - getpos(x)

\* The same stream, left at the position a.
SameStream(x, y, a) == y.kind = x.kind /\ Content(y) = Content(x) /\ getpos(y) = a

\* A read returns the bytes at the position, as many as were asked for or are left.
Reads(x, n, o) ==
  LET k == Min2(n, Left(x)) IN
  /\ ~o.thrown /\ SameStream(x, o.r, getpos(x) + k)
  /\ o.out = SubSeq(Content(x), getpos(x) + 1, getpos(x) + k)

\* A call that throws leaves the stream and its position alone.
Fails(x, o) == o.thrown /\ SameStream(x, o.r, getpos(x))

\* A read that is broken off loses what it got, and stays within the stream.
Breaks(x, o) ==
  /\ o.thrown /\ o.r.kind = x.kind /\ Content(o.r) = Content(x)
  /\ getpos(o.r) \in getpos(x)..Len(Content(x))

\* A write replaces the bytes at the position and moves behind them, or throws.
Writes(x, o) ==
  \/ Fails(x, o)
  \/ /\ ~o.thrown /\ o.r.kind = x.kind /\ getpos(o.r) = getpos(x) + Len(o.out)
     /\ Overwritten(Content(x), getpos(x), o.out, Content(o.r))

\* setpos() goes where it was told to, or throws.
SetsPos(x, off, o) ==
  \/ Fails(x, o)
  \/ ~o.thrown /\ o.out = <<>> /\ SameStream(x, o.r, off)

\* truncate() makes the length what it was told to, and keeps what is before the position.
Truncates(x, off, o) ==
  \/ Fails(x, o)
  \/ /\ ~o.thrown /\ o.out = off /\ o.r.kind = x.kind /\ getpos(o.r) = getpos(x)
     /\ Len(Content(o.r)) = off
     /\ SubSeq(Content(o.r), 1, getpos(x)) = SubSeq(Content(x), 1, getpos(x))

\* size() is the length of the stream, or throws.
Counts(x, o) ==
  \/ Fails(x, o)
  \/ ~o.thrown /\ o.out = Len(Content(x)) /\ SameStream(x, o.r, getpos(x))

\* Which definitions the calls of a memory reader take.
LEMMA MemoryDispatch ==
  ASSUME NEW x, x.kind \in MemoryKinds
  PROVE  /\ \A n, io : read(x, n, io) = mread(x, n)
         /\ \A p : write(x, p) = mwrite(x, p)
         /\ \A off : setpos(x, off) = msetpos(x, off)
         /\ \A off : truncate(x, off) = mtruncate(x, off)
         /\ size(x) = Done(x, x.size)
         /\ Content(x) = Held(x) /\ getpos(x) = x.pos
<1>1. Memory(x.kind) /\ ~IsWindow(x.kind) /\ x.kind \notin {"file", "block", "compressed"}
  BY DEF MemoryKinds, Memory, IsWindow
<1>2. \A n, io : read(x, n, io) = mread(x, n)
  BY <1>1 DEF read
<1>3. \A p : write(x, p) = mwrite(x, p)
  BY <1>1 DEF write
<1>4. \A off : setpos(x, off) = msetpos(x, off)
  BY <1>1 DEF setpos
<1>5. \A off : truncate(x, off) = mtruncate(x, off)
  BY <1>1 DEF truncate
<1>6. size(x) = Done(x, x.size)
  BY <1>1 DEF size
<1>7. Content(x) = Held(x) /\ getpos(x) = x.pos
  <2>1. Content(x) = Held(x)
    BY <1>1 DEF Content, Held, IsWindow
  <2>2. QED
    BY <1>1, <2>1 DEF getpos
<1>8. QED
  BY <1>2, <1>3, <1>4, <1>5, <1>6, <1>7

\* Moving does not change what is held.
LEMMA MovedHeld ==
  ASSUME NEW m, GoodMemory(m), NEW k \in Int, 0 <= m.pos + k, m.pos + k <= m.size
  PROVE  Held(Moved(m, k)) = Held(m)
BY MovedFacts DEF Held, SameBuffer

\* Every call of a memory reader is that of a stream, and keeps the reader good.
LEMMA MemoryStream ==
  ASSUME NEW x, GoodMemory(x)
  PROVE  /\ \A n \in Nat : \A io : Reads(x, n, read(x, n, io)) /\ GoodMemory(read(x, n, io).r)
         /\ \A p \in Bytes : Writes(x, write(x, p)) /\ GoodMemory(write(x, p).r)
         /\ \A off \in 0..x.size : SetsPos(x, off, setpos(x, off)) /\ GoodMemory(setpos(x, off).r)
         /\ \A off \in Nat :
              /\ x.pos <= off /\ (x.kind # "vector" => off <= Len(x.mem))
              /\ (x.kind = "mmap" => Len(x.mem) <= 2 * off)
              => Truncates(x, off, truncate(x, off)) /\ GoodMemory(truncate(x, off).r)
         /\ Counts(x, size(x)) /\ GoodMemory(size(x).r)
<1>1. x.kind \in MemoryKinds /\ x.size \in Nat /\ x.pos \in Nat /\ x.pos <= x.size
  BY DEF GoodMemory
<1>2. /\ \A n, io : read(x, n, io) = mread(x, n)
      /\ \A p : write(x, p) = mwrite(x, p)
      /\ \A off : setpos(x, off) = msetpos(x, off)
      /\ \A off : truncate(x, off) = mtruncate(x, off)
      /\ size(x) = Done(x, x.size)
      /\ Content(x) = Held(x) /\ getpos(x) = x.pos
  BY <1>1, MemoryDispatch
<1>3. \A y : y.kind = x.kind => Content(y) = Held(y) /\ getpos(y) = y.pos
  BY <1>1, MemoryDispatch
<1>4. Len(Held(x)) = x.size
  BY HeldFacts
<1>5. ASSUME NEW n \in Nat, NEW io
      PROVE  Reads(x, n, read(x, n, io)) /\ GoodMemory(read(x, n, io).r)
  <2> DEFINE k == Min2(n, x.size - x.pos)
             y == Moved(x, k)
  <2>1. /\ k \in Nat /\ x.pos + k <= x.size
        /\ mread(x, n) = Done(y, SubSeq(Held(x), x.pos + 1, x.pos + k))
    BY <1>5, MemoryRead
  <2>2. k = Min2(n, Left(x))
    BY <1>2, <1>4 DEF Left
  <2> HIDE DEF k
  <2>3. GoodMemory(y) /\ SameBuffer(x, y) /\ y.pos = x.pos + k /\ Held(y) = Held(x)
    BY <1>1, <2>1, MovedFacts, MovedHeld
  <2> HIDE DEF y
  <2>4. SameStream(x, y, getpos(x) + k)
    BY <1>2, <1>3, <2>3 DEF SameStream, SameBuffer
  <2> DEFINE o == read(x, n, io)
             d == SubSeq(Content(x), getpos(x) + 1, getpos(x) + k)
  <2>5. o = Done(y, d)
    BY <1>2, <2>1
  <2> HIDE DEF o, d
  <2>6. ~o.thrown /\ o.r = y /\ o.out = d
    BY <2>5 DEF Done
  <2>7. Reads(x, n, o) /\ GoodMemory(o.r)
    BY <2>2, <2>3, <2>4, <2>6 DEF Reads, d
  <2>8. QED
    BY <2>7 DEF o
<1>6. ASSUME NEW p \in Bytes PROVE Writes(x, write(x, p)) /\ GoodMemory(write(x, p).r)
  <2> DEFINE o == write(x, p)
  <2>1. CASE x.readonly
    <3>1. o = Throws(x)
      BY <1>2, <2>1 DEF mwrite
    <3>2. SameStream(x, x, getpos(x))
      BY DEF SameStream
    <3>3. QED
      BY <3>1, <3>2 DEF Writes, Fails, Throws
  <2>2. CASE ~x.readonly
    <3>1. /\ GoodMemory(o.r) /\ o.r.kind = x.kind /\ ~o.thrown
          /\ o.r.pos = x.pos + Len(o.out)
          /\ Overwritten(Held(x), x.pos, o.out, Held(o.r))
      BY <1>2, <1>6, <2>2, MemoryWrite
    <3> HIDE DEF o
    <3>2. Writes(x, o)
      BY <1>2, <1>3, <3>1 DEF Writes
    <3>3. QED
      BY <3>1, <3>2 DEF o
  <2>3. QED
    BY <2>1, <2>2
<1>7. ASSUME NEW off \in 0..x.size
      PROVE  SetsPos(x, off, setpos(x, off)) /\ GoodMemory(setpos(x, off).r)
  <2> DEFINE y == [x EXCEPT !.pos = off]
  <2>1. setpos(x, off) = Done(y, <<>>)
    BY <1>2 DEF msetpos
  <2>2. GoodMemory(y) /\ SameBuffer(x, y) /\ y.pos = off
    BY <1>1, <1>7 DEF GoodMemory, SameBuffer
  <2> HIDE DEF y
  <2>3. Held(y) = Held(x)
    BY <2>2 DEF Held, SameBuffer
  <2>4. SameStream(x, y, off)
    BY <1>2, <1>3, <2>2, <2>3 DEF SameStream, SameBuffer
  <2>5. QED
    BY <2>1, <2>2, <2>4 DEF SetsPos, Done
<1>8. ASSUME NEW off \in Nat, x.pos <= off, x.kind # "vector" => off <= Len(x.mem),
             x.kind = "mmap" => Len(x.mem) <= 2 * off
      PROVE  Truncates(x, off, truncate(x, off)) /\ GoodMemory(truncate(x, off).r)
  <2> DEFINE o == mtruncate(x, off)
  <2>1. /\ GoodMemory(o.r) /\ o.r.kind = x.kind /\ ~o.thrown /\ o.out = off /\ o.r.pos = x.pos
        /\ Len(Held(o.r)) = off /\ SubSeq(Held(o.r), 1, x.pos) = SubSeq(Held(x), 1, x.pos)
    BY <1>8, MemoryTruncate
  <2> HIDE DEF o
  <2>2. Truncates(x, off, o)
    BY <1>2, <1>3, <2>1 DEF Truncates
  <2>3. QED
    BY <1>2, <2>1, <2>2 DEF o
<1>9. Counts(x, size(x)) /\ GoodMemory(size(x).r)
  <2>1. SameStream(x, x, getpos(x))
    BY DEF SameStream
  <2>2. QED
    BY <1>2, <1>4, <2>1 DEF Counts, Done
<1>10. QED
  BY <1>5, <1>6, <1>7, <1>8, <1>9
-----------------------------------------------------------------------------
(* Windows. *)

\* The part of m that is l long and begins after a.
Seen(m, a, l) == SubSeq(m.mem, a + 1, a + l)

\* A read below a window, within it, reads the bytes of the window.
LEMMA SeenRead ==
  ASSUME NEW m, GoodMemory(m), NEW a \in Nat, NEW l \in Nat, a + l <= Len(m.mem),
         a <= m.pos, NEW k \in Nat, m.pos + k <= a + l
  PROVE  SubSeq(m.mem, m.pos + 1, m.pos + k)
           = SubSeq(Seen(m, a, l), (m.pos - a) + 1, (m.pos - a) + k)
<1> DEFINE s == m.mem
           b == m.pos - a
<1>1. s \in Bytes /\ b \in Nat /\ b + k <= l /\ a + b = m.pos /\ a + l <= Len(s)
  BY DEF GoodMemory
<1> HIDE DEF s, b
<1>2. SubSeq(SubSeq(s, a + 1, a + l), b + 1, b + k) = SubSeq(s, a + b + 1, a + b + k)
  BY <1>1, PartOfPart
<1>3. QED
  BY <1>1, <1>2 DEF s, b, Seen

\* A write below a window, within it, overwrites the bytes of the window and no others.
LEMMA SeenWrite ==
  ASSUME NEW m, GoodMemory(m), NEW a \in Nat, NEW l \in Nat, a + l <= Len(m.mem),
         a <= m.pos, NEW d \in Bytes, m.pos + Len(d) <= a + l, Len(d) <= m.size - m.pos
  PROVE  /\ Len(Seen(m, a, l)) = l /\ Len(Seen(Written(m, d), a, l)) = l
         /\ Overwritten(Seen(m, a, l), m.pos - a, d, Seen(Written(m, d), a, l))
         /\ \A i \in 1..Len(m.mem) : i \notin (a + 1)..(a + l) => Written(m, d).mem[i] = m.mem[i]
<1> DEFINE s == m.mem
           t == Written(m, d).mem
           b == m.pos - a
           c == SubSeq(s, a + 1, a + l)
           e == SubSeq(t, a + 1, a + l)
           w == OverlayAt(c, b, d)
<1>1. /\ s \in Bytes /\ b \in Nat /\ Len(d) \in Nat /\ Len(s) \in Nat /\ b + Len(d) <= l
      /\ a + b = m.pos /\ a + l <= Len(s)
  BY LenProperties DEF GoodMemory, Bytes
<1>2. t \in Bytes /\ Len(t) = Len(s)
  BY WrittenFacts DEF GoodMemory, SameShape
<1>3. \A i \in 1..Len(s) : t[i] = IF a + b < i /\ i <= a + b + Len(d) THEN d[i - (a + b)] ELSE s[i]
  BY <1>1, WrittenFacts
<1>b. b = m.pos - a
  OBVIOUS
<1> HIDE DEF s, t, b
<1>4. c \in Bytes /\ Len(c) = l /\ \A i \in 1..l : c[i] = s[a + i]
  BY <1>1, Part
<1>5. e \in Bytes /\ Len(e) = l /\ \A i \in 1..l : e[i] = t[a + i]
  BY <1>1, <1>2, Part
<1> HIDE DEF c, e
<1>6. w \in Bytes /\ Len(w) = l
      /\ \A i \in 1..l : w[i] = IF b < i /\ i <= b + Len(d) THEN d[i - b] ELSE c[i]
  <2> HIDE DEF w
  <2>1. b <= Len(c) /\ ~(b + Len(d) > Len(c)) /\ c \in Bytes /\ b \in Nat
    BY <1>1, <1>4
  <2>2. /\ OverlayAt(c, b, d) \in Bytes
        /\ Len(OverlayAt(c, b, d)) = IF b + Len(d) > Len(c) THEN b + Len(d) ELSE Len(c)
        /\ \A i \in 1..Len(OverlayAt(c, b, d)) :
             OverlayAt(c, b, d)[i] = IF b < i /\ i <= b + Len(d) THEN d[i - b] ELSE c[i]
    BY <2>1, OverlayFacts
  <2>3. w \in Bytes /\ Len(w) = Len(c)
    BY <2>1, <2>2 DEF w
  <2>4. \A i \in 1..Len(w) : w[i] = IF b < i /\ i <= b + Len(d) THEN d[i - b] ELSE c[i]
    BY <2>2 DEF w
  <2>5. QED
    BY <1>4, <2>3, <2>4
<1> HIDE DEF w
<1>7. \A i \in 1..Len(e) : e[i] = w[i]
  <2> SUFFICES ASSUME NEW i \in 1..l PROVE e[i] = w[i]
    BY <1>5
  <2> DEFINE j == a + i
  <2>1. j \in 1..Len(s)
    BY <1>1
  <2>2. e[i] = t[j] /\ c[i] = s[j]
    BY <1>4, <1>5
  <2>3. CASE b < i /\ i <= b + Len(d)
    <3>1. a + b < j /\ j <= a + b + Len(d) /\ j - (a + b) = i - b
      BY <1>1, <2>3
    <3> HIDE DEF j
    <3>2. t[j] = d[i - b]
      <4>1. t[j] = d[j - (a + b)]
        BY <1>3, <2>1, <3>1
      <4>2. QED
        BY <3>1, <4>1
    <3>3. QED
      BY <1>6, <2>2, <2>3, <3>2
  <2>4. CASE ~(b < i /\ i <= b + Len(d))
    <3>1. ~(a + b < j /\ j <= a + b + Len(d))
      BY <1>1, <2>4
    <3> HIDE DEF j
    <3>2. t[j] = s[j]
      BY <1>3, <2>1, <3>1
    <3>3. QED
      BY <1>6, <2>2, <2>4, <3>2
  <2>5. QED
    BY <2>3, <2>4
<1>8. e = w
  BY <1>5, <1>6, <1>7, Same
<1>9. SubSeq(e, 1, Len(w)) = w
  <2> DEFINE v == SubSeq(e, 1, l)
  <2>1. v \in Bytes /\ Len(v) = l /\ \A i \in 1..l : v[i] = e[i]
    BY <1>5, Start
  <2> HIDE DEF v
  <2>2. v = e
    BY <1>5, <2>1, Same
  <2>3. QED
    BY <1>6, <1>8, <2>2 DEF v
<1>10. Overwritten(c, b, d, e)
  BY <1>5, <1>6, <1>9 DEF Overwritten, w
<1>11. \A i \in 1..Len(s) : i \notin (a + 1)..(a + l) => t[i] = s[i]
  BY <1>1, <1>3
<1>12. QED
  BY <1>4, <1>5, <1>10, <1>11, <1>b DEF s, t, c, e, Seen

\* The windows, and the memory readers they are opened on.
WindowKinds == {"offset", "checked", "range"}
Memories == {m \in [kind : {"memory"}, mem : Bytes, size : Nat, pos : Nat, growable : BOOLEAN,
                    readonly : BOOLEAN] : GoodMemory(m) /\ m.size = Len(m.mem)}

\* The window is inside the reader below it; what holds in step or not.
WindowShape(w) ==
  /\ w \in [kind : WindowKinds, under : Memories, base : Nat, size : Nat, pos : Nat]
  /\ w.base + w.size <= Len(w.under.mem)
  /\ w.kind = "checked" => w.under.pos = w.base + w.pos /\ w.pos <= w.size
  /\ w.kind = "range" => w.base <= w.pos /\ w.pos <= w.base + w.size

\* In step, the reader below is where the window left it.
GoodWindow(w) ==
  /\ w \in [kind : WindowKinds, under : Memories, base : Nat, size : Nat, pos : Nat]
  /\ w.base + w.size <= Len(w.under.mem)
  /\ w.kind = "offset" => w.base <= w.under.pos
  /\ w.kind = "checked" => w.under.pos = w.base + w.pos /\ w.pos <= w.size
  /\ w.kind = "range" => w.under.pos = w.pos /\ w.base <= w.pos /\ w.pos <= w.base + w.size

\* An OffsetReader does not look at its size: it is a stream of that size only
\* when the reader below ends where it does.
EndsBelow(w) == w.kind = "offset" => w.base + w.size = Len(w.under.mem)

\* Where a window begins and how long it is, as the callers count.
from(w) == IF w.kind = "range" THEN 0 ELSE w.base
long(w) == IF w.kind = "range" THEN w.base + w.size ELSE w.size

\* A window over m that moved by k.
Shifted(w, m, k) == [w EXCEPT !.under = m, !.pos = @ + k]

\* A window is in step when the reader below stands where it thinks.
LEMMA WindowStep ==
  ASSUME NEW w
  PROVE  GoodWindow(w) <=> WindowShape(w) /\ InStep(w)
<1>1. w.kind \in WindowKinds => ~Memory(w.kind) /\ w.kind \notin {"file", "block", "compressed"}
  BY DEF WindowKinds, Memory
<1>2. /\ w.kind = "offset" => (InStep(w) <=> w.base <= w.under.pos)
      /\ w.kind = "checked" => (InStep(w) <=> w.under.pos = w.base + w.pos)
      /\ w.kind = "range" => (InStep(w) <=> w.under.pos = w.pos)
  BY DEF InStep
<1>3. QED
  BY <1>1, <1>2 DEF GoodWindow, WindowShape, WindowKinds

\* What is known of the reader below a window.
LEMMA UnderShape ==
  ASSUME NEW w, WindowShape(w)
  PROVE  /\ w.under \in Memories /\ GoodMemory(w.under) /\ w.under.kind = "memory"
         /\ w.under.size = Len(w.under.mem) /\ w.under.size \in Nat /\ w.under.pos \in Nat
         /\ w.under.pos <= w.under.size
         /\ w.base \in Nat /\ w.size \in Nat /\ w.pos \in Nat /\ w.kind \in WindowKinds
<1>1. /\ w.under \in Memories
      /\ w.base \in Nat /\ w.size \in Nat /\ w.pos \in Nat /\ w.kind \in WindowKinds
  BY DEF WindowShape
<1> DEFINE m == w.under
<1> HIDE DEF m
<1>2. m \in Memories
  BY <1>1 DEF m
<1>3. GoodMemory(m) /\ m.kind = "memory" /\ m.size = Len(m.mem)
  BY <1>2 DEF Memories
<1>4. m.size \in Nat /\ m.pos \in Nat /\ m.pos <= m.size
  BY <1>3 DEF GoodMemory
<1>5. QED
  BY <1>1, <1>2, <1>3, <1>4 DEF m

\* The same in step.
LEMMA UnderFacts ==
  ASSUME NEW w, GoodWindow(w)
  PROVE  /\ w.under \in Memories /\ GoodMemory(w.under) /\ w.under.kind = "memory"
         /\ w.under.size = Len(w.under.mem) /\ w.under.size \in Nat /\ w.under.pos \in Nat
         /\ w.under.pos <= w.under.size
         /\ w.base \in Nat /\ w.size \in Nat /\ w.pos \in Nat /\ w.kind \in WindowKinds
BY WindowStep, UnderShape

\* A memory reader that has kept its shape can stay below the window.
LEMMA StillBelow ==
  ASSUME NEW m \in Memories, NEW y, GoodMemory(y), SameShape(m, y)
  PROVE  y \in Memories /\ Len(y.mem) = Len(m.mem)
BY DEF Memories, SameShape, GoodMemory

\* A window stays good that moves along with the reader below it.
LEMMA ShiftedFacts ==
  ASSUME NEW w, GoodWindow(w), NEW y \in Memories, Len(y.mem) = Len(w.under.mem), NEW k \in Nat,
         w.kind = "offset" => k = 0 /\ w.base <= y.pos,
         w.kind # "offset" => y.pos = w.under.pos + k /\ y.pos <= w.base + w.size
  PROVE  LET v == Shifted(w, y, k) IN
         /\ GoodWindow(v) /\ v.kind = w.kind /\ v.under = y /\ v.base = w.base /\ v.size = w.size
         /\ v.pos = w.pos + k /\ (EndsBelow(w) => EndsBelow(v))
<1> DEFINE v == Shifted(w, y, k)
           j == w.pos + k
<1>1. j \in Nat /\ y.pos \in Nat
  BY DEF GoodWindow, Memories
<1>2. v = [w EXCEPT !.under = y, !.pos = j]
  BY DEF Shifted
<1> HIDE DEF v
<1>3. /\ v \in [kind : WindowKinds, under : Memories, base : Nat, size : Nat, pos : Nat]
      /\ v.kind = w.kind /\ v.under = y /\ v.base = w.base /\ v.size = w.size /\ v.pos = j
  BY <1>1, <1>2 DEF GoodWindow
<1>4. w.base \in Nat /\ w.size \in Nat /\ w.pos \in Nat /\ w.under.pos \in Nat
  BY UnderFacts
<1>5. w.kind = "checked" => y.pos = w.base + j /\ j <= w.size
  BY <1>1, <1>4 DEF GoodWindow
<1>6. w.kind = "range" => y.pos = j /\ w.base <= j /\ j <= w.base + w.size
  BY <1>1, <1>4 DEF GoodWindow
<1>7. GoodWindow(v)
  BY <1>3, <1>5, <1>6 DEF GoodWindow
<1>8. EndsBelow(w) => EndsBelow(v)
  BY <1>3 DEF EndsBelow
<1>9. QED
  BY <1>3, <1>7, <1>8 DEF v, j

\* Which definitions the calls of a window take.
LEMMA ShapeDispatch ==
  ASSUME NEW x, WindowShape(x)
  PROVE  /\ \A n, io : read(x, n, io) = wread(x, n)
         /\ \A p : write(x, p) = wwrite(x, p)
         /\ \A off : setpos(x, off) = wsetpos(x, off)
         /\ size(x) = Done(x, long(x))
         /\ Content(x) = Seen(x.under, from(x), long(x))
         /\ getpos(x) = wgetpos(x)
         /\ from(x) \in Nat /\ long(x) \in Nat /\ from(x) + long(x) = x.base + x.size
         /\ from(x) + long(x) <= Len(x.under.mem)
<1>1. ~Memory(x.kind) /\ IsWindow(x.kind) /\ x.kind \notin {"file", "block", "compressed"}
  BY DEF WindowShape, WindowKinds, Memory, IsWindow
<1>2. \A n, io : read(x, n, io) = wread(x, n)
  BY <1>1 DEF read
<1>3. \A p : write(x, p) = wwrite(x, p)
  BY <1>1 DEF write
<1>4. \A off : setpos(x, off) = wsetpos(x, off)
  BY <1>1 DEF setpos
<1>5. size(x) = Done(x, long(x))
  BY <1>1 DEF size, wsize, long
<1>6. x.base \in Nat /\ x.size \in Nat /\ x.kind \in WindowKinds
  BY UnderShape
<1>7. from(x) \in Nat /\ long(x) \in Nat /\ from(x) + long(x) = x.base + x.size
  BY <1>6 DEF from, long
<1>8. getpos(x) = wgetpos(x)
  BY <1>1 DEF getpos
<1>9. Content(x) = Seen(x.under, from(x), long(x))
  <2>1. CASE x.kind = "range"
    <3>1. Content(x) = SubSeq(x.under.mem, 1, x.base + x.size)
      BY <1>1, <2>1 DEF Content
    <3>2. 0 + 1 = 1 /\ 0 + (x.base + x.size) = x.base + x.size
      BY <1>6
    <3>3. QED
      BY <2>1, <3>1, <3>2 DEF Seen, from, long
  <2>2. CASE x.kind # "range"
    <3>1. Content(x) = SubSeq(x.under.mem, x.base + 1, x.base + x.size)
      BY <1>1, <1>6, <2>2 DEF Content, WindowKinds
    <3>2. QED
      BY <2>2, <3>1 DEF Seen, from, long
  <2>3. QED
    BY <2>1, <2>2
<1>10. QED
  BY <1>2, <1>3, <1>4, <1>5, <1>7, <1>8, <1>9 DEF WindowShape

\* In step, the position is that of the reader below.
LEMMA WindowDispatch ==
  ASSUME NEW x, GoodWindow(x)
  PROVE  /\ \A n, io : read(x, n, io) = wread(x, n)
         /\ \A p : write(x, p) = wwrite(x, p)
         /\ \A off : setpos(x, off) = wsetpos(x, off)
         /\ size(x) = Done(x, long(x))
         /\ Content(x) = Seen(x.under, from(x), long(x))
         /\ getpos(x) = x.under.pos - from(x)
         /\ from(x) \in Nat /\ long(x) \in Nat /\ from(x) + long(x) = x.base + x.size
         /\ from(x) + long(x) <= Len(x.under.mem) /\ from(x) <= x.under.pos
<1>1. WindowShape(x)
  BY WindowStep
<1>2. /\ x.base \in Nat /\ x.size \in Nat /\ x.pos \in Nat /\ x.under.pos \in Nat
      /\ x.kind \in WindowKinds
  BY UnderFacts
<1>3. from(x) <= x.under.pos
  BY <1>2 DEF from, GoodWindow, WindowKinds
<1>4. wgetpos(x) = x.under.pos - from(x)
  <2>1. CASE x.kind = "offset"
    <3>1. ~(x.under.pos - x.base < 0)
      BY <1>2, <2>1 DEF GoodWindow
    <3>2. QED
      BY <2>1, <3>1 DEF wgetpos, Wrap, from
  <2>2. CASE x.kind # "offset"
    BY <1>2, <2>2 DEF wgetpos, from, GoodWindow, WindowKinds
  <2>3. QED
    BY <2>1, <2>2
<1>5. QED
  BY <1>1, <1>3, <1>4, ShapeDispatch

\* The result of the reader below, with the window in its place.
LEMMA OtherReader ==
  ASSUME NEW y, NEW d, NEW v
  PROVE  [Done(y, d) EXCEPT !.r = v] = Done(v, d)
<1> DEFINE a == [Done(y, d) EXCEPT !.r = v]
           b == Done(v, d)
           Answers == [r : {y, v}, out : {d}, thrown : BOOLEAN]
<1>1. a \in Answers /\ b \in Answers
  BY DEF Done
<1>2. a.r = b.r /\ a.out = b.out /\ a.thrown = b.thrown
  BY DEF Done
<1> HIDE DEF a, b
<1>3. a = b
  BY <1>1, <1>2
<1>4. QED
  BY <1>3 DEF a, b

\* A call passed on to the reader below: the same bytes, the window moved.
LEMMA BelowFacts ==
  ASSUME NEW w, NEW y, NEW out, NEW k
  PROVE  Below(w, Done(y, out), k) = Done(Shifted(w, y, k), out)
<1> DEFINE o == Done(y, out)
           v == Shifted(w, y, k)
<1>1. o.r = y /\ ~o.thrown
  BY DEF Done
<1>2. Below(w, o, k) = [o EXCEPT !.r = v]
  <2> HIDE DEF o
  <2>1. [w EXCEPT !.under = o.r, !.pos = IF o.thrown THEN @ ELSE @ + k] = v
    BY <1>1 DEF Shifted
  <2>2. QED
    BY <2>1 DEF Below
<1>3. QED
  BY <1>2, OtherReader

\* What the windows have in common: how many bytes an access may take.
Reach(x) == IF x.kind = "offset" THEN x.under.size - x.under.pos ELSE limit(x)

\* How far an access of the window gets: its end, or that of the reader below.
LEMMA ReachFacts ==
  ASSUME NEW x, GoodWindow(x)
  PROVE  /\ Reach(x) \in Nat /\ x.under.pos + Reach(x) <= x.under.size
         /\ x.kind # "offset" => x.under.pos + Reach(x) = x.base + x.size
         /\ EndsBelow(x) => Reach(x) = Left(x) /\ x.under.pos + Reach(x) = from(x) + long(x)
<1>1. /\ x.base \in Nat /\ x.size \in Nat /\ x.pos \in Nat /\ x.under.pos \in Nat
      /\ x.under.size \in Nat /\ x.under.pos <= x.under.size /\ x.under.size = Len(x.under.mem)
      /\ x.kind \in WindowKinds
  BY UnderFacts
<1>2. /\ from(x) \in Nat /\ long(x) \in Nat /\ from(x) + long(x) = x.base + x.size
      /\ getpos(x) = x.under.pos - from(x) /\ x.base + x.size <= x.under.size
  BY <1>1, WindowDispatch DEF GoodWindow
<1>3. /\ Reach(x) \in Nat /\ x.under.pos + Reach(x) <= x.under.size
      /\ x.kind # "offset" => x.under.pos + Reach(x) = x.base + x.size
  <2>1. CASE x.kind = "offset"
    BY <1>1, <2>1 DEF Reach
  <2>2. CASE x.kind = "checked"
    <3>1. Reach(x) = x.size - x.pos /\ x.under.pos = x.base + x.pos /\ x.pos <= x.size
      BY <2>2 DEF Reach, limit, GoodWindow
    <3> DEFINE a == x.base
               z == x.size
               p == x.pos
               q == x.under.pos
               l == x.under.size
    <3>2. /\ a \in Nat /\ z \in Nat /\ p \in Nat /\ l \in Nat /\ q = a + p /\ p <= z /\ a + z <= l
          /\ Reach(x) = z - p
      BY <1>1, <1>2, <3>1
    <3> HIDE DEF a, z, p, q, l
    <3>3. z - p \in Nat /\ q + (z - p) <= l /\ q + (z - p) = a + z
      BY <3>2
    <3>4. QED
      BY <3>2, <3>3 DEF a, z, q, l
  <2>3. CASE x.kind = "range"
    <3>1. Reach(x) = x.base + x.size - x.pos /\ x.under.pos = x.pos /\ x.pos <= x.base + x.size
      BY <2>3 DEF Reach, limit, GoodWindow
    <3>2. QED
      BY <1>1, <1>2, <3>1
  <2>4. QED
    BY <1>1, <2>1, <2>2, <2>3 DEF WindowKinds
<1>4. EndsBelow(x) => x.under.pos + Reach(x) = from(x) + long(x)
  BY <1>1, <1>2, <1>3 DEF Reach, EndsBelow
<1>5. Len(Content(x)) = long(x)
  <2> DEFINE s == x.under.mem
             a == from(x)
             l == long(x)
  <2>1. s \in Bytes /\ a \in Nat /\ l \in Nat /\ a + l <= Len(s)
    BY <1>2, WindowDispatch, UnderFacts DEF GoodMemory
  <2>2. Content(x) = SubSeq(s, a + 1, a + l)
    BY WindowDispatch DEF Seen
  <2> HIDE DEF s, a, l
  <2>3. Len(Content(x)) = l
    BY <2>1, <2>2, Part
  <2>4. QED
    BY <2>3 DEF l
<1>6. EndsBelow(x) => Reach(x) = Left(x)
  <2> DEFINE a == from(x)
             l == long(x)
             p == x.under.pos
             k == Reach(x)
  <2>1. a \in Nat /\ l \in Nat /\ p \in Nat /\ k \in Nat
    BY <1>1, <1>2, <1>3
  <2>2. Left(x) = l - (p - a)
    BY <1>2, <1>5 DEF Left
  <2>3. EndsBelow(x) => p + k = a + l
    BY <1>4
  <2> HIDE DEF a, l, p, k
  <2>4. EndsBelow(x) => k = Left(x)
    BY <2>1, <2>2, <2>3
  <2>5. QED
    BY <2>4 DEF k
<1>7. QED
  BY <1>3, <1>4, <1>6

\* The same window on the same bytes.
SameView(x, v) ==
  v.kind = x.kind /\ v.base = x.base /\ v.size = x.size /\ v.under.mem = x.under.mem

\* Such windows show the same bytes.
LEMMA SameViewContent ==
  ASSUME NEW x, WindowShape(x), NEW v, WindowShape(v), SameView(x, v)
  PROVE  Content(v) = Content(x) /\ from(v) = from(x) /\ long(v) = long(x)
<1>1. from(v) = from(x) /\ long(v) = long(x)
  BY DEF SameView, from, long
<1>2. Seen(v.under, from(v), long(v)) = Seen(x.under, from(x), long(x))
  BY <1>1 DEF SameView, Seen
<1>3. QED
  BY <1>1, <1>2, ShapeDispatch

\* A read of a window that ends where the reader below does, or is limited, is that
\* of a stream; no read of a window writes.
LEMMA WindowRead ==
  ASSUME NEW x, GoodWindow(x), NEW n \in Nat, NEW io
  PROVE  LET o == read(x, n, io) IN
         /\ GoodWindow(o.r) /\ SameView(x, o.r) /\ o.out \in Bytes /\ ~o.thrown
         /\ EndsBelow(x) => EndsBelow(o.r) /\ Reads(x, n, o)
<1> DEFINE m == x.under
           k == Min2(n, Reach(x))
           y == Moved(m, k)
           move == IF x.kind = "offset" THEN 0 ELSE k
           v == Shifted(x, y, move)
           d == SubSeq(Held(m), m.pos + 1, m.pos + k)
           o == read(x, n, io)
<1>1. /\ GoodMemory(m) /\ m \in Memories /\ m.size = Len(m.mem) /\ m.mem \in Bytes
      /\ m.pos \in Nat /\ m.size \in Nat
      /\ x.base \in Nat /\ x.size \in Nat /\ x.pos \in Nat /\ x.kind \in WindowKinds
  BY UnderFacts DEF GoodMemory
<1>2. /\ Reach(x) \in Nat /\ m.pos + Reach(x) <= m.size
      /\ x.kind # "offset" => m.pos + Reach(x) = x.base + x.size
      /\ EndsBelow(x) => Reach(x) = Left(x) /\ m.pos + Reach(x) = from(x) + long(x)
  BY ReachFacts
<1>3. k \in Nat /\ k <= n /\ k <= Reach(x) /\ m.pos + k <= m.size
  BY <1>1, <1>2 DEF Min2
<1>4. Held(m) = m.mem
  <2>1. Held(m) \in Bytes /\ Len(Held(m)) = Len(m.mem)
        /\ \A i \in 1..Len(m.mem) : Held(m)[i] = m.mem[i]
    BY <1>1, HeldFacts
  <2>2. QED
    BY <1>1, <2>1, Same
<1>5. o = Done(v, d)
  <2>1. read(x, n, io) = wread(x, n)
    BY WindowDispatch
  <2>2. CASE x.kind = "offset"
    <3>1. mread(m, n) = Done(y, d)
      BY <1>1, <2>2, MemoryRead DEF Reach
    <3>2. wread(x, n) = Below(x, mread(m, n), 0)
      BY <2>2 DEF wread, offsetread
    <3>3. move = 0
      BY <2>2
    <3> HIDE DEF y, d, move
    <3>4. QED
      BY <2>1, <3>1, <3>2, <3>3, BelowFacts
  <2>3. CASE x.kind # "offset"
    <3>1. limit(x) = Reach(x)
      BY <2>3 DEF Reach
    <3>2. Min2(k, m.size - m.pos) = k
      <4> DEFINE left == m.size - m.pos
      <4>1. k \in Nat /\ left \in Int /\ k <= left
        BY <1>1, <1>3
      <4> HIDE DEF k, left
      <4>2. Min2(k, left) = k
        BY <4>1 DEF Min2
      <4>3. QED
        BY <4>2 DEF left
    <3>3. mread(m, k) = Done(y, d)
      <4> HIDE DEF k
      <4>1. mread(m, k) = Done(Moved(m, Min2(k, m.size - m.pos)),
                               SubSeq(Held(m), m.pos + 1, m.pos + Min2(k, m.size - m.pos)))
        BY <1>1, <1>3, MemoryRead
      <4>2. QED
        BY <3>2, <4>1
    <3>4. wread(x, n) = Below(x, mread(m, k), Len(mread(m, k).out))
      BY <2>3, <3>1 DEF wread, limitedread
    <3>5. d \in Bytes /\ Len(d) = k
      <4> DEFINE s == m.mem
                 a == m.pos
      <4>1. s \in Bytes /\ a \in Nat /\ k \in Nat /\ a + k <= Len(s) /\ d = SubSeq(s, a + 1, a + k)
        BY <1>1, <1>3, <1>4
      <4> HIDE DEF s, a, k, d
      <4>2. QED
        BY <4>1, Part
    <3>6. move = k
      BY <2>3
    <3> HIDE DEF y, d, move, k
    <3>7. Len(mread(m, k).out) = move
      BY <3>3, <3>5, <3>6 DEF Done
    <3>8. QED
      BY <2>1, <3>3, <3>4, <3>7, BelowFacts
  <2>4. QED
    BY <2>2, <2>3
<1> HIDE DEF k
<1>6. /\ y \in Memories /\ y.mem = m.mem /\ y.pos = m.pos + k
  <2>1. GoodMemory(y) /\ SameBuffer(m, y) /\ y.pos = m.pos + k
    BY <1>1, <1>3, MovedFacts
  <2> HIDE DEF y
  <2>2. SameShape(m, y) /\ y.mem = m.mem
    BY <2>1 DEF SameShape, SameBuffer
  <2>3. y \in Memories
    BY <1>1, <2>1, <2>2, StillBelow
  <2>4. QED
    BY <2>1, <2>2, <2>3
<1>7. /\ GoodWindow(v) /\ v.kind = x.kind /\ v.under = y /\ v.base = x.base /\ v.size = x.size
      /\ (EndsBelow(x) => EndsBelow(v))
  <2>1. move \in Nat
    BY <1>3
  <2>2. x.kind = "offset" => move = 0 /\ x.base <= y.pos
    BY <1>1, <1>3, <1>6 DEF GoodWindow
  <2>3. x.kind # "offset" => y.pos = m.pos + move /\ y.pos <= x.base + x.size
    BY <1>1, <1>2, <1>3, <1>6
  <2> HIDE DEF y, move
  <2>4. QED
    BY <1>6, <2>1, <2>2, <2>3, ShiftedFacts
<1> HIDE DEF v, y
<1>8. o.r = v /\ o.out = d /\ ~o.thrown
  <2> HIDE DEF o, d
  <2>1. QED
    BY <1>5 DEF Done
<1>9. SameView(x, v)
  BY <1>6, <1>7 DEF SameView
<1>10. ASSUME EndsBelow(x) PROVE Reads(x, n, o)
  <2>1. /\ Content(x) = Seen(m, from(x), long(x)) /\ getpos(x) = m.pos - from(x)
        /\ from(x) \in Nat /\ long(x) \in Nat /\ from(x) + long(x) <= Len(m.mem) /\ from(x) <= m.pos
    BY WindowDispatch
  <2>2. d = SubSeq(Content(x), getpos(x) + 1, getpos(x) + k)
    <3>1. m.pos + k <= from(x) + long(x)
      BY <1>1, <1>2, <1>3, <1>10
    <3>2. SubSeq(m.mem, m.pos + 1, m.pos + k)
            = SubSeq(Seen(m, from(x), long(x)), (m.pos - from(x)) + 1, (m.pos - from(x)) + k)
      <4> DEFINE a == from(x)
                 l == long(x)
      <4>1. /\ GoodMemory(m) /\ a \in Nat /\ l \in Nat /\ a + l <= Len(m.mem) /\ a <= m.pos
            /\ k \in Nat /\ m.pos + k <= a + l
        BY <1>1, <1>3, <2>1, <3>1
      <4> HIDE DEF a, l, m, d, o, move
      <4>2. SubSeq(m.mem, m.pos + 1, m.pos + k)
                = SubSeq(Seen(m, a, l), (m.pos - a) + 1, (m.pos - a) + k)
        BY <4>1, SeenRead
      <4>3. QED
        BY <4>2 DEF a, l
    <3>3. QED
      BY <1>4, <2>1, <3>2
  <2>3. k = Min2(n, Left(x))
    BY <1>2, <1>10 DEF k
  <2>4. getpos(v) = getpos(x) + k
    <3>1. getpos(v) = y.pos - from(v) /\ from(v) = from(x)
      BY <1>7, <1>9, WindowDispatch, SameViewContent, WindowStep
    <3>2. QED
      BY <1>1, <1>3, <1>6, <2>1, <3>1
  <2>5. SameStream(x, v, getpos(x) + k)
    BY <1>7, <1>9, <2>4, SameViewContent, WindowStep DEF SameStream
  <2> HIDE DEF d, o
  <2>6. QED
    BY <1>8, <2>2, <2>3, <2>5 DEF Reads
<1>11. d \in Bytes
  <2> DEFINE s == m.mem
             a == m.pos
  <2>1. s \in Bytes /\ a \in Nat /\ k \in Nat /\ a + k <= Len(s) /\ d = SubSeq(s, a + 1, a + k)
    BY <1>1, <1>3, <1>4
  <2> HIDE DEF s, a, d
  <2>2. QED
    BY <2>1, Part
<1>12. QED
  BY <1>7, <1>8, <1>9, <1>10, <1>11

\* The bytes outside the window.
KeepsOutside(x, v) ==
  \A k \in 1..Len(x.under.mem) :
    k \notin (x.base + 1)..(x.base + x.size) => v.under.mem[k] = x.under.mem[k]

\* A write that throws before the reader below is reached.
LEMMA WindowFails ==
  ASSUME NEW x, GoodWindow(x), NEW o, o.r = x, o.thrown
  PROVE  GoodWindow(o.r) /\ KeepsOutside(x, o.r) /\ Writes(x, o)
BY DEF KeepsOutside, Writes, Fails, SameStream

\* Bytes written below the window, as far as they fit.
LEMMA WindowWrites ==
  ASSUME NEW x, GoodWindow(x), NEW d \in Bytes, Len(d) <= Reach(x), NEW move,
         move = IF x.kind = "offset" THEN 0 ELSE Len(d)
  PROVE  LET v == Shifted(x, Written(x.under, d), move) IN
         /\ GoodWindow(v) /\ v.kind = x.kind
         /\ EndsBelow(x) =>
              EndsBelow(v) /\ KeepsOutside(x, v) /\ Writes(x, Done(v, d))
         /\ x.kind # "offset" => KeepsOutside(x, v)
<1> DEFINE m == x.under
           y == Written(m, d)
           v == Shifted(x, y, move)
<1>1. /\ GoodMemory(m) /\ m \in Memories /\ m.size = Len(m.mem) /\ m.mem \in Bytes
      /\ m.pos \in Nat /\ m.size \in Nat /\ Len(d) \in Nat
      /\ x.base \in Nat /\ x.size \in Nat /\ x.pos \in Nat /\ x.kind \in WindowKinds
  BY UnderFacts, LenProperties DEF GoodMemory, Bytes
<1>2. /\ Reach(x) \in Nat /\ m.pos + Reach(x) <= m.size
      /\ x.kind # "offset" => m.pos + Reach(x) = x.base + x.size
      /\ EndsBelow(x) => Reach(x) = Left(x) /\ m.pos + Reach(x) = from(x) + long(x)
  BY ReachFacts
<1>3. /\ GoodMemory(y) /\ SameShape(m, y) /\ y.pos = m.pos + Len(d)
      /\ y \in Memories /\ Len(y.mem) = Len(m.mem)
  <2>1. Len(d) <= m.size - m.pos
    BY <1>1, <1>2
  <2>2. GoodMemory(y) /\ SameShape(m, y) /\ y.pos = m.pos + Len(d)
    BY <1>1, <2>1, WrittenFacts
  <2> HIDE DEF y
  <2>3. QED
    BY <1>1, <2>2, StillBelow
<1>4. /\ GoodWindow(v) /\ v.kind = x.kind /\ v.under = y /\ v.base = x.base /\ v.size = x.size
      /\ (EndsBelow(x) => EndsBelow(v))
  <2>1. move \in Nat
    BY <1>1
  <2>2. x.kind = "offset" => move = 0 /\ x.base <= y.pos
    BY <1>1, <1>3 DEF GoodWindow
  <2>3. x.kind # "offset" => y.pos = m.pos + move /\ y.pos <= x.base + x.size
    BY <1>1, <1>2, <1>3
  <2> HIDE DEF y
  <2>4. QED
    BY <1>3, <2>1, <2>2, <2>3, ShiftedFacts
<1>d. /\ Content(x) = Seen(m, from(x), long(x)) /\ getpos(x) = m.pos - from(x)
      /\ from(x) \in Nat /\ long(x) \in Nat /\ from(x) + long(x) <= Len(m.mem) /\ from(x) <= m.pos
      /\ from(x) + long(x) = x.base + x.size
  BY WindowDispatch
<1>5. ASSUME m.pos + Len(d) <= x.base + x.size
      PROVE  KeepsOutside(x, v) /\ Overwritten(Content(x), getpos(x), d, Seen(y, from(x), long(x)))
  <2> DEFINE a == from(x)
             l == long(x)
  <2>1. /\ a \in Nat /\ l \in Nat /\ a + l <= Len(m.mem) /\ a <= m.pos /\ m.pos + Len(d) <= a + l
        /\ Len(d) <= m.size - m.pos
    <3>1. a \in Nat /\ l \in Nat /\ a + l <= Len(m.mem) /\ a <= m.pos
      BY <1>d
    <3>2. m.pos + Len(d) <= a + l
      BY <1>5, <1>d
    <3> DEFINE p == m.pos
               z == m.size
               k == Reach(x)
    <3>3. p \in Nat /\ z \in Nat /\ k \in Nat /\ p + k <= z /\ Len(d) <= k /\ Len(d) \in Nat
      BY <1>1, <1>2
    <3> HIDE DEF p, z, k
    <3>4. Len(d) <= z - p
      BY <3>3
    <3>5. QED
      BY <3>1, <3>2, <3>4 DEF p, z
  <2> HIDE DEF a, l, m
  <2>2. Overwritten(Seen(m, a, l), m.pos - a, d, Seen(Written(m, d), a, l))
    BY <1>1, <2>1, SeenWrite
  <2>3. \A i \in 1..Len(m.mem) :
          i \notin (x.base + 1)..(x.base + x.size) => Written(m, d).mem[i] = m.mem[i]
    <3>1. \A i \in 1..Len(m.mem) :
            Written(m, d).mem[i]
                  = IF m.pos < i /\ i <= m.pos + Len(d) THEN d[i - m.pos] ELSE m.mem[i]
      BY <1>1, <2>1, WrittenFacts
    <3>2. x.base <= m.pos
      BY <1>1 DEF GoodWindow, WindowKinds, m
    <3> SUFFICES ASSUME NEW i \in 1..Len(m.mem), i \notin (x.base + 1)..(x.base + x.size)
                 PROVE  Written(m, d).mem[i] = m.mem[i]
      OBVIOUS
    <3>3. ~(m.pos < i /\ i <= m.pos + Len(d))
      BY <1>1, <1>5, <3>2
    <3>4. QED
      BY <3>1, <3>3
  <2>4. QED
    BY <1>4, <1>d, <2>2, <2>3 DEF KeepsOutside, a, l, m
<1>6. ASSUME EndsBelow(x) PROVE KeepsOutside(x, v) /\ Writes(x, Done(v, d))
  <2>1. m.pos + Len(d) <= x.base + x.size
    BY <1>1, <1>2, <1>6, <1>d
  <2>2. KeepsOutside(x, v) /\ Overwritten(Content(x), getpos(x), d, Seen(y, from(x), long(x)))
    BY <1>5, <2>1
  <2>3. from(v) = from(x) /\ long(v) = long(x)
    BY <1>4 DEF from, long
  <2> HIDE DEF v, y, m
  <2>4. Content(v) = Seen(y, from(x), long(x)) /\ getpos(v) = y.pos - from(x)
    BY <1>4, <2>3, WindowDispatch
  <2>5. getpos(v) = getpos(x) + Len(d)
    BY <1>1, <1>3, <1>d, <2>4
  <2> DEFINE o == Done(v, d)
  <2>6. o.r = v /\ o.out = d /\ ~o.thrown
    BY DEF Done
  <2> HIDE DEF o
  <2>7. Writes(x, o)
    BY <1>4, <2>2, <2>4, <2>5, <2>6 DEF Writes
  <2>8. QED
    BY <2>2, <2>7 DEF o
<1>7. ASSUME x.kind # "offset" PROVE KeepsOutside(x, v)
  BY <1>1, <1>2, <1>5, <1>7
<1>8. QED
  BY <1>4, <1>6, <1>7

\* A write of a window keeps what is outside of it.
LEMMA WindowWrite ==
  ASSUME NEW x, GoodWindow(x), NEW p \in Bytes
  PROVE  LET o == write(x, p) IN
         /\ GoodWindow(o.r) /\ o.r.kind = x.kind
         /\ EndsBelow(x) => EndsBelow(o.r) /\ KeepsOutside(x, o.r) /\ Writes(x, o)
         /\ x.kind # "offset" => KeepsOutside(x, o.r)
<1> DEFINE m == x.under
           o == write(x, p)
           w == mwrite(m, p)
           d == w.out
           move == IF x.kind = "offset" THEN 0 ELSE Len(p)
<1>1. /\ GoodMemory(m) /\ m.kind = "memory" /\ m.pos \in Nat /\ m.size \in Nat /\ Len(p) \in Nat
  BY UnderFacts, LenProperties DEF Bytes
<1>2. o = wwrite(x, p)
  BY WindowDispatch
<1>3. Reach(x) \in Nat /\ m.pos + Reach(x) <= m.size
  BY ReachFacts
<1>4. CASE x.kind # "offset" /\ limit(x) < Len(p)
  <2>1. o = Throws(x)
    BY <1>2, <1>4 DEF wwrite, limitedwrite
  <2>2. o.r = x /\ o.thrown
    BY <2>1 DEF Throws
  <2> HIDE DEF o
  <2>3. QED
    BY <2>2, WindowFails DEF o
<1>5. CASE ~(x.kind # "offset" /\ limit(x) < Len(p))
  <2>1. o = Below(x, w, move)
    BY <1>2, <1>5 DEF wwrite, limitedwrite, offsetwrite
  <2>2. CASE m.readonly
    <3>1. w = Throws(m)
      BY <2>2 DEF mwrite
    <3> HIDE DEF w, o, move
    <3>2. w.r = m /\ w.thrown
      BY <3>1 DEF Throws
    <3>3. [x EXCEPT !.under = w.r, !.pos = IF w.thrown THEN @ ELSE @ + move] = x
      <4>1. [x EXCEPT !.under = x.under, !.pos = x.pos] = x
        BY DEF GoodWindow
      <4>2. QED
        BY <3>2, <4>1
    <3>4. o = [w EXCEPT !.r = x]
      BY <2>1, <3>3 DEF Below
    <3>5. o.r = x /\ o.thrown
      BY <3>1, <3>4 DEF Throws
    <3>6. QED
      BY <3>5, WindowFails DEF o
  <2>3. CASE ~m.readonly
    <3>1. /\ d \in Bytes /\ Len(d) <= Len(p) /\ Len(d) = Min2(Len(p), m.size - m.pos)
          /\ w = Done(Written(m, d), d)
      BY <1>1, <2>3, MemoryWrite
    <3>2. Len(d) \in Nat
      BY <3>1, LenProperties DEF Bytes
    <3>3. Len(d) <= Reach(x)
      BY <1>1, <1>3, <1>5, <3>1, <3>2 DEF Reach, Min2
    <3>4. move = IF x.kind = "offset" THEN 0 ELSE Len(d)
      <4>1. x.kind # "offset" => Len(p) <= m.size - m.pos
        BY <1>1, <1>3, <1>5 DEF Reach
      <4>2. x.kind # "offset" => Len(d) = Len(p)
        BY <1>1, <3>1, <4>1 DEF Min2
      <4>3. QED
        BY <4>2
    <3> DEFINE v == Shifted(x, Written(m, d), move)
    <3> HIDE DEF d, move, w
    <3>5. o = Done(v, d)
      BY <2>1, <3>1, BelowFacts
    <3>6. /\ GoodWindow(v) /\ v.kind = x.kind
          /\ EndsBelow(x) => EndsBelow(v) /\ KeepsOutside(x, v) /\ Writes(x, Done(v, d))
          /\ x.kind # "offset" => KeepsOutside(x, v)
      BY <3>1, <3>3, <3>4, WindowWrites
    <3> HIDE DEF o, v
    <3>7. o.r = v
      BY <3>5 DEF Done
    <3>8. QED
      BY <3>5, <3>6, <3>7 DEF o
  <2>4. QED
    BY <2>2, <2>3
<1>6. QED
  BY <1>4, <1>5

\* A window keeps its shape that moves with the reader below it.
LEMMA ShiftedShape ==
  ASSUME NEW w, WindowShape(w), NEW y \in Memories, Len(y.mem) = Len(w.under.mem), NEW k \in Nat,
         w.kind = "checked" => y.pos = w.under.pos + k /\ w.pos + k <= w.size,
         w.kind = "range" => w.pos + k <= w.base + w.size
  PROVE  LET v == Shifted(w, y, k) IN
         /\ WindowShape(v) /\ v.kind = w.kind /\ v.under = y /\ v.base = w.base /\ v.size = w.size
         /\ v.pos = w.pos + k
<1> DEFINE v == Shifted(w, y, k)
           j == w.pos + k
<1>1. /\ w.base \in Nat /\ w.size \in Nat /\ w.pos \in Nat /\ w.under.pos \in Nat
      /\ w.base + w.size <= Len(w.under.mem)
  BY UnderShape DEF WindowShape
<1>2. j \in Nat
  BY <1>1
<1>3. v = [w EXCEPT !.under = y, !.pos = j]
  BY DEF Shifted
<1> HIDE DEF v
<1>4. /\ v \in [kind : WindowKinds, under : Memories, base : Nat, size : Nat, pos : Nat]
      /\ v.kind = w.kind /\ v.under = y /\ v.base = w.base /\ v.size = w.size /\ v.pos = j
  BY <1>2, <1>3 DEF WindowShape
<1>5. w.kind = "checked" => y.pos = w.base + j /\ j <= w.size
  BY <1>1 DEF WindowShape
<1>6. w.kind = "range" => w.base <= j /\ j <= w.base + w.size
  BY <1>1 DEF WindowShape
<1>7. WindowShape(v)
  BY <1>1, <1>4, <1>5, <1>6 DEF WindowShape
<1>8. QED
  BY <1>4, <1>7 DEF v, j

\* Reads do not write, whatever the window thinks of its position, and one
\* that stands inside stays there.
LEMMA ShapeRead ==
  ASSUME NEW x, WindowShape(x), NEW n \in Nat, NEW io
  PROVE  LET o == read(x, n, io) IN
         /\ WindowShape(o.r) /\ SameView(x, o.r) /\ o.out \in Bytes /\ ~o.thrown
         /\ Inside(x) => Inside(o.r)
<1> DEFINE m == x.under
           q == IF x.kind = "offset" THEN n ELSE Min2(n, limit(x))
           k == Min2(q, m.size - m.pos)
           y == Moved(m, k)
           d == SubSeq(Held(m), m.pos + 1, m.pos + k)
           move == IF x.kind = "offset" THEN 0 ELSE k
           v == Shifted(x, y, move)
           o == read(x, n, io)
<1>1. /\ GoodMemory(m) /\ m \in Memories /\ m.size = Len(m.mem) /\ m.mem \in Bytes
      /\ m.pos \in Nat /\ m.size \in Nat
      /\ x.base \in Nat /\ x.size \in Nat /\ x.pos \in Nat /\ x.kind \in WindowKinds
  BY UnderShape DEF GoodMemory
<1>2. x.kind # "offset" => limit(x) \in Nat
  <2>1. CASE x.kind = "checked"
    BY <1>1, <2>1 DEF limit, WindowShape
  <2>2. CASE x.kind = "range"
    BY <1>1, <2>2 DEF limit, WindowShape
  <2>3. QED
    BY <1>1, <2>1, <2>2 DEF WindowKinds
<1>3. q \in Nat /\ (x.kind # "offset" => q <= limit(x))
  <2> DEFINE l == limit(x)
  <2>1. x.kind # "offset" => l \in Nat
    BY <1>2
  <2> HIDE DEF l
  <2>2. x.kind # "offset" => Min2(n, l) \in Nat /\ Min2(n, l) <= l
    BY <2>1 DEF Min2
  <2>3. QED
    BY <2>2 DEF l
<1>q. q = IF x.kind = "offset" THEN n ELSE Min2(n, limit(x))
  OBVIOUS
<1> HIDE DEF q
<1>4. k \in Nat /\ k <= q /\ m.pos + k <= m.size /\ mread(m, q) = Done(y, d)
  BY <1>1, <1>3, MemoryRead
<1> HIDE DEF k
<1>5. d \in Bytes /\ Len(d) = k
  <2> DEFINE s == Held(m)
             a == m.pos
  <2>1. s \in Bytes /\ Len(s) = m.size
    BY <1>1, HeldFacts
  <2>2. a \in Nat /\ a + k <= Len(s) /\ d = SubSeq(s, a + 1, a + k)
    BY <1>1, <1>4, <2>1
  <2> HIDE DEF s, a, d
  <2>3. QED
    BY <1>4, <2>1, <2>2, Part
<1>6. move \in Nat /\ move = IF x.kind = "offset" THEN 0 ELSE k
  BY <1>4
<1> HIDE DEF move, d
<1>7. o = Done(v, d)
  <2>1. o = wread(x, n)
    BY ShapeDispatch
  <2>2. wread(x, n) = Below(x, mread(m, q), move)
    <3>1. CASE x.kind = "offset"
      BY <1>6, <1>q, <3>1 DEF wread, offsetread
    <3>2. CASE x.kind # "offset"
      <4>1. wread(x, n) = Below(x, mread(m, q), Len(mread(m, q).out))
        BY <1>q, <3>2 DEF wread, limitedread
      <4>2. Len(mread(m, q).out) = move
        BY <1>4, <1>5, <1>6, <3>2 DEF Done
      <4>3. QED
        BY <4>1, <4>2
    <3>3. QED
      BY <3>1, <3>2
  <2> HIDE DEF y, o
  <2>3. QED
    BY <1>4, <2>1, <2>2, BelowFacts
<1>8. y \in Memories /\ y.mem = m.mem /\ y.pos = m.pos + k
  <2>1. GoodMemory(y) /\ SameBuffer(m, y) /\ y.pos = m.pos + k
    BY <1>1, <1>4, MovedFacts
  <2> HIDE DEF y
  <2>2. SameShape(m, y) /\ y.mem = m.mem
    BY <2>1 DEF SameShape, SameBuffer
  <2>3. y \in Memories
    BY <1>1, <2>1, <2>2, StillBelow
  <2>4. QED
    BY <2>1, <2>2, <2>3
<1> HIDE DEF y
<1>9. /\ x.kind = "checked" => y.pos = m.pos + move /\ x.pos + move <= x.size
      /\ x.kind = "range" => x.pos + move <= x.base + x.size
  <2>1. x.kind # "offset" => move <= limit(x) /\ move = k
    <3> DEFINE l == limit(x)
    <3>1. x.kind # "offset" => l \in Nat /\ q <= l
      BY <1>2, <1>3
    <3> HIDE DEF l
    <3>2. x.kind # "offset" => move <= l /\ move = k
      BY <1>3, <1>4, <1>6, <3>1
    <3>3. QED
      BY <3>2 DEF l
  <2>2. CASE x.kind = "checked"
    <3>1. move <= x.size - x.pos
      BY <2>1, <2>2 DEF limit
    <3>2. QED
      BY <1>1, <1>6, <1>8, <2>1, <2>2, <3>1
  <2>3. CASE x.kind = "range"
    <3>1. move <= x.base + x.size - x.pos
      BY <2>1, <2>3 DEF limit
    <3>2. QED
      BY <1>1, <1>6, <2>3, <3>1
  <2>4. QED
    BY <2>2, <2>3
<1>10. /\ WindowShape(v) /\ v.kind = x.kind /\ v.under = y /\ v.base = x.base /\ v.size = x.size
       /\ v.pos = x.pos + move
  BY <1>6, <1>8, <1>9, ShiftedShape
<1> HIDE DEF v, o
<1>11. SameView(x, v)
  BY <1>8, <1>10 DEF SameView
<1>12. ASSUME Inside(x) PROVE Inside(v)
  <2>1. x.base <= y.pos
    BY <1>1, <1>4, <1>8, <1>12 DEF Inside
  <2>2. x.kind = "range" => y.pos <= x.pos + move
    BY <1>1, <1>4, <1>6, <1>8, <1>12 DEF Inside
  <2>3. x.kind = "offset" => x.base + x.size = Len(y.mem)
    BY <1>8, <1>12 DEF Inside
  <2>4. QED
    BY <1>10, <2>1, <2>2, <2>3 DEF Inside
<1>13. o.r = v /\ o.out = d /\ ~o.thrown
  BY <1>7 DEF Done
<1>14. QED
  BY <1>5, <1>10, <1>11, <1>12, <1>13 DEF o

\* What is written below a window stays inside of it, if the reader below
\* stands inside: whatever the window thinks of its position.
LEMMA ShapeWrites ==
  ASSUME NEW x, WindowShape(x), NEW d \in Bytes, Len(d) <= x.under.size - x.under.pos,
         NEW move \in Nat,
         x.kind = "checked" => move = Len(d),
         x.kind # "offset" => Len(d) <= move /\ move <= limit(x)
  PROVE  LET v == Shifted(x, Written(x.under, d), move) IN
         /\ WindowShape(v) /\ v.kind = x.kind /\ (EndsBelow(x) => EndsBelow(v))
         /\ Inside(x) => Inside(v) /\ KeepsOutside(x, v)
<1> DEFINE m == x.under
           y == Written(m, d)
           v == Shifted(x, y, move)
<1>1. /\ GoodMemory(m) /\ m \in Memories /\ m.size = Len(m.mem)
      /\ m.pos \in Nat /\ m.size \in Nat /\ Len(d) \in Nat
      /\ x.base \in Nat /\ x.size \in Nat /\ x.pos \in Nat /\ x.kind \in WindowKinds
  BY UnderShape, LenProperties DEF GoodMemory, Bytes
<1>2. /\ GoodMemory(y) /\ SameShape(m, y) /\ y.pos = m.pos + Len(d)
      /\ \A i \in 1..Len(m.mem) :
           y.mem[i] = IF m.pos < i /\ i <= m.pos + Len(d) THEN d[i - m.pos] ELSE m.mem[i]
  BY <1>1, WrittenFacts
<1> HIDE DEF y
<1>3. y \in Memories /\ Len(y.mem) = Len(m.mem)
  BY <1>1, <1>2, StillBelow
<1>4. /\ x.kind = "checked" => m.pos = x.base + x.pos /\ x.pos + move <= x.size
      /\ x.kind = "range" => x.pos + move <= x.base + x.size
  <2>1. CASE x.kind = "checked"
    <3>1. move <= x.size - x.pos /\ m.pos = x.base + x.pos
      BY <2>1 DEF limit, WindowShape
    <3>2. QED
      BY <1>1, <2>1, <3>1
  <2>2. CASE x.kind = "range"
    <3>1. move <= x.base + x.size - x.pos
      BY <2>2 DEF limit
    <3>2. QED
      BY <1>1, <2>2, <3>1
  <2>3. QED
    BY <2>1, <2>2
<1>5. /\ WindowShape(v) /\ v.kind = x.kind /\ v.under = y /\ v.base = x.base /\ v.size = x.size
      /\ v.pos = x.pos + move
  <2>1. x.kind = "checked" => y.pos = m.pos + move
    BY <1>2
  <2>2. QED
    BY <1>3, <1>4, <2>1, ShiftedShape
<1> HIDE DEF v
<1>6. EndsBelow(x) => EndsBelow(v)
  BY <1>3, <1>5 DEF EndsBelow
<1>7. ASSUME Inside(x) PROVE Inside(v) /\ KeepsOutside(x, v)
  <2>1. /\ x.base <= m.pos
        /\ x.kind = "range" => m.pos <= x.pos
        /\ x.kind = "offset" => x.base + x.size = m.size
    BY <1>1, <1>7 DEF Inside
  <2> DEFINE a == x.base
             z == x.size
             p == x.pos
             q == m.pos
             l == m.size
             t == Len(d)
  <2>2. /\ a \in Nat /\ z \in Nat /\ p \in Nat /\ q \in Nat /\ l \in Nat /\ t \in Nat
        /\ t <= l - q /\ a <= q
        /\ x.kind = "range" => q <= p /\ t <= move /\ p + move <= a + z
        /\ x.kind = "checked" => q = a + p /\ t = move /\ p + move <= z
        /\ x.kind = "offset" => a + z = l
    BY <1>1, <1>4, <2>1
  <2> HIDE DEF a, z, p, q, l, t
  <2>3. q + t <= a + z /\ (x.kind = "range" => q + t <= p + move) /\ a <= q + t
    BY <1>1, <2>2 DEF WindowKinds
  <2>4. /\ m.pos + Len(d) <= x.base + x.size /\ x.base <= m.pos + Len(d)
        /\ x.kind = "range" => m.pos + Len(d) <= x.pos + move
    BY <2>3 DEF a, z, p, q, t
  <2>5. Inside(v)
    BY <1>1, <1>2, <1>3, <1>5, <2>1, <2>4 DEF Inside
  <2>6. KeepsOutside(x, v)
    <3> SUFFICES ASSUME NEW i \in 1..Len(m.mem), i \notin (x.base + 1)..(x.base + x.size)
                 PROVE  y.mem[i] = m.mem[i]
      BY <1>5 DEF KeepsOutside
    <3>1. i \in Int
      BY <1>1
    <3>2. ~(m.pos < i /\ i <= m.pos + Len(d))
      BY <1>1, <2>1, <2>4, <3>1
    <3>3. QED
      BY <1>2, <3>2
  <2>7. QED
    BY <2>5, <2>6
<1>8. QED
  BY <1>5, <1>6, <1>7 DEF v, y

\* A write of a window, in step or not.
LEMMA ShapeWrite ==
  ASSUME NEW x, WindowShape(x), NEW p \in Bytes
  PROVE  LET o == write(x, p) IN
         /\ WindowShape(o.r) /\ o.r.kind = x.kind /\ (EndsBelow(x) => EndsBelow(o.r))
         /\ o.thrown => o.r = x
         /\ Inside(x) => Inside(o.r) /\ KeepsOutside(x, o.r)
<1> DEFINE m == x.under
           o == write(x, p)
           w == mwrite(m, p)
           d == w.out
           move == IF x.kind = "offset" THEN 0 ELSE Len(p)
<1>1. /\ GoodMemory(m) /\ m.kind = "memory" /\ m.pos \in Nat /\ m.size \in Nat /\ Len(p) \in Nat
      /\ m.size = Len(m.mem) /\ m.pos <= m.size
      /\ x.base \in Nat /\ x.size \in Nat /\ x.pos \in Nat /\ x.kind \in WindowKinds
  BY UnderShape, LenProperties DEF Bytes
<1>2. o = wwrite(x, p)
  BY ShapeDispatch
<1>3. ASSUME o.r = x, o.thrown
      PROVE  /\ WindowShape(o.r) /\ o.r.kind = x.kind /\ (EndsBelow(x) => EndsBelow(o.r))
             /\ Inside(x) => Inside(o.r) /\ KeepsOutside(x, o.r)
  BY <1>3 DEF KeepsOutside
<1>4. CASE x.kind # "offset" /\ limit(x) < Len(p)
  <2>1. o = Throws(x)
    BY <1>2, <1>4 DEF wwrite, limitedwrite
  <2>2. o.r = x /\ o.thrown
    BY <2>1 DEF Throws
  <2> HIDE DEF o
  <2>3. QED
    BY <1>3, <2>2 DEF o
<1>5. CASE ~(x.kind # "offset" /\ limit(x) < Len(p))
  <2>1. o = Below(x, w, move)
    BY <1>2, <1>5 DEF wwrite, limitedwrite, offsetwrite
  <2>2. CASE m.readonly
    <3>1. w = Throws(m)
      BY <2>2 DEF mwrite
    <3> HIDE DEF w, o, move
    <3>2. w.r = m /\ w.thrown
      BY <3>1 DEF Throws
    <3>3. [x EXCEPT !.under = w.r, !.pos = IF w.thrown THEN @ ELSE @ + move] = x
      <4>1. [x EXCEPT !.under = x.under, !.pos = x.pos] = x
        BY DEF WindowShape
      <4>2. QED
        BY <3>2, <4>1
    <3>4. o = [w EXCEPT !.r = x]
      BY <2>1, <3>3 DEF Below
    <3>5. o.r = x /\ o.thrown
      BY <3>1, <3>4 DEF Throws
    <3>6. QED
      BY <1>3, <3>5 DEF o
  <2>3. CASE ~m.readonly
    <3>1. /\ d \in Bytes /\ Len(d) <= Len(p) /\ Len(d) = Min2(Len(p), m.size - m.pos)
          /\ w = Done(Written(m, d), d)
      BY <1>1, <2>3, MemoryWrite
    <3>2. Len(d) \in Nat
      BY <3>1, LenProperties DEF Bytes
    <3>3. Len(d) <= m.size - m.pos
      BY <1>1, <3>1 DEF Min2
    <3>4. x.kind # "offset" => Len(p) <= limit(x) /\ move = Len(p)
      <4>1. CASE x.kind = "checked"
        BY <1>1, <1>5, <4>1 DEF limit
      <4>2. CASE x.kind = "range"
        BY <1>1, <1>5, <4>2 DEF limit
      <4>3. QED
        BY <1>1, <4>1, <4>2 DEF WindowKinds
    <3>5. x.kind = "checked" => move = Len(d)
      <4> SUFFICES ASSUME x.kind = "checked" PROVE move = Len(d)
        OBVIOUS
      <4>1. Len(p) <= x.size - x.pos /\ m.pos = x.base + x.pos /\ x.base + x.size <= m.size
        BY <1>1, <3>4 DEF limit, WindowShape
      <4>2. Len(p) <= m.size - m.pos
        BY <1>1, <4>1
      <4>3. Len(d) = Len(p)
        BY <1>1, <3>1, <4>2 DEF Min2
      <4>4. QED
        BY <3>4, <4>3
    <3>6. move \in Nat /\ (x.kind # "offset" => Len(d) <= move /\ move <= limit(x))
      BY <1>1, <3>1, <3>4
    <3> DEFINE v == Shifted(x, Written(m, d), move)
    <3> HIDE DEF d, move, w
    <3>7. o = Done(v, d)
      BY <2>1, <3>1, BelowFacts
    <3>8. /\ WindowShape(v) /\ v.kind = x.kind /\ (EndsBelow(x) => EndsBelow(v))
          /\ Inside(x) => Inside(v) /\ KeepsOutside(x, v)
      BY <3>1, <3>3, <3>5, <3>6, ShapeWrites
    <3> HIDE DEF o, v
    <3>9. o.r = v /\ ~o.thrown
      BY <3>7 DEF Done
    <3>10. QED
      BY <3>8, <3>9 DEF o
  <2>4. QED
    BY <2>2, <2>3
<1>6. QED
  BY <1>4, <1>5

\* Positioning a window moves the reader below to the same place; a range that
\* has moved does not follow.
LEMMA WindowSetPos ==
  ASSUME NEW x, WindowShape(x), NEW off \in 0..long(x)
  PROVE  LET o == setpos(x, off) IN
         /\ WindowShape(o.r) /\ SameView(x, o.r) /\ (Inside(x) => Inside(o.r))
         /\ o.thrown => o.r = x /\ x.kind = "range"
         /\ ~o.thrown => o.out = <<>>
         /\ ~o.thrown /\ ~(x.kind = "range" /\ x.pos # x.base) => GoodWindow(o.r) /\ getpos(o.r) = off
         /\ ~o.thrown /\ x.kind = "range" => o.r.pos = x.pos
<1> DEFINE m == x.under
           o == setpos(x, off)
           at == IF x.kind = "range" THEN off ELSE off + x.base
           y == [m EXCEPT !.pos = at]
           v == [x EXCEPT !.under = y, !.pos = IF x.kind = "checked" THEN off ELSE @]
<1>1. /\ GoodMemory(m) /\ m \in Memories /\ m.size = Len(m.mem) /\ m.mem \in Bytes
      /\ m.pos \in Nat /\ m.size \in Nat /\ x.base + x.size <= m.size
      /\ x.base \in Nat /\ x.size \in Nat /\ x.pos \in Nat /\ x.kind \in WindowKinds
  BY UnderShape DEF GoodMemory, WindowShape
<1>2. o = wsetpos(x, off)
  BY ShapeDispatch
<1>3. off \in Nat /\ off <= long(x) /\ at \in Nat /\ at = from(x) + off /\ at <= m.size
  BY <1>1, ShapeDispatch DEF from, long
<1>4. /\ y \in Memories /\ y.mem = m.mem /\ y.pos = at
  <2> HIDE DEF at, m
  <2>1. GoodMemory(y) /\ SameShape(m, y) /\ y.mem = m.mem /\ y.pos = at
    BY <1>1, <1>3 DEF GoodMemory, SameShape
  <2> HIDE DEF y
  <2>2. QED
    BY <1>1, <2>1, StillBelow
<1>5. CASE x.kind = "range" /\ off # x.base
  <2>1. o = Throws(x)
    BY <1>1, <1>2, <1>5 DEF wsetpos, rangesetpos
  <2>2. o.r = x /\ o.thrown
    BY <2>1 DEF Throws
  <2> HIDE DEF o
  <2>3. QED
    BY <1>5, <2>2 DEF SameView, o
<1>6. CASE ~(x.kind = "range" /\ off # x.base)
  <2>1. o = Done(v, <<>>)
    <3>1. CASE x.kind = "checked"
      <4>1. off <= x.size /\ off \in Nat
        BY <1>3, <3>1 DEF long
      <4>2. o = Done([x EXCEPT !.under = msetpos(@, off + x.base).r, !.pos = off], <<>>)
        BY <1>1, <1>2, <3>1, <4>1 DEF wsetpos, checkedsetpos
      <4>3. msetpos(x.under, off + x.base).r = y
        BY <3>1 DEF msetpos, Done
      <4> HIDE DEF y, o
      <4>4. QED
        BY <3>1, <4>2, <4>3
    <3>2. CASE x.kind # "checked"
      <4>1. o = Below(x, msetpos(m, at), 0)
        BY <1>1, <1>2, <1>6, <3>2 DEF wsetpos, offsetsetpos, rangesetpos, WindowKinds
      <4>2. msetpos(m, at) = Done(y, <<>>)
        BY DEF msetpos
      <4>3. x.pos + 0 = x.pos
        BY <1>1
      <4>4. Shifted(x, y, 0) = v
        <5> HIDE DEF y
        <5>1. QED
          BY <3>2, <4>3 DEF Shifted
      <4> HIDE DEF y, o, v, at
      <4>5. QED
        BY <4>1, <4>2, <4>4, BelowFacts
    <3>3. QED
      BY <3>1, <3>2
  <2> DEFINE j == IF x.kind = "checked" THEN off ELSE x.pos
  <2>2. j \in Nat /\ v = [x EXCEPT !.under = y, !.pos = j]
    BY <1>1, <1>3
  <2>j. j = IF x.kind = "checked" THEN off ELSE x.pos
    OBVIOUS
  <2> HIDE DEF v, y, j
  <2>3. /\ v \in [kind : WindowKinds, under : Memories, base : Nat, size : Nat, pos : Nat]
        /\ v.kind = x.kind /\ v.under = y /\ v.base = x.base /\ v.size = x.size /\ v.pos = j
    BY <1>4, <2>2 DEF WindowShape
  <2>4. WindowShape(v)
    <3>1. v.base + v.size <= Len(v.under.mem)
      BY <1>4, <2>3 DEF WindowShape
    <3>2. CASE x.kind = "checked"
      <4>1. at = x.base + off /\ off <= x.size /\ j = off
        BY <1>1, <1>3, <2>j, <3>2 DEF long
      <4>2. QED
        BY <1>4, <2>3, <3>1, <3>2, <4>1 DEF WindowShape
    <3>3. CASE x.kind = "range"
      <4>1. j = x.pos /\ x.base <= x.pos /\ x.pos <= x.base + x.size
        BY <2>j, <3>3 DEF WindowShape
      <4>2. QED
        BY <2>3, <3>1, <3>3, <4>1 DEF WindowShape
    <3>4. CASE x.kind = "offset"
      BY <2>3, <3>1, <3>4 DEF WindowShape
    <3>5. QED
      BY <1>1, <3>2, <3>3, <3>4 DEF WindowKinds
  <2>5. SameView(x, v)
    BY <1>4, <2>3 DEF SameView
  <2>6. Inside(x) => Inside(v)
    <3> SUFFICES ASSUME Inside(x) PROVE Inside(v)
      OBVIOUS
    <3>1. x.base <= at
      BY <1>1, <1>3, <1>6
    <3>2. x.kind = "range" => at <= j
      <4> SUFFICES ASSUME x.kind = "range" PROVE at <= j
        OBVIOUS
      <4>1. at = x.base /\ j = x.pos /\ x.base <= x.pos
        BY <1>6, <2>j DEF WindowShape
      <4>2. QED
        BY <1>1, <4>1
    <3>3. x.kind = "offset" => x.base + x.size = Len(m.mem)
      BY DEF Inside
    <3>4. QED
      BY <1>4, <2>3, <3>1, <3>2, <3>3 DEF Inside
  <2>7. ASSUME ~(x.kind = "range" /\ x.pos # x.base) PROVE GoodWindow(v) /\ getpos(v) = off
    <3>1. GoodWindow(v)
      <4>1. CASE x.kind = "offset"
        <5>1. x.base <= at
          BY <1>1, <1>3, <4>1
        <5>2. QED
          BY <1>4, <2>3, <2>4, <4>1, <5>1 DEF GoodWindow, WindowShape
      <4>2. CASE x.kind = "checked"
        BY <2>3, <2>4, <4>2 DEF GoodWindow, WindowShape
      <4>3. CASE x.kind = "range"
        <5>1. at = x.base /\ j = x.pos /\ x.pos = x.base
          BY <1>6, <2>7, <2>j, <4>3
        <5>2. QED
          BY <1>4, <2>3, <2>4, <4>3, <5>1 DEF GoodWindow, WindowShape
      <4>4. QED
        BY <1>1, <4>1, <4>2, <4>3 DEF WindowKinds
    <3>2. from(v) = from(x)
      BY <2>4, <2>5, SameViewContent
    <3>3. getpos(v) = y.pos - from(x)
      BY <2>3, <3>1, <3>2, WindowDispatch
    <3>4. from(x) \in Nat
      BY ShapeDispatch
    <3>5. getpos(v) = off
      BY <1>3, <1>4, <3>3, <3>4
    <3>6. QED
      BY <3>1, <3>5
  <2>8. x.kind = "range" => v.pos = x.pos
    BY <2>3, <2>j
  <2> HIDE DEF o
  <2>9. o.r = v /\ o.out = <<>> /\ ~o.thrown
    BY <2>1 DEF Done
  <2>10. QED
    BY <2>4, <2>5, <2>6, <2>7, <2>8, <2>9 DEF o
<1>7. QED
  BY <1>5, <1>6

\* The length of what a window shows.
LEMMA WindowLength ==
  ASSUME NEW x, WindowShape(x)
  PROVE  Content(x) \in Bytes /\ Len(Content(x)) = long(x)
<1> DEFINE s == x.under.mem
           a == from(x)
           l == long(x)
           c == Content(x)
<1>1. s \in Bytes /\ a \in Nat /\ l \in Nat /\ a + l <= Len(s)
  BY ShapeDispatch, UnderShape DEF GoodMemory
<1>2. c = SubSeq(s, a + 1, a + l)
  BY ShapeDispatch DEF Seen
<1> HIDE DEF s, a, l, c
<1>3. SubSeq(s, a + 1, a + l) \in Bytes /\ Len(SubSeq(s, a + 1, a + l)) = l
  BY <1>1, Part
<1>4. QED
  BY <1>2, <1>3 DEF l, c

\* The size of a window is its length.
LEMMA WindowSize ==
  ASSUME NEW x, WindowShape(x)
  PROVE  Counts(x, size(x)) /\ size(x).r = x
<1>1. size(x) = Done(x, long(x))
  BY ShapeDispatch
<1>2. QED
  BY <1>1, WindowLength DEF Counts, SameStream, Done
-----------------------------------------------------------------------------

(* Files. *)

\* Writing nothing, and writing once more behind what was written.
LEMMA OverlayNothing ==
  ASSUME NEW s \in Bytes, NEW a \in Nat, a <= Len(s)
  PROVE  OverlayAt(s, a, <<>>) = s
<1> DEFINE w == OverlayAt(s, a, <<>>)
<1>1. <<>> \in Bytes /\ Len(<<>>) = 0 /\ Len(s) \in Nat
  BY EmptySeq, LenProperties DEF Bytes
<1>2. /\ w \in Bytes /\ Len(w) = IF a + Len(<<>>) > Len(s) THEN a + Len(<<>>) ELSE Len(s)
      /\ \A i \in 1..Len(w) : w[i] = IF a < i /\ i <= a + Len(<<>>) THEN <<>>[i - a] ELSE s[i]
  BY <1>1, OverlayFacts
<1> HIDE DEF w
<1>3. Len(w) = Len(s)
  BY <1>1, <1>2
<1>4. \A i \in 1..Len(w) : w[i] = s[i]
  BY <1>1, <1>2
<1>5. w = s
  BY <1>2, <1>3, <1>4, Same
<1>6. QED
  BY <1>5 DEF w

\* Two writes one behind the other are one write.
LEMMA OverlayTwice ==
  ASSUME NEW s \in Bytes, NEW a \in Nat, a <= Len(s), NEW p \in Bytes, NEW q \in Bytes
  PROVE  OverlayAt(OverlayAt(s, a, p), a + Len(p), q) = OverlayAt(s, a, p \o q)
<1> DEFINE u == OverlayAt(s, a, p)
           b == a + Len(p)
           v == OverlayAt(u, b, q)
           pq == p \o q
           w == OverlayAt(s, a, pq)
<1>1. Len(s) \in Nat /\ Len(p) \in Nat /\ Len(q) \in Nat /\ b \in Nat
  BY LenProperties DEF Bytes
<1>2. /\ u \in Bytes /\ Len(u) = IF b > Len(s) THEN b ELSE Len(s)
      /\ \A i \in 1..Len(u) : u[i] = IF a < i /\ i <= b THEN p[i - a] ELSE s[i]
  BY OverlayFacts
<1> HIDE DEF u
<1>3. /\ v \in Bytes /\ Len(v) = IF b + Len(q) > Len(u) THEN b + Len(q) ELSE Len(u)
      /\ \A i \in 1..Len(v) : v[i] = IF b < i /\ i <= b + Len(q) THEN q[i - b] ELSE u[i]
  <2> HIDE DEF b, v
  <2>1. b <= Len(u)
    BY <1>1, <1>2
  <2>2. /\ OverlayAt(u, b, q) \in Bytes
        /\ Len(OverlayAt(u, b, q)) = IF b + Len(q) > Len(u) THEN b + Len(q) ELSE Len(u)
        /\ \A i \in 1..Len(OverlayAt(u, b, q)) :
             OverlayAt(u, b, q)[i] = IF b < i /\ i <= b + Len(q) THEN q[i - b] ELSE u[i]
    BY <1>1, <1>2, <2>1, OverlayFacts
  <2>3. QED
    BY <2>2 DEF v
<1> HIDE DEF v
<1>4. /\ pq \in Bytes /\ Len(pq) = Len(p) + Len(q)
      /\ \A i \in 1..Len(p) : pq[i] = p[i]
      /\ \A i \in 1..Len(q) : pq[Len(p) + i] = q[i]
  BY Join
<1> HIDE DEF pq
<1>5. /\ w \in Bytes /\ Len(w) = IF a + Len(pq) > Len(s) THEN a + Len(pq) ELSE Len(s)
      /\ \A i \in 1..Len(w) : w[i] = IF a < i /\ i <= a + Len(pq) THEN pq[i - a] ELSE s[i]
  <2> HIDE DEF w
  <2>1. /\ OverlayAt(s, a, pq) \in Bytes
        /\ Len(OverlayAt(s, a, pq)) = IF a + Len(pq) > Len(s) THEN a + Len(pq) ELSE Len(s)
        /\ \A i \in 1..Len(OverlayAt(s, a, pq)) :
             OverlayAt(s, a, pq)[i] = IF a < i /\ i <= a + Len(pq) THEN pq[i - a] ELSE s[i]
    BY <1>4, OverlayFacts
  <2>2. QED
    BY <2>1 DEF w
<1> HIDE DEF w
<1>6. Len(v) = Len(w) /\ Len(v) \in Nat /\ b + Len(q) = a + Len(pq)
  <2>1. b + Len(q) = a + Len(pq)
    BY <1>1, <1>4
  <2> HIDE DEF b
  <2>2. Len(u) = (IF b > Len(s) THEN b ELSE Len(s)) /\ Len(u) \in Nat
    BY <1>1, <1>2
  <2>3. Len(v) = IF b + Len(q) > Len(u) THEN b + Len(q) ELSE Len(u)
    BY <1>3
  <2>4. Len(w) = IF b + Len(q) > Len(s) THEN b + Len(q) ELSE Len(s)
    BY <1>5, <2>1
  <2>5. QED
    BY <1>1, <2>1, <2>2, <2>3, <2>4
<1>7. \A i \in 1..Len(v) : v[i] = w[i]
  <2> SUFFICES ASSUME NEW i \in 1..Len(v) PROVE v[i] = w[i]
    OBVIOUS
  <2>1. CASE a < i /\ i <= b
    <3>1. i - a \in 1..Len(p) /\ ~(b < i) /\ i \in 1..Len(u) /\ i <= a + Len(pq)
      BY <1>1, <1>2, <1>4, <2>1
    <3>2. v[i] = p[i - a]
      BY <1>2, <1>3, <2>1, <3>1
    <3>3. w[i] = pq[i - a]
      BY <1>5, <1>6, <2>1, <3>1
    <3>4. QED
      BY <1>4, <3>1, <3>2, <3>3
  <2>2. CASE b < i /\ i <= b + Len(q)
    <3> DEFINE j == i - b
    <3>1. j \in 1..Len(q) /\ i - a = Len(p) + j /\ a < i /\ i <= a + Len(pq)
      BY <1>1, <1>6, <2>2
    <3>2. v[i] = q[j]
      BY <1>3, <2>2
    <3>3. w[i] = pq[i - a]
      BY <1>5, <1>6, <3>1
    <3> HIDE DEF j
    <3>4. pq[Len(p) + j] = q[j]
      BY <1>4, <3>1
    <3>5. QED
      BY <3>1, <3>2, <3>3, <3>4
  <2>3. CASE ~(a < i /\ i <= b + Len(q))
    <3>1. ~(b < i /\ i <= b + Len(q)) /\ ~(a < i /\ i <= b) /\ i \in 1..Len(u)
      BY <1>1, <1>2, <1>3, <1>6, <2>3
    <3>2. v[i] = s[i]
      BY <1>2, <1>3, <3>1
    <3>3. w[i] = s[i]
      BY <1>5, <1>6, <2>3
    <3>4. QED
      BY <3>2, <3>3
  <2>4. QED
    BY <1>1, <2>1, <2>2, <2>3
<1>8. v = w
  BY <1>3, <1>5, <1>6, <1>7, Same
<1>9. QED
  BY <1>8 DEF u, b, v, pq, w

\* Bytes that were written and not flushed end at the position, and they are
\* there only after a write.
FileShape(f) ==
  /\ f \in [kind : {"file"}, disk : Bytes, wbuf : Bytes, pos : Nat, feof : BOOLEAN, ferr : BOOLEAN,
            state : {"READING", "WRITING", "FLUSHED"}, readonly : BOOLEAN]
  /\ Len(f.wbuf) <= f.pos /\ f.pos - Len(f.wbuf) <= Len(f.disk)
  /\ f.wbuf # <<>> => f.state = "WRITING" /\ ~f.readonly

\* In step, the end-of-file indicator is set only at the end.
GoodFile(f) == FileShape(f) /\ (f.feof => f.pos = Len(Content(f)))

\* The file with the bytes that are not flushed yet.
OnDisk(f) == OverlayAt(f.disk, f.pos - Len(f.wbuf), f.wbuf)

\* Which definitions the calls of a file take.
LEMMA FileDispatch ==
  ASSUME NEW x, x.kind = "file"
  PROVE  /\ \A n, io : read(x, n, io) = fileread(x, n, io)
         /\ \A p : write(x, p) = filewrite(x, p)
         /\ \A off : setpos(x, off) = filesetpos(x, off)
         /\ \A off : truncate(x, off) = filetruncate(x, off)
         /\ size(x) = filesize(x)
         /\ Content(x) = fflush(x).disk /\ getpos(x) = x.pos
<1>1. ~Memory(x.kind) /\ ~IsWindow(x.kind) /\ x.kind \notin {"block", "compressed"}
  BY DEF Memory, IsWindow
<1>2. \A n, io : read(x, n, io) = fileread(x, n, io)
  BY <1>1 DEF read
<1>3. \A p : write(x, p) = filewrite(x, p)
  BY <1>1 DEF write
<1>4. \A off : setpos(x, off) = filesetpos(x, off)
  BY <1>1 DEF setpos
<1>5. \A off : truncate(x, off) = filetruncate(x, off)
  BY <1>1 DEF truncate
<1>6. size(x) = filesize(x)
  BY <1>1 DEF size
<1>7. Content(x) = fflush(x).disk
  BY <1>1 DEF Content, IsWindow
<1>8. getpos(x) = x.pos
  BY <1>1 DEF getpos
<1>9. QED
  BY <1>2, <1>3, <1>4, <1>5, <1>6, <1>7, <1>8

\* That is what a file stands for, and the position is in it.
LEMMA OnDiskFacts ==
  ASSUME NEW f, FileShape(f)
  PROVE  /\ OnDisk(f) \in Bytes /\ f.pos <= Len(OnDisk(f)) /\ Len(OnDisk(f)) \in Nat
         /\ Content(f) = OnDisk(f) /\ getpos(f) = f.pos
         /\ f.wbuf = <<>> => OnDisk(f) = f.disk
<1> DEFINE a == f.pos - Len(f.wbuf)
           s == f.disk
           p == f.wbuf
           w == OverlayAt(s, a, p)
<1>1. /\ s \in Bytes /\ p \in Bytes /\ f.pos \in Nat /\ Len(p) \in Nat /\ Len(s) \in Nat
      /\ a \in Nat /\ a <= Len(s) /\ f.pos = a + Len(p)
  BY LenProperties DEF FileShape, Bytes
<1>2. Content(f) = OnDisk(f) /\ getpos(f) = f.pos
  <2>1. f.kind = "file"
    BY DEF FileShape
  <2>2. fflush(f).disk = OnDisk(f)
    BY DEF fflush, OnDisk, FileShape
  <2>3. QED
    BY <2>1, <2>2, FileDispatch
<1>3. OnDisk(f) = w
  BY DEF OnDisk
<1> HIDE DEF a, s, p
<1>4. w \in Bytes /\ Len(w) = IF a + Len(p) > Len(s) THEN a + Len(p) ELSE Len(s)
  BY <1>1, OverlayFacts
<1> HIDE DEF w
<1>5. w \in Bytes /\ f.pos <= Len(w) /\ Len(w) \in Nat
  BY <1>1, <1>4
<1>6. p = <<>> => w = s
  BY <1>1, OverlayNothing DEF w
<1>7. QED
  BY <1>2, <1>3, <1>5, <1>6 DEF p, s

\* A file record with nothing left to flush.
Clean(x, d, k, e, st, fe) ==
  [x EXCEPT !.disk = d, !.wbuf = <<>>, !.pos = k, !.feof = e, !.ferr = fe, !.state = st]

\* A file without unflushed bytes, at any position within it, is good.
LEMMA CleanFile ==
  ASSUME NEW x, FileShape(x), NEW d \in Bytes, NEW k \in Nat, k <= Len(d),
         NEW e \in BOOLEAN, NEW st \in {"READING", "WRITING", "FLUSHED"}, NEW fe \in BOOLEAN
  PROVE  LET g == Clean(x, d, k, e, st, fe) IN
         /\ FileShape(g) /\ Content(g) = d /\ getpos(g) = k /\ g.kind = x.kind
         /\ g.disk = d /\ g.wbuf = <<>> /\ g.pos = k /\ g.state = st /\ g.readonly = x.readonly
         /\ g.feof = e /\ g.ferr = fe
<1> DEFINE g == Clean(x, d, k, e, st, fe)
<1>1. <<>> \in Bytes /\ Len(<<>>) = 0
  BY EmptySeq DEF Bytes
<1>2. /\ g \in [kind : {"file"}, disk : Bytes, wbuf : Bytes, pos : Nat, feof : BOOLEAN,
                ferr : BOOLEAN, state : {"READING", "WRITING", "FLUSHED"}, readonly : BOOLEAN]
      /\ g.disk = d /\ g.wbuf = <<>> /\ g.pos = k /\ g.state = st /\ g.readonly = x.readonly
      /\ g.kind = x.kind /\ g.feof = e /\ g.ferr = fe
  BY <1>1 DEF FileShape, Clean
<1> HIDE DEF g
<1>3. FileShape(g)
  BY <1>1, <1>2 DEF FileShape
<1>4. Content(g) = OnDisk(g) /\ getpos(g) = g.pos /\ (g.wbuf = <<>> => OnDisk(g) = g.disk)
  BY <1>3, OnDiskFacts
<1>5. Content(g) = d /\ getpos(g) = k
  BY <1>2, <1>4
<1>6. QED
  BY <1>2, <1>3, <1>5 DEF g

\* What flush() and fflush() make of it.
Flushed(x) == [x EXCEPT !.disk = OnDisk(x), !.wbuf = <<>>]

\* Flushing does not change what the file stands for.
LEMMA FlushFacts ==
  ASSUME NEW x, FileShape(x)
  PROVE  /\ fflush(x) = Flushed(x)
         /\ flush(x) = [x EXCEPT !.disk = OnDisk(x), !.wbuf = <<>>, !.state = "FLUSHED"]
         /\ FileShape(flush(x)) /\ Content(flush(x)) = Content(x) /\ getpos(flush(x)) = getpos(x)
         /\ flush(x).disk = Content(x) /\ flush(x).wbuf = <<>> /\ flush(x).pos = x.pos
         /\ flush(x).readonly = x.readonly /\ flush(x).kind = x.kind /\ flush(x).feof = x.feof
<1>1. /\ OnDisk(x) \in Bytes /\ x.pos <= Len(OnDisk(x)) /\ Content(x) = OnDisk(x)
      /\ getpos(x) = x.pos
  BY OnDiskFacts
<1>2. x.feof \in BOOLEAN /\ x.ferr \in BOOLEAN /\ x.pos \in Nat
  BY DEF FileShape
<1>3. fflush(x) = Flushed(x)
  BY DEF fflush, OnDisk, Flushed
<1> DEFINE d == OnDisk(x)
           g == [x EXCEPT !.disk = d, !.wbuf = <<>>, !.state = "FLUSHED"]
<1> HIDE DEF d
<1>4. flush(x) = g
  BY <1>3 DEF flush, Flushed, d
<1>5. g = Clean(x, d, x.pos, x.feof, "FLUSHED", x.ferr)
  BY DEF FileShape, Clean
<1>6. d \in Bytes /\ x.pos <= Len(d) /\ Content(x) = d
  BY <1>1 DEF d
<1> HIDE DEF g
<1>7. /\ FileShape(g) /\ Content(g) = d /\ getpos(g) = x.pos /\ g.kind = x.kind
      /\ g.disk = d /\ g.wbuf = <<>> /\ g.pos = x.pos /\ g.readonly = x.readonly
      /\ g.feof = x.feof
  BY <1>2, <1>5, <1>6, CleanFile
<1>8. QED
  BY <1>1, <1>3, <1>4, <1>6, <1>7 DEF g, d

\* How a call goes that nothing was said of.
LEMMA OutcomeType ==
  ASSUME NEW io \in Seq(Outcomes), NEW k \in Nat \ {0}
  PROVE  Outcome(io, k) \in Outcomes
<1> DEFINE full == [what |-> "full", got |-> 0]
<1>1. full \in Outcomes
  BY DEF Outcomes
<1> HIDE DEF full
<1>2. k <= Len(io) => io[k] \in Outcomes
  <2>1. Len(io) \in Nat
    BY LenProperties
  <2>2. k <= Len(io) => k \in 1..Len(io)
    BY <2>1
  <2>3. QED
    BY <2>2, ElementOfSeq
<1>3. Outcome(io, k) = IF k <= Len(io) THEN io[k] ELSE full
  BY DEF Outcome, full
<1>4. QED
  BY <1>1, <1>2, <1>3

\* A file is in step when its end-of-file indicator is right.
LEMMA FileStep ==
  ASSUME NEW f
  PROVE  GoodFile(f) <=> FileShape(f) /\ InStep(f)
<1>1. f.kind = "file" => (InStep(f) <=> /\ f.wbuf # <<>> => f.state = "WRITING"
                                        /\ f.feof => f.pos = Len(Content(f)))
  BY DEF InStep
<1>2. QED
  BY <1>1 DEF GoodFile, FileShape

\* What a read of a flushed file returns: it may fail on the way, and gets
\* nothing at the end-of-file indicator.
LEMMA FileReads ==
  ASSUME NEW g, FileShape(g), g.wbuf = <<>>, NEW n \in Nat, NEW u \in Outcomes
  PROVE  LET o == fread(g, n, u)
             k == Len(o.out)
         IN /\ k \in Nat /\ k <= n /\ g.pos + k <= Len(Content(g)) /\ o.thrown = FALSE
            /\ o.out = SubSeq(Content(g), g.pos + 1, g.pos + k) /\ o.out \in Bytes
            /\ FileShape(o.r) /\ o.r.kind = g.kind /\ Content(o.r) = Content(g)
            /\ getpos(o.r) = g.pos + k /\ o.r.readonly = g.readonly
            /\ o.r.feof => (g.feof /\ k = 0) \/ g.pos + k = Len(Content(g))
            /\ k < n => o.r.ferr \/ (g.feof /\ k = 0) \/ g.pos + k = Len(Content(g))
<1> DEFINE o == fread(g, n, u)
           c == Content(g)
           fails == u.what = "read" /\ u.got < n /\ g.pos + u.got <= Len(c) /\ ~g.feof
           most == IF g.feof THEN 0 ELSE IF fails THEN u.got ELSE n
           k == Min2(most, Len(c) - g.pos)
           d == SubSeq(c, g.pos + 1, g.pos + k)
           e == g.feof \/ (k < n /\ ~fails)
           fe == g.ferr \/ fails
           y == [g EXCEPT !.pos = @ + k, !.feof = e, !.ferr = fe, !.state = "READING"]
<1>1. /\ c \in Bytes /\ getpos(g) = g.pos /\ g.pos <= Len(c)
      /\ Len(c) \in Nat /\ g.pos \in Nat /\ g.disk = c
  BY OnDiskFacts DEF FileShape
<1>2. g.feof \in BOOLEAN /\ g.ferr \in BOOLEAN /\ u.got \in Nat
  BY DEF FileShape, Outcomes
<1>3. Len(<<>>) = 0 /\ g.pos - 0 = g.pos
  BY <1>1, EmptySeq
<1>f. fails \in BOOLEAN /\ (fails => u.got < n /\ g.pos + u.got <= Len(c) /\ ~g.feof)
  BY <1>2
<1>m. /\ g.feof => most = 0
      /\ fails => most = u.got
      /\ ~g.feof /\ ~fails => most = n
      /\ most \in Nat /\ most <= n
  BY <1>2, <1>f
<1>4. o = Done([g EXCEPT !.pos = @ + Len(d), !.feof = @ \/ (Len(d) < n /\ ~fails),
                         !.ferr = @ \/ fails, !.state = "READING"], d)
  <2> DEFINE j == Min2(g.pos + most, Len(c))
             w == SubSeq(c, g.pos + 1, j)
  <2>1. o = Done([g EXCEPT !.pos = @ + Len(w), !.feof = @ \/ (Len(w) < n /\ ~fails),
                           !.ferr = @ \/ fails, !.state = "READING"], w)
    <3>1. g.pos - Len(g.wbuf) = g.pos
      BY <1>1, <1>3
    <3> HIDE DEF c
    <3>2. QED
      BY <1>1, <3>1 DEF fread
  <2> HIDE DEF most, c
  <2>2. j = g.pos + k
    BY <1>1, <1>m DEF Min2
  <2>3. w = d
    BY <2>2
  <2> HIDE DEF w, d, o, fails
  <2>4. QED
    BY <2>1, <2>3
<1>5. k \in Nat /\ k <= most /\ g.pos + k <= Len(c) /\ (k = most \/ g.pos + k = Len(c))
  <2> HIDE DEF most, c
  <2>1. QED
    BY <1>1, <1>m DEF Min2
<1> HIDE DEF k, c
<1>6. d \in Bytes /\ Len(d) = k
  <2> DEFINE a == g.pos
  <2>1. d = SubSeq(c, a + 1, a + k) /\ a \in Nat /\ a + k <= Len(c)
    BY <1>1, <1>5
  <2> HIDE DEF d, a
  <2>2. QED
    BY <1>1, <1>5, <2>1, Part
<1> HIDE DEF d
<1>7. o = Done(y, d)
  <2> HIDE DEF o, fails
  <2>1. QED
    BY <1>4, <1>6
<1>8. y = Clean(g, c, g.pos + k, e, "READING", fe)
  <2>1. [g EXCEPT !.disk = g.disk, !.wbuf = g.wbuf, !.pos = g.pos + k, !.feof = e,
                  !.ferr = fe, !.state = "READING"] = y
    BY DEF FileShape
  <2>2. QED
    BY <1>1, <2>1 DEF Clean
<1>9. e \in BOOLEAN /\ fe \in BOOLEAN
  BY <1>2, <1>f
<1> HIDE DEF y
<1>10. /\ FileShape(y) /\ Content(y) = c /\ getpos(y) = g.pos + k /\ y.kind = g.kind
       /\ y.feof = e /\ y.ferr = fe /\ y.readonly = g.readonly
  <2> DEFINE j == g.pos + k
             eof == e
             err == fe
  <2>1. j \in Nat /\ j <= Len(c) /\ eof \in BOOLEAN /\ err \in BOOLEAN
    BY <1>1, <1>5, <1>9
  <2>2. y = Clean(g, c, j, eof, "READING", err)
    BY <1>8
  <2>3. j = g.pos + k /\ eof = e /\ err = fe
    OBVIOUS
  <2> HIDE DEF j, eof, err
  <2> DEFINE v == Clean(g, c, j, eof, "READING", err)
  <2>4. /\ FileShape(v) /\ Content(v) = c /\ getpos(v) = j /\ v.kind = g.kind
        /\ v.feof = eof /\ v.ferr = err /\ v.readonly = g.readonly
    BY <1>1, <2>1, CleanFile
  <2>5. QED
    BY <2>2, <2>3, <2>4
<1> HIDE DEF o
<1>11. o.r = y /\ o.out = d /\ o.thrown = FALSE
  BY <1>7 DEF Done
<1>12. e => (g.feof /\ k = 0) \/ g.pos + k = Len(c)
  <2>1. CASE g.feof
    <3>1. most = 0
      BY <1>m, <2>1
    <3>2. k = 0
      BY <1>5, <3>1
    <3>3. QED
      BY <2>1, <3>2
  <2>2. CASE ~g.feof
    <3>1. e => k < n /\ most = n
      BY <1>m, <2>2
    <3> HIDE DEF e, most
    <3>2. QED
      BY <1>5, <3>1
  <2>3. QED
    BY <2>1, <2>2
<1>13. k < n => fe \/ e
  BY <1>f
<1> HIDE DEF e, fe
<1>14. k <= n
  <2> HIDE DEF most
  <2>1. QED
    BY <1>5, <1>m
<1>15. QED
  BY <1>1, <1>5, <1>6, <1>10, <1>11, <1>12, <1>13, <1>14 DEF o, d, c

\* A read of a file sees what was written before it: it is flushed first.  It
\* is that of a stream, or it throws, and the bytes it got are lost.
LEMMA FileRead ==
  ASSUME NEW x, FileShape(x), NEW n \in Nat, NEW io \in Seq(Outcomes)
  PROVE  LET o == read(x, n, io) IN
         /\ FileShape(o.r) /\ o.r.kind = x.kind /\ Content(o.r) = Content(x) /\ o.out \in Bytes
         /\ GoodFile(x) => GoodFile(o.r) /\ (Reads(x, n, o) \/ Breaks(x, o))
<1> DEFINE g == IF x.state = "WRITING" THEN flush(x) ELSE x
           o == read(x, n, io)
           u == Outcome(io, 1)
           y == fread(g, n, u)
           k == Len(y.out)
           c == Content(x)
<1>1. o = fileread(x, n, io)
  BY FileDispatch DEF FileShape
<1>2. /\ FileShape(g) /\ g.wbuf = <<>> /\ Content(g) = c /\ g.pos = x.pos /\ g.kind = x.kind
      /\ g.feof = x.feof
  <2>1. CASE x.state = "WRITING"
    BY <2>1, FlushFacts
  <2>2. CASE x.state # "WRITING"
    BY <2>2 DEF FileShape
  <2>3. QED
    BY <2>1, <2>2
<1>3. o = IF k < n /\ y.r.ferr THEN Throws(y.r) ELSE y
  BY <1>1 DEF fileread
<1>4. u \in Outcomes
  BY OutcomeType
<1> HIDE DEF g, u
<1>5. /\ k \in Nat /\ k <= n /\ g.pos + k <= Len(Content(g)) /\ y.thrown = FALSE
      /\ y.out = SubSeq(Content(g), g.pos + 1, g.pos + k) /\ y.out \in Bytes
      /\ FileShape(y.r) /\ y.r.kind = g.kind /\ Content(y.r) = Content(g)
      /\ getpos(y.r) = g.pos + k
      /\ y.r.feof => (g.feof /\ k = 0) \/ g.pos + k = Len(Content(g))
      /\ k < n => y.r.ferr \/ (g.feof /\ k = 0) \/ g.pos + k = Len(Content(g))
  <2>1. FileShape(g) /\ g.wbuf = <<>>
    BY <1>2
  <2>2. QED
    BY ONLY <1>4, <2>1, n \in Nat, FileReads
<1>6. /\ c \in Bytes /\ getpos(x) = x.pos /\ x.pos <= Len(c)
      /\ Len(c) \in Nat /\ x.pos \in Nat
  BY OnDiskFacts DEF FileShape
<1> HIDE DEF k, y
<1>7. o.r = y.r /\ (o.thrown => o.out = <<>> /\ k < n /\ y.r.ferr)
      /\ (~o.thrown => o.out = y.out /\ ~(k < n /\ y.r.ferr))
  BY <1>3, <1>5 DEF Throws
<1>8. o.thrown \in BOOLEAN /\ <<>> \in Bytes
  <2>1. Throws(y.r).thrown = TRUE /\ <<>> \in Bytes
    BY EmptySeq DEF Throws, Bytes
  <2> HIDE DEF o
  <2>2. QED
    BY <1>3, <1>5, <2>1
<1> HIDE DEF o, c
<1>9. FileShape(o.r) /\ o.r.kind = x.kind /\ Content(o.r) = c /\ o.out \in Bytes
  BY <1>2, <1>5, <1>7, <1>8
<1>10. ASSUME GoodFile(x)
       PROVE  GoodFile(o.r) /\ (Reads(x, n, o) \/ Breaks(x, o))
  <2>1. x.feof => x.pos = Len(c)
    BY <1>10 DEF GoodFile, c
  <2>2. g.feof /\ k = 0 => x.pos + k = Len(c)
    BY <1>2, <1>6, <2>1
  <2>3. getpos(o.r) = x.pos + k /\ x.pos + k <= Len(c)
    BY <1>2, <1>5, <1>7
  <2>4. o.r.feof => x.pos + k = Len(c)
    BY <1>2, <1>5, <1>7, <2>2
  <2>5. GoodFile(o.r)
    <3>1. getpos(o.r) = o.r.pos
      BY <1>9, OnDiskFacts
    <3>2. QED
      BY <1>9, <2>3, <2>4, <3>1 DEF GoodFile
  <2>6. CASE ~o.thrown
    <3>1. k = Min2(n, Left(x))
      <4>1. Left(x) = Len(c) - x.pos
        BY <1>6 DEF Left, c
      <4>2. k < n => x.pos + k = Len(c)
        BY <1>2, <1>5, <1>7, <2>2, <2>6
      <4>3. QED
        BY <1>5, <1>6, <2>3, <4>1, <4>2 DEF Min2
    <3>2. o.out = SubSeq(c, x.pos + 1, x.pos + k)
      BY <1>2, <1>5, <1>7, <2>6
    <3>3. Reads(x, n, o)
      BY <1>6, <1>9, <2>3, <2>6, <3>1, <3>2 DEF Reads, SameStream, c
    <3>4. QED
      BY <2>5, <3>3
  <2>7. CASE o.thrown
    <3>1. getpos(o.r) \in getpos(x)..Len(c)
      BY <1>5, <1>6, <2>3
    <3>2. QED
      BY <1>9, <2>5, <2>7, <3>1 DEF Breaks, c
  <2>8. QED
    BY <1>8, <2>6, <2>7
<1>11. QED
  BY <1>9, <1>10 DEF o, c

\* A sequence is all of itself.
LEMMA Whole ==
  ASSUME NEW s \in Bytes
  PROVE  SubSeq(s, 1, Len(s)) = s
<1> DEFINE k == Len(s)
           v == SubSeq(s, 1, k)
<1>1. k \in Nat /\ k <= Len(s)
  BY LenProperties DEF Bytes
<1>2. v \in Bytes /\ Len(v) = k /\ \A i \in 1..k : v[i] = s[i]
  <2> HIDE DEF k
  <2>1. QED
    BY <1>1, Start
<1> HIDE DEF v
<1>3. v = s
  BY <1>2, Same
<1>4. QED
  BY <1>3 DEF v

\* A write of a file is that of a stream, or throws when the file is read-only.
LEMMA FileWrite ==
  ASSUME NEW x, FileShape(x), NEW p \in Bytes
  PROVE  LET o == write(x, p) IN
         FileShape(o.r) /\ Writes(x, o) /\ (GoodFile(x) => GoodFile(o.r))
<1> DEFINE g == IF x.state = "READING" THEN flush(x) ELSE x
           o == write(x, p)
<1>1. o = filewrite(x, p)
  BY FileDispatch DEF FileShape
<1>2. /\ FileShape(g) /\ Content(g) = Content(x) /\ getpos(g) = getpos(x) /\ g.kind = x.kind
      /\ g.readonly = x.readonly /\ g.feof = x.feof
  <2>1. CASE x.state = "READING"
    BY <2>1, FlushFacts
  <2>2. CASE x.state # "READING"
    BY <2>2 DEF FileShape
  <2>3. QED
    BY <2>1, <2>2
<1>3. o = IF x.readonly THEN Throws([g EXCEPT !.state = "WRITING", !.ferr = TRUE])
          ELSE Done([g EXCEPT !.wbuf = @ \o p, !.pos = @ + Len(p), !.state = "WRITING"], p)
  BY <1>1 DEF filewrite
<1> HIDE DEF g
<1>4. /\ Content(x) \in Bytes /\ Content(x) = OnDisk(g) /\ getpos(x) = g.pos
      /\ g.pos <= Len(Content(x)) /\ g.pos \in Nat /\ (g.wbuf = <<>> => OnDisk(g) = g.disk)
      /\ g.feof \in BOOLEAN
  <2>1. /\ OnDisk(g) \in Bytes /\ g.pos <= Len(OnDisk(g)) /\ Content(g) = OnDisk(g)
        /\ getpos(g) = g.pos /\ (g.wbuf = <<>> => OnDisk(g) = g.disk)
    BY <1>2, OnDiskFacts
  <2>2. g.pos \in Nat /\ g.feof \in BOOLEAN
    BY <1>2 DEF FileShape
  <2>3. QED
    BY <1>2, <2>1, <2>2
<1>s. FileShape(x) /\ getpos(x) = x.pos
  BY OnDiskFacts
<1>5. CASE x.readonly
  <2> DEFINE y == [g EXCEPT !.state = "WRITING", !.ferr = TRUE]
             fe == TRUE
             c == Content(x)
             e == g.feof
             k == g.pos
  <2>1. g.wbuf = <<>> /\ g.disk = c
    BY <1>2, <1>4, <1>5 DEF FileShape
  <2>2. y = Clean(g, c, k, e, "WRITING", fe)
    <3>1. [g EXCEPT !.disk = g.disk, !.wbuf = g.wbuf, !.pos = g.pos, !.feof = g.feof,
                    !.ferr = TRUE, !.state = "WRITING"] = y
      BY <1>2 DEF FileShape
    <3>2. QED
      BY <2>1, <3>1 DEF Clean
  <2>3. c \in Bytes /\ k \in Nat /\ k <= Len(c) /\ e \in BOOLEAN /\ fe \in BOOLEAN
    BY <1>4
  <2> HIDE DEF y, c, e, k, fe
  <2>4. /\ FileShape(y) /\ Content(y) = c /\ getpos(y) = k /\ y.kind = g.kind
        /\ y.pos = k /\ y.feof = e
    BY <1>2, <2>2, <2>3, CleanFile
  <2>5. o = Throws(y)
    BY <1>3, <1>5 DEF y
  <2> HIDE DEF o
  <2>6. o.r = y /\ o.thrown
    BY <2>5 DEF Throws
  <2>7. Writes(x, o)
    BY <1>2, <1>4, <2>4, <2>6 DEF Writes, Fails, SameStream, c, k
  <2>8. GoodFile(x) => GoodFile(o.r)
    <3>1. GoodFile(x) => (x.feof => x.pos = Len(c))
      BY DEF GoodFile, c
    <3>2. x.pos = k /\ x.feof = e
      BY <1>2, <1>4, <1>s DEF k, e
    <3>3. QED
      BY <2>4, <2>6, <3>1, <3>2 DEF GoodFile
  <2>9. QED
    BY <2>4, <2>6, <2>7, <2>8 DEF o
<1>6. CASE ~x.readonly
  <2> DEFINE y == [g EXCEPT !.wbuf = @ \o p, !.pos = @ + Len(p), !.state = "WRITING"]
             w == g.wbuf
             wp == w \o p
             k == g.pos + Len(p)
             a == g.pos - Len(w)
             s == g.disk
  <2>1. /\ w \in Bytes /\ s \in Bytes /\ Len(w) \in Nat /\ Len(p) \in Nat
        /\ a \in Nat /\ a <= Len(s) /\ a + Len(w) = g.pos /\ k \in Nat
    BY <1>2, LenProperties DEF FileShape, Bytes
  <2>2. y = [g EXCEPT !.wbuf = wp, !.pos = k, !.state = "WRITING"]
    OBVIOUS
  <2>a. a = g.pos - Len(w) /\ k = g.pos + Len(p)
    OBVIOUS
  <2> HIDE DEF w, s, k, a, y
  <2>3. wp \in Bytes /\ Len(wp) = Len(w) + Len(p)
    BY <2>1, Join
  <2>4. OverlayAt(OverlayAt(s, a, w), a + Len(w), p) = OverlayAt(s, a, wp)
    BY <2>1, OverlayTwice
  <2> HIDE DEF wp
  <2>5. /\ y \in [kind : {"file"}, disk : Bytes, wbuf : Bytes, pos : Nat, feof : BOOLEAN,
                  ferr : BOOLEAN, state : {"READING", "WRITING", "FLUSHED"}, readonly : BOOLEAN]
        /\ y.disk = g.disk /\ y.wbuf = wp /\ y.pos = k /\ y.state = "WRITING"
        /\ y.readonly = g.readonly /\ y.kind = g.kind /\ y.feof = g.feof
    BY <1>2, <2>1, <2>2, <2>3 DEF FileShape
  <2>6. y.disk = s /\ g.wbuf = w
    BY <2>5 DEF s, w
  <2>7. k - Len(wp) = a /\ Len(wp) <= k
    <3> DEFINE q == g.pos
               l == Len(w)
               j == Len(p)
               z == Len(wp)
    <3>1. /\ q \in Int /\ l \in Nat /\ j \in Nat /\ z = l + j /\ a = q - l /\ k = q + j
          /\ a \in Nat
      BY <1>4, <2>1, <2>3, <2>a
    <3> HIDE DEF q, l, j, z
    <3>2. k - z = a /\ z <= k
      BY <3>1
    <3>3. QED
      BY <3>2 DEF z
  <2>8. FileShape(y)
    BY <1>2, <1>6, <2>1, <2>5, <2>6, <2>7 DEF FileShape
  <2>9. Content(y) = OverlayAt(s, a, wp) /\ getpos(y) = k
    BY <2>5, <2>6, <2>7, <2>8, OnDiskFacts DEF OnDisk
  <2>10. OnDisk(g) = OverlayAt(s, a, w)
    BY <2>a, <2>6 DEF OnDisk, s
  <2>11. Content(y) = OverlayAt(Content(x), g.pos, p)
    BY <1>4, <2>1, <2>4, <2>9, <2>10
  <2> DEFINE e == Content(y)
             t == OverlayAt(Content(x), g.pos, p)
  <2>12. e = t
    BY <2>11
  <2>13. e \in Bytes /\ Len(e) \in Nat
    BY <2>8, OnDiskFacts
  <2> HIDE DEF e, t
  <2>14. Len(t) <= Len(e) /\ SubSeq(e, 1, Len(t)) = t
    BY <2>12, <2>13, Whole
  <2>15. o = Done(y, p)
    BY <1>3, <1>6 DEF y
  <2> HIDE DEF o
  <2>16. o.r = y /\ o.out = p /\ ~o.thrown
    BY <2>15 DEF Done
  <2>17. Overwritten(Content(x), getpos(x), o.out, Content(o.r))
    BY <1>4, <2>14, <2>16 DEF Overwritten, e, t
  <2>18. Writes(x, o)
    BY <1>2, <1>4, <2>5, <2>9, <2>16, <2>17, <2>a DEF Writes
  <2>19. GoodFile(x) => GoodFile(o.r)
    <3> SUFFICES ASSUME GoodFile(x), o.r.feof PROVE o.r.pos = Len(Content(o.r))
      BY <2>8, <2>16 DEF GoodFile
    <3>1. g.pos = Len(Content(x))
      BY <1>2, <1>4, <1>s, <2>5, <2>16 DEF GoodFile
    <3> DEFINE h == Content(x)
    <3>2. h \in Bytes /\ g.pos = Len(h) /\ g.pos \in Nat
      BY <1>4, <3>1
    <3>3. e = OverlayAt(h, g.pos, p)
      BY <2>12 DEF t
    <3> HIDE DEF h
    <3>4. Len(e) = IF g.pos + Len(p) > Len(h) THEN g.pos + Len(p) ELSE Len(h)
      BY <3>2, <3>3, OverlayFacts
    <3>5. Len(e) = g.pos + Len(p)
      BY <2>1, <3>2, <3>4
    <3>6. QED
      BY <2>5, <2>16, <2>a, <3>5 DEF e
  <2>20. QED
    BY <2>8, <2>16, <2>18, <2>19 DEF o
<1>7. QED
  BY <1>5, <1>6

\* Positioning a file flushes it and stays within it.
LEMMA FileSetPos ==
  ASSUME NEW x, FileShape(x), NEW off \in 0..Len(Content(x))
  PROVE  LET o == setpos(x, off) IN ~o.thrown /\ GoodFile(o.r) /\ SetsPos(x, off, o)
<1> DEFINE o == setpos(x, off)
           c == Content(x)
           e == FALSE
           y == Clean(x, c, off, e, "FLUSHED", x.ferr)
<1>1. o = filesetpos(x, off)
  BY FileDispatch DEF FileShape
<1>2. c \in Bytes /\ c = OnDisk(x) /\ Len(c) \in Nat
  BY OnDiskFacts
<1>3. [fflush(x) EXCEPT !.pos = off, !.feof = FALSE, !.state = "FLUSHED"] = y
  <2>1. fflush(x) = Flushed(x)
    BY FlushFacts
  <2> HIDE DEF c
  <2>2. QED
    BY <1>2, <2>1 DEF Flushed, Clean, FileShape
<1>4. o = Done(y, <<>>)
  BY <1>1, <1>3 DEF filesetpos
<1>5. off \in Nat /\ off <= Len(c)
  BY <1>2
<1>6. c = Content(x) /\ e \in BOOLEAN /\ ~e /\ x.ferr \in BOOLEAN
  BY DEF FileShape
<1> HIDE DEF c, e
<1>7. FileShape(y) /\ Content(y) = c /\ getpos(y) = off /\ y.kind = x.kind /\ y.feof = e
  <2>1. FileShape(x) /\ c \in Bytes /\ off \in Nat /\ off <= Len(c) /\ e \in BOOLEAN
        /\ "FLUSHED" \in {"READING", "WRITING", "FLUSHED"} /\ x.ferr \in BOOLEAN
    BY <1>2, <1>5, <1>6
  <2>2. QED
    BY <2>1, CleanFile
<1> HIDE DEF o, y
<1>8. o.r = y /\ o.out = <<>> /\ ~o.thrown
  BY <1>4 DEF Done
<1>9. SetsPos(x, off, o)
  BY <1>6, <1>7, <1>8 DEF SetsPos, SameStream
<1>10. GoodFile(y)
  BY <1>6, <1>7 DEF GoodFile
<1>11. QED
  BY <1>8, <1>9, <1>10 DEF o

\* What size() and truncate() do first.
LEMMA SyncFacts ==
  ASSUME NEW x, FileShape(x)
  PROVE  LET g == Sync(x) IN
         /\ FileShape(g) /\ Content(g) = Content(x) /\ getpos(g) = getpos(x) /\ g.kind = x.kind
         /\ g.wbuf = <<>> /\ g.disk = Content(x) /\ g.pos = x.pos /\ g.feof = x.feof
<1>1. CASE x.readonly
  <2>1. Sync(x) = x /\ x.wbuf = <<>>
    BY <1>1 DEF Sync, FileShape
  <2>2. Content(x) = x.disk
    BY <2>1, OnDiskFacts
  <2>3. QED
    BY <2>1, <2>2
<1>2. CASE ~x.readonly
  <2>1. Sync(x) = flush(x)
    BY <1>2 DEF Sync
  <2>2. QED
    BY <2>1, FlushFacts
<1>3. QED
  BY <1>1, <1>2

\* The size of a file counts the bytes not flushed yet.
LEMMA FileSize ==
  ASSUME NEW x, FileShape(x)
  PROVE  /\ FileShape(size(x).r) /\ ~size(x).thrown /\ Counts(x, size(x))
         /\ GoodFile(x) <=> GoodFile(size(x).r)
<1> DEFINE g == Sync(x)
           o == size(x)
<1>1. o = Done(g, Len(g.disk))
  BY FileDispatch DEF FileShape, filesize
<1>2. /\ FileShape(g) /\ Content(g) = Content(x) /\ getpos(g) = getpos(x) /\ g.kind = x.kind
      /\ g.disk = Content(x) /\ g.pos = x.pos /\ g.feof = x.feof
  BY SyncFacts
<1> HIDE DEF g, o
<1>3. o.r = g /\ o.out = Len(Content(x)) /\ ~o.thrown
  BY <1>1, <1>2 DEF Done
<1>4. GoodFile(x) <=> GoodFile(g)
  BY <1>2 DEF GoodFile
<1>5. QED
  BY <1>2, <1>3, <1>4 DEF Counts, SameStream, o

\* truncate() cuts the file, or fills it with zeros.
LEMMA FileTruncate ==
  ASSUME NEW x, FileShape(x), NEW off \in Nat, getpos(x) <= off
  PROVE  LET o == truncate(x, off) IN
         /\ FileShape(o.r) /\ Truncates(x, off, o)
         /\ GoodFile(x) /\ ~(x.feof /\ off > x.pos /\ ~o.thrown) => GoodFile(o.r)
         /\ o.thrown => Content(o.r) = Content(x)
<1> DEFINE g == Sync(x)
           o == truncate(x, off)
           c == Content(x)
           k == Min2(off, Len(c))
           h == SubSeq(c, 1, k)
           z == Zeros(off - k)
           q == h \o z
           e == g.feof
           fe == g.ferr
<1>1. o = filetruncate(x, off)
  BY FileDispatch DEF FileShape
<1>2. /\ FileShape(g) /\ Content(g) = c /\ getpos(g) = getpos(x) /\ g.kind = x.kind
      /\ g.wbuf = <<>> /\ g.disk = c /\ g.pos = x.pos /\ g.feof = x.feof
  BY SyncFacts
<1>3. c \in Bytes /\ Len(c) \in Nat /\ getpos(x) = x.pos /\ x.pos \in Nat /\ x.pos <= Len(c)
  BY OnDiskFacts DEF FileShape
<1>4. CASE x.readonly
  <2>1. o = Throws(g)
    BY <1>1, <1>4 DEF filetruncate
  <2> HIDE DEF o, g, c
  <2>2. o.r = g /\ o.thrown
    BY <2>1 DEF Throws
  <2>3. Truncates(x, off, o)
    BY <1>2, <2>2 DEF Truncates, Fails, SameStream, c
  <2>4. GoodFile(x) => GoodFile(g)
    BY <1>2 DEF GoodFile, c
  <2>5. QED
    BY <1>2, <2>2, <2>3, <2>4 DEF o, c
<1>5. CASE ~x.readonly
  <2>1. k \in Nat /\ k <= off /\ k <= Len(c) /\ x.pos <= k /\ off - k \in Nat
    BY <1>3 DEF Min2
  <2>2. o = Done([g EXCEPT !.disk = SubSeq(g.disk, 1, Min2(off, Len(g.disk)))
                                      \o Zeros(off - Min2(off, Len(g.disk)))], off)
    BY <1>1, <1>5 DEF filetruncate
  <2>3. o = Done([g EXCEPT !.disk = q], off)
    BY <1>2, <2>2
  <2> HIDE DEF k
  <2>4. h \in Bytes /\ Len(h) = k /\ \A i \in 1..k : h[i] = c[i]
    BY <1>3, <2>1, Start
  <2>5. z \in Bytes /\ Len(z) = off - k
    BY <2>1, ZerosFacts
  <2> HIDE DEF h, z
  <2>6. /\ q \in Bytes /\ Len(q) = Len(h) + Len(z) /\ \A i \in 1..Len(h) : q[i] = h[i]
    BY <2>4, <2>5, Join
  <2> HIDE DEF q
  <2>7. Len(q) = off /\ \A i \in 1..k : q[i] = c[i]
    BY <2>1, <2>4, <2>5, <2>6
  <2>8. SubSeq(q, 1, x.pos) = SubSeq(c, 1, x.pos)
    <3> DEFINE a == x.pos
               u == SubSeq(q, 1, a)
               v == SubSeq(c, 1, a)
    <3>1. a \in Nat /\ a <= k /\ a <= Len(q) /\ a <= Len(c)
      BY <1>3, <2>1, <2>7
    <3> HIDE DEF a, c
    <3>2. /\ u \in Bytes /\ Len(u) = a /\ \A i \in 1..a : u[i] = q[i]
          /\ v \in Bytes /\ Len(v) = a /\ \A i \in 1..a : v[i] = c[i]
      BY <1>3, <2>6, <3>1, Start
    <3> HIDE DEF u, v
    <3>3. \A i \in 1..Len(u) : u[i] = v[i]
      BY <2>1, <2>7, <3>1, <3>2
    <3>4. u = v
      BY <3>2, <3>3, Same
    <3>5. QED
      BY <3>4 DEF u, v, a, c
  <2> DEFINE st == g.state
             w == Clean(g, q, x.pos, e, st, fe)
  <2>9. [g EXCEPT !.disk = q] = w
    <3>1. [g EXCEPT !.disk = q] = [g EXCEPT !.disk = q, !.wbuf = g.wbuf, !.pos = g.pos,
                                            !.feof = g.feof, !.ferr = g.ferr,
                                            !.state = g.state]
      BY <1>2 DEF FileShape
    <3>2. QED
      BY <1>2, <3>1 DEF Clean
  <2>10. e \in BOOLEAN /\ st \in {"READING", "WRITING", "FLUSHED"} /\ fe \in BOOLEAN
    BY <1>2 DEF FileShape
  <2>e. e = x.feof
    BY <1>2
  <2> HIDE DEF e, st, g, c, fe
  <2>11. /\ FileShape(w) /\ Content(w) = q /\ getpos(w) = x.pos /\ w.kind = g.kind
         /\ w.pos = x.pos /\ w.feof = e
    <3> DEFINE a == x.pos
    <3>1. a \in Nat /\ a <= Len(q)
      BY <1>3, <2>1, <2>7
    <3> HIDE DEF a
    <3> DEFINE v == Clean(g, q, a, e, st, fe)
    <3>2. /\ FileShape(v) /\ Content(v) = q /\ getpos(v) = a /\ v.kind = g.kind
          /\ v.pos = a /\ v.feof = e
      BY <1>2, <2>6, <2>10, <3>1, CleanFile
    <3>3. QED
      BY <3>2 DEF a
  <2>12. o = Done(w, off)
    BY <2>3, <2>9
  <2> HIDE DEF o, w
  <2>13. o.r = w /\ o.out = off /\ ~o.thrown
    BY <2>12 DEF Done
  <2>14. Truncates(x, off, o)
    BY <1>2, <1>3, <2>7, <2>8, <2>11, <2>13 DEF Truncates, c
  <2>15. GoodFile(x) /\ ~(x.feof /\ off > x.pos) => GoodFile(w)
    <3>1. GoodFile(x) => (x.feof => x.pos = Len(c))
      BY DEF GoodFile, c
    <3>2. GoodFile(x) /\ ~(x.feof /\ off > x.pos) => (x.feof => x.pos = off)
      BY <1>3, <2>1, <3>1
    <3>3. QED
      BY <2>7, <2>11, <2>e, <3>2 DEF GoodFile
  <2>16. QED
    BY <2>11, <2>13, <2>14, <2>15 DEF o
<1>6. QED
  BY <1>4, <1>5
-----------------------------------------------------------------------------
(* Loops: the values of a recursive function. *)

\* Induction over the naturals, for sets instead of predicates.
Less == {p \in Nat \X Nat : p[1] < p[2]}

\* A set of naturals with 0 and every successor is all of them.
LEMMA SetInduction ==
  ASSUME NEW T, T \subseteq Nat, 0 \in T, \A n \in T : n + 1 \in T
  PROVE  T = Nat
<1> SUFFICES ASSUME Nat \ T # {} PROVE FALSE
  OBVIOUS
<1>1. IsWellFoundedOn(Less, Nat)
  <2>1. Less = OpToRel(<, Nat)
    BY DEF Less, OpToRel
  <2>2. QED
    BY <2>1, NatLessThanWellFounded
<1>2. PICK m \in Nat \ T : \A k \in Nat \ T : <<k, m>> \notin Less
  <2>1. Nat \ T \subseteq Nat
    OBVIOUS
  <2>2. QED
    BY <1>1, <2>1, WFMin
<1>3. m # 0 /\ m - 1 \in Nat
  OBVIOUS
<1>4. m - 1 \in T
  <2> SUFFICES ASSUME m - 1 \notin T PROVE FALSE
    OBVIOUS
  <2>1. <<m - 1, m>> \in Nat \X Nat /\ <<m - 1, m>>[1] < <<m - 1, m>>[2]
    BY <1>3
  <2>2. <<m - 1, m>> \in Less
    BY <2>1 DEF Less
  <2>3. QED
    BY <1>2, <1>3, <2>2
<1>5. QED
  BY <1>3, <1>4

\* The rounds of a loop over values of S, the steps of which may differ.
Steps(f, S, step, a, n) ==
  f \in [0..n -> S] /\ f[0] = a /\ \A k \in 1..n : f[k] = step[k][f[k - 1]]
\* Such a function exists, whatever the step.
LEMMA StepsExist ==
  ASSUME NEW S, NEW step \in [Nat -> [S -> S]], NEW a \in S, NEW n \in Nat
  PROVE  \E f : Steps(f, S, step, a, n)
<1> DEFINE Good(f, m) == f[0] = a /\ \A k \in 1..m : f[k] = step[k][f[k - 1]]
           T == {m \in Nat : \E f \in [0..m -> S] : Good(f, m)}
<1>1. 0 \in T
  <2> DEFINE f == [k \in 0..0 |-> a]
  <2>1. f \in [0..0 -> S] /\ Good(f, 0)
    OBVIOUS
  <2>2. QED
    BY <2>1
<1>2. ASSUME NEW m \in T PROVE m + 1 \in T
  <2>1. m \in Nat
    OBVIOUS
  <2>2. PICK f \in [0..m -> S] : Good(f, m)
    OBVIOUS
  <2> DEFINE g == [k \in 0..(m + 1) |-> IF k <= m THEN f[k] ELSE step[m + 1][f[m]]]
  <2>3. g \in [0..(m + 1) -> S]
    <3>1. ASSUME NEW k \in 0..(m + 1) PROVE (IF k <= m THEN f[k] ELSE step[m + 1][f[m]]) \in S
      <4>1. f[m] \in S /\ m + 1 \in Nat
        BY <2>1
      <4>2. CASE k <= m
        BY <2>1, <4>2
      <4>3. CASE ~(k <= m)
        BY <4>1, <4>3
      <4>4. QED
        BY <4>2, <4>3
    <3>2. QED
      BY <3>1
  <2>4. \A k \in 0..m : g[k] = f[k]
    BY <2>1
  <2>5. g[m + 1] = step[m + 1][f[m]]
    BY <2>1
  <2> HIDE DEF g
  <2>6. g[0] = a
    BY <2>1, <2>2, <2>4
  <2>7. \A k \in 1..(m + 1) : g[k] = step[k][g[k - 1]]
    <3> SUFFICES ASSUME NEW k \in 1..(m + 1) PROVE g[k] = step[k][g[k - 1]]
      OBVIOUS
    <3>1. CASE k <= m
      BY <2>1, <2>2, <2>4, <3>1
    <3>2. CASE ~(k <= m)
      <4>1. k = m + 1 /\ k - 1 = m
        BY <2>1, <3>2
      <4>2. QED
        BY <2>1, <2>4, <2>5, <4>1
    <3>3. QED
      BY <3>1, <3>2
  <2>8. m + 1 \in Nat /\ Good(g, m + 1)
    BY <2>1, <2>6, <2>7
  <2>9. QED
    BY <2>3, <2>8
<1>3. T = Nat
  <2>1. T \subseteq Nat
    OBVIOUS
  <2> HIDE DEF T
  <2>2. QED
    BY <1>1, <1>2, <2>1, SetInduction
<1>4. n \in T
  BY <1>3
<1>5. QED
  BY <1>4 DEF Steps

\* The same for a step that is always the same.
Rounds(f, S, step, a, n) ==
  f \in [0..n -> S] /\ f[0] = a /\ \A k \in 1..n : f[k] = step[f[k - 1]]
\* Such a function exists, too.
LEMMA RoundsExist ==
  ASSUME NEW S, NEW step \in [S -> S], NEW a \in S, NEW n \in Nat
  PROVE  \E f : Rounds(f, S, step, a, n)
<1> DEFINE steps == [k \in Nat |-> step]
<1>1. steps \in [Nat -> [S -> S]] /\ \A k \in 1..n : steps[k] = step
  OBVIOUS
<1> HIDE DEF steps
<1>2. \E f : Steps(f, S, steps, a, n)
  BY <1>1, StepsExist
<1>3. QED
  BY <1>1, <1>2 DEF Steps, Rounds
-----------------------------------------------------------------------------
(* Block devices. *)

\* Block readers, whatever their buffer shows.
Blocks == [kind : {"block"}, dev : Bytes, pos : Nat, bufferpos : Nat, buffer : Bytes]

\* In step, the buffer shows the device, whole blocks of it at most.
GoodBlock(b) ==
  /\ b \in Blocks
  /\ b.pos <= devsize(b) /\ b.bufferpos + Len(b.buffer) <= devsize(b)
  /\ b.buffer = SubSeq(b.dev, b.bufferpos + 1, b.bufferpos + Len(b.buffer))

\* The whole blocks of a device.
LEMMA DevSize ==
  ASSUME NEW b, b.dev \in Bytes
  PROVE  devsize(b) \in Nat /\ devsize(b) <= Len(b.dev)
<1> DEFINE l == Len(b.dev)
           n == BlockSize
           q == l \div n
<1>1. l \in Nat /\ n \in Nat \ {0}
  BY LenProperties, SizeAssumption DEF Bytes
<1>d. devsize(b) = q * n
  BY DEF devsize
<1> HIDE DEF l, n
<1>2. q \in Nat /\ q * n \in Nat /\ q * n <= l
  BY <1>1
<1>3. QED
  BY <1>d, <1>2 DEF l

\* A block that begins before the end of the device is all of it inside.
LEMMA BlockInside ==
  ASSUME NEW b, b.dev \in Bytes, NEW p \in Nat
  PROVE  /\ p - (p % BlockSize) \in Nat /\ p - (p % BlockSize) <= p
         /\ p < p - (p % BlockSize) + BlockSize
         /\ p < devsize(b) => p - (p % BlockSize) + BlockSize <= devsize(b)
         /\ p <= devsize(b) => p - (p % BlockSize) <= devsize(b)
<1> DEFINE n == BlockSize
           l == Len(b.dev)
           q == l \div n
           j == p \div n
           i == p % n
<1>1. n \in Nat \ {0} /\ l \in Nat /\ devsize(b) = q * n
  BY LenProperties, SizeAssumption DEF Bytes, devsize
<1> HIDE DEF n, l
<1>2. q \in Nat
  BY <1>1
<1> HIDE DEF q
<1>3. j \in Nat /\ i \in Nat /\ i < n /\ p = n * j + i
  BY <1>1
<1> HIDE DEF j
<1>i. i = p % n
  OBVIOUS
<1> HIDE DEF i
<1>4. p - i = n * j /\ n * j \in Nat
  BY <1>1, <1>3
<1>5. p - i \in Nat /\ p - i <= p /\ p < p - i + n
  BY <1>1, <1>3, <1>4
<1>6. ASSUME p < q * n PROVE n * j + n <= q * n
  <2>1. n * j < n * q
    BY <1>1, <1>2, <1>3, <1>4, <1>6
  <2>2. j < q
    <3> SUFFICES ASSUME q <= j PROVE FALSE
      BY <1>2, <1>3
    <3>1. PICK h \in Nat : j = q + h
      <4>1. j - q \in Nat /\ j = q + (j - q)
        BY <1>2, <1>3
      <4>2. QED
        BY <4>1
    <3>2. n * j = n * q + n * h /\ n * h \in Nat
      BY <1>1, <1>2, <3>1
    <3>3. QED
      BY <1>1, <1>2, <2>1, <3>2
  <2>3. PICK h \in Nat : q = j + 1 + h
    <3>1. q - j - 1 \in Nat /\ q = j + 1 + (q - j - 1)
      BY <1>2, <1>3, <2>2
    <3>2. QED
      BY <3>1
  <2>4. q * n = n * j + n + n * h /\ n * h \in Nat
    BY <1>1, <1>3, <2>3
  <2>5. QED
    BY <1>1, <1>4, <2>4
<1>7. p <= devsize(b) => p - i <= devsize(b)
  <2>1. devsize(b) \in Nat
    BY DevSize
  <2>2. QED
    BY <1>5, <2>1
<1>8. QED
  BY <1>1, <1>4, <1>5, <1>6, <1>7, <1>i DEF n

\* A part and the part behind it.
LEMMA PartAfterPart ==
  ASSUME NEW s \in Bytes, NEW a \in Nat, NEW t \in Nat, NEW k \in Nat, a + t + k <= Len(s)
  PROVE  SubSeq(s, a + 1, a + t) \o SubSeq(s, a + t + 1, a + t + k) = SubSeq(s, a + 1, a + (t + k))
<1> DEFINE u == SubSeq(s, a + 1, a + t)
           b == a + t
           v == SubSeq(s, b + 1, b + k)
           n == t + k
           w == SubSeq(s, a + 1, a + n)
           uv == u \o v
<1>1. Len(s) \in Nat /\ b \in Nat /\ n \in Nat /\ a + n <= Len(s) /\ b + k <= Len(s)
      /\ a + t <= Len(s)
  BY LenProperties DEF Bytes
<1>2. u \in Bytes /\ Len(u) = t /\ \A i \in 1..t : u[i] = s[a + i]
  BY <1>1, Part
<1>b. b = a + t /\ n = t + k
  OBVIOUS
<1> HIDE DEF u, b, n
<1>3. v \in Bytes /\ Len(v) = k /\ \A i \in 1..k : v[i] = s[b + i]
  BY <1>1, Part
<1>4. w \in Bytes /\ Len(w) = n /\ \A i \in 1..n : w[i] = s[a + i]
  BY <1>1, Part
<1> HIDE DEF v, w
<1>5. /\ uv \in Bytes /\ Len(uv) = Len(u) + Len(v) /\ \A i \in 1..Len(u) : uv[i] = u[i]
      /\ \A i \in 1..Len(v) : uv[Len(u) + i] = v[i]
  BY <1>2, <1>3, Join
<1> HIDE DEF uv
<1>6. \A i \in 1..Len(uv) : uv[i] = w[i]
  <2>u. Len(uv) = n
    BY <1>2, <1>3, <1>5, <1>b
  <2> SUFFICES ASSUME NEW i \in 1..n PROVE uv[i] = w[i]
    BY <2>u
  <2>1. CASE i <= t
    <3>1. i \in 1..t /\ i \in 1..Len(u)
      BY <1>2, <2>1
    <3>2. uv[i] = u[i] /\ u[i] = s[a + i] /\ w[i] = s[a + i]
      BY <1>2, <1>4, <1>5, <3>1
    <3>3. QED
      BY <3>2
  <2>2. CASE i > t
    <3> DEFINE j == i - t
    <3>1. j \in 1..k /\ i = t + j /\ b + j = a + i
      BY <1>b, <2>2
    <3> HIDE DEF j
    <3>2. uv[i] = v[j]
      BY <1>2, <1>3, <1>5, <3>1
    <3>3. v[j] = s[a + i]
      BY <1>3, <3>1
    <3>4. QED
      BY <1>4, <3>2, <3>3
  <2>3. QED
    BY <2>1, <2>2
<1>7. uv = w
  BY <1>2, <1>3, <1>4, <1>5, <1>6, <1>b, Same
<1>8. QED
  BY <1>7 DEF u, v, w, b, n, uv

\* That is what InStep asks of one.
LEMMA BlockStep ==
  ASSUME NEW b
  PROVE  GoodBlock(b) <=> b \in Blocks /\ InStep(b)
<1>1. b.kind = "block" => (InStep(b) <=>
        /\ b.pos <= devsize(b) /\ b.bufferpos + Len(b.buffer) <= devsize(b)
        /\ b.buffer = SubSeq(b.dev, b.bufferpos + 1, b.bufferpos + Len(b.buffer)))
  BY DEF InStep
<1>2. QED
  BY <1>1 DEF GoodBlock, Blocks

\* Nothing is left to read, or to ask for.
BlockEnded(n, s) == Len(s.out) = n \/ s.r.pos = devsize(s.r)

\* The byte at the position is in the buffer.
Covered(b) == b.bufferpos <= b.pos /\ b.pos < b.bufferpos + Len(b.buffer)

\* Which definitions the calls of a block device take.
LEMMA BlockDispatch ==
  ASSUME NEW x \in Blocks
  PROVE  /\ \A n, io : read(x, n, io) = blockread(x, n, io)
         /\ \A p : write(x, p) = Throws(x)
         /\ \A off : setpos(x, off) = Done([x EXCEPT !.pos = off], <<>>)
         /\ \A off : truncate(x, off) = Throws(x)
         /\ size(x) = Done(x, devsize(x))
         /\ Content(x) = SubSeq(x.dev, 1, devsize(x)) /\ getpos(x) = x.pos
         /\ Content(x) \in Bytes /\ Len(Content(x)) = devsize(x)
<1>1. ~Memory(x.kind) /\ ~IsWindow(x.kind) /\ x.kind = "block"
  BY DEF Memory, IsWindow, Blocks
<1>2. \A n, io : read(x, n, io) = blockread(x, n, io)
  BY <1>1 DEF read
<1>3. \A p : write(x, p) = Throws(x)
  BY <1>1 DEF write
<1>4. \A off : setpos(x, off) = Done([x EXCEPT !.pos = off], <<>>)
  BY <1>1 DEF setpos
<1>5. \A off : truncate(x, off) = Throws(x)
  BY <1>1 DEF truncate
<1>6. size(x) = Done(x, devsize(x))
  BY <1>1 DEF size
<1>7. Content(x) = SubSeq(x.dev, 1, devsize(x))
  BY <1>1 DEF Content, IsWindow
<1>8. getpos(x) = x.pos
  BY <1>1 DEF getpos
<1>9. Content(x) \in Bytes /\ Len(Content(x)) = devsize(x)
  <2>1. x.dev \in Bytes
    BY DEF Blocks
  <2>2. devsize(x) \in Nat /\ devsize(x) <= Len(x.dev)
    BY <2>1, DevSize
  <2>3. QED
    BY <1>7, <2>1, <2>2, Start
<1>10. QED
  BY <1>2, <1>3, <1>4, <1>5, <1>6, <1>7, <1>8, <1>9

\* What a round takes from the buffer.
LEMMA BlockTake ==
  ASSUME NEW b \in Blocks, NEW want \in Nat
  PROVE  LET k == Buffered(b, want)
             at == b.pos - b.bufferpos
         IN /\ k \in Nat /\ k <= want
            /\ Len(SubSeq(b.buffer, at + 1, at + k)) = k
            /\ SubSeq(b.buffer, at + 1, at + k) \in Bytes
            /\ Covered(b) /\ want > 0 => k > 0
            /\ GoodBlock(b) =>
                 /\ b.pos + k <= devsize(b)
                 /\ SubSeq(b.buffer, at + 1, at + k) = SubSeq(Content(b), b.pos + 1, b.pos + k)
<1> DEFINE k == Buffered(b, want)
           at == b.pos - b.bufferpos
           t == b.buffer
           l == Len(t)
           p == b.bufferpos
           z == devsize(b)
           c == Content(b)
           s == b.dev
           a == b.pos
<1>1. /\ s \in Bytes /\ t \in Bytes /\ p \in Nat /\ a \in Nat /\ l \in Nat /\ z \in Nat
      /\ z <= Len(s) /\ Len(s) \in Nat
  BY DevSize, LenProperties DEF Blocks, Bytes
<1>2. c = SubSeq(s, 1, z)
  BY BlockDispatch
<1>3. GoodBlock(b) => p + l <= z /\ a <= z /\ t = SubSeq(s, p + 1, p + l)
  BY DEF GoodBlock
<1>4. k = IF a >= p /\ a < p + l THEN Min2(want, l - at) ELSE 0
  BY DEF Buffered
<1>5. Covered(b) <=> p <= a /\ a < p + l
  BY DEF Covered
<1>a. at = a - p
  OBVIOUS
<1> HIDE DEF k, at, t, l, p, z, c, s, a
<1>6. CASE Covered(b)
  <2>1. at \in Nat /\ at < l /\ k = Min2(want, l - at) /\ p + at = a
    BY <1>1, <1>4, <1>5, <1>6, <1>a
  <2>2. k \in Nat /\ k <= want /\ at + k <= l /\ (want > 0 => k > 0)
    BY <1>1, <2>1 DEF Min2
  <2>3. SubSeq(t, at + 1, at + k) \in Bytes /\ Len(SubSeq(t, at + 1, at + k)) = k
    <3>1. t \in Bytes /\ at \in Nat /\ k \in Nat /\ at + k <= Len(t)
      BY <1>1, <2>1, <2>2 DEF l
    <3>2. QED
      BY <3>1, Part
  <2>4. ASSUME GoodBlock(b)
        PROVE  a + k <= z /\ SubSeq(t, at + 1, at + k) = SubSeq(c, a + 1, a + k)
    <3>1. p + l <= z /\ a <= z /\ t = SubSeq(s, p + 1, p + l)
      BY <1>3, <2>4
    <3>2. a + k <= z
      BY <1>1, <2>1, <2>2, <3>1
    <3>3. SubSeq(SubSeq(s, p + 1, p + l), at + 1, at + k) = SubSeq(s, p + at + 1, p + at + k)
      <4>1. /\ s \in Bytes /\ p \in Nat /\ l \in Nat /\ p + l <= Len(s)
            /\ at \in Nat /\ k \in Nat /\ at + k <= l
        BY <1>1, <2>1, <2>2, <3>1
      <4>2. QED
        BY <4>1, PartOfPart
    <3>4. SubSeq(SubSeq(s, 1, z), a + 1, a + k) = SubSeq(s, a + 1, a + k)
      BY <1>1, <2>2, <3>2, PartOfStart
    <3>5. QED
      BY <1>2, <2>1, <3>1, <3>2, <3>3, <3>4
  <2>5. QED
    BY <2>2, <2>3, <2>4 DEF k, at, t, a, z, c
<1>7. CASE ~Covered(b)
  <2>1. k = 0 /\ at \in Int
    BY <1>1, <1>4, <1>5, <1>7, <1>a
  <2>2. SubSeq(t, at + 1, at + k) = <<>> /\ SubSeq(c, a + 1, a + k) = <<>>
    <3>1. at + k < at + 1 /\ a + k < a + 1
          /\ {at + k, at + 1, a + k, a + 1} \subseteq Int
      BY <1>1, <2>1
    <3>2. QED
      BY <3>1, SubSeqEmpty
  <2>3. <<>> \in Bytes /\ Len(<<>>) = 0
    BY EmptySeq DEF Bytes
  <2>4. k \in Nat /\ k <= want /\ (GoodBlock(b) => a + k <= z)
    BY <1>1, <1>3, <2>1
  <2>5. SubSeq(t, at + 1, at + k) \in Bytes /\ Len(SubSeq(t, at + 1, at + k)) = k
    BY <2>1, <2>2, <2>3
  <2>6. QED
    BY <1>7, <2>2, <2>4, <2>5 DEF k, at, t, a, z, c
<1>8. QED
  BY <1>6, <1>7

\* The bytes of a buffer whose size changes without a read.
LEMMA ResizedFacts ==
  ASSUME NEW s \in Bytes, NEW n \in Nat
  PROVE  SubSeq(s \o Zeros(n), 1, n) \in Bytes
<1> DEFINE z == Zeros(n)
           sz == s \o z
<1>1. z \in Bytes /\ Len(z) = n
  BY ZerosFacts
<1> HIDE DEF z
<1>2. sz \in Bytes /\ Len(sz) = Len(s) + Len(z) /\ Len(s) \in Nat
  BY <1>1, Join, LenProperties DEF Bytes
<1> HIDE DEF sz
<1>3. n <= Len(sz)
  BY <1>1, <1>2
<1>4. SubSeq(sz, 1, n) \in Bytes
  BY <1>2, <1>3, Start
<1>5. QED
  BY <1>4 DEF sz, z

\* What was read of the device, wherever that was.
LEMMA PieceFacts ==
  ASSUME NEW s \in Bytes, NEW a \in Nat, NEW k \in Int, k <= 0 \/ a + k <= Len(s)
  PROVE  SubSeq(s, a + 1, a + k) \in Bytes
<1>1. CASE k <= 0
  <2>1. a + k \in Int /\ a + 1 \in Int /\ a + k < a + 1
    BY <1>1
  <2>2. SubSeq(s, a + 1, a + k) = <<>> /\ <<>> \in Bytes
    BY <2>1, SubSeqEmpty, EmptySeq DEF Bytes
  <2>3. QED
    BY <2>2
<1>2. CASE k > 0
  <2>1. k \in Nat /\ a + k <= Len(s)
    BY <1>2
  <2>2. QED
    BY <2>1, Part
<1>3. QED
  BY <1>1, <1>2

\* Where Refill begins to read, and how much it asks for.
start(b) == b.pos - (b.pos % BlockSize)
asked(b) == Min2(BlockSize * BufBlocks, Wrap(devsize(b) - start(b)))
there(b) == IF start(b) < Len(b.dev) THEN Len(b.dev) - start(b) ELSE 0
gets(b, u) == Min2(IF u.what = "short" THEN Min2(u.got, asked(b)) ELSE asked(b), there(b))
\* A buffer that begins at p and holds the bytes q.
Rebuffered(b, p, q) == [b EXCEPT !.bufferpos = p, !.buffer = q]

\* A block reader with another buffer.
LEMMA RebufferedFacts ==
  ASSUME NEW b \in Blocks, NEW p \in Nat, NEW q \in Bytes
  PROVE  LET y == Rebuffered(b, p, q) IN
         /\ y \in Blocks /\ y.dev = b.dev /\ y.pos = b.pos /\ y.bufferpos = p /\ y.buffer = q
         /\ devsize(y) = devsize(b)
<1> DEFINE y == Rebuffered(b, p, q)
<1>1. y \in Blocks /\ y.dev = b.dev /\ y.pos = b.pos /\ y.bufferpos = p /\ y.buffer = q
  BY DEF Rebuffered, Blocks
<1> HIDE DEF y
<1>2. devsize(y) = devsize(b)
  BY <1>1 DEF devsize
<1>3. QED
  BY <1>1, <1>2 DEF y

\* Filling the buffer, as the system's calls go.
LEMMA RefillSays ==
  ASSUME NEW b \in Blocks, NEW u \in Outcomes
  PROVE  LET o == Refill(b, u)
             p == start(b)
             n == asked(b)
         IN \/ u.what = "seek" /\ o = Throws(Rebuffered(b, p, b.buffer))
            \/ /\ u.what = "read" /\ n > 0
               /\ o = Throws(Rebuffered(b, p, SubSeq(b.buffer \o Zeros(n), 1, n)))
            \/ /\ u.what # "seek" /\ ~(u.what = "read" /\ n > 0)
               /\ o = Done(Rebuffered(b, p, SubSeq(b.dev, p + 1, p + gets(b, u))), <<>>)
<1> DEFINE o == Refill(b, u)
           p == start(b)
           n == asked(b)
           k == gets(b, u)
           moved == [b EXCEPT !.bufferpos = p]
<1>1. moved = Rebuffered(b, p, b.buffer) /\ moved.buffer = b.buffer
  BY DEF Rebuffered, Blocks
<1>2. \A q : [moved EXCEPT !.buffer = q] = Rebuffered(b, p, q)
  BY DEF Rebuffered, Blocks
<1>3. u.what = "seek" => o = Throws(moved)
  BY DEF Refill, start
<1>4. u.what = "read" /\ n > 0 => o = Throws([moved EXCEPT !.buffer = SubSeq(@ \o Zeros(n), 1, n)])
  BY DEF Refill, start, asked
<1>5. u.what # "seek" /\ ~(u.what = "read" /\ n > 0) =>
        o = Done([moved EXCEPT !.buffer = SubSeq(b.dev, p + 1, p + k)], <<>>)
  BY DEF Refill, start, asked, gets, there
<1> HIDE DEF o, p, n, k
<1>6. [moved EXCEPT !.buffer = SubSeq(@ \o Zeros(n), 1, n)]
        = Rebuffered(b, p, SubSeq(b.buffer \o Zeros(n), 1, n))
  BY <1>1, <1>2
<1> HIDE DEF moved
<1>7. QED
  BY <1>1, <1>2, <1>3, <1>4, <1>5, <1>6 DEF o, p, n, k

\* The numbers of Refill.
LEMMA RefillNumbers ==
  ASSUME NEW b \in Blocks, NEW u \in Outcomes
  PROVE  /\ start(b) \in Nat /\ asked(b) \in Int /\ gets(b, u) \in Int
         /\ gets(b, u) <= 0 \/ start(b) + gets(b, u) <= Len(b.dev)
         /\ b.pos <= devsize(b) =>
              /\ gets(b, u) \in Nat /\ start(b) + gets(b, u) <= devsize(b)
              /\ u.what # "short" /\ b.pos < devsize(b) =>
                   start(b) <= b.pos /\ b.pos < start(b) + gets(b, u)
              /\ gets(b, u) = 0 => b.pos = devsize(b)
<1> DEFINE p == start(b)
           m == BlockSize * BufBlocks
           z == devsize(b)
           l == Len(b.dev)
           n == asked(b)
           w == IF u.what = "short" THEN Min2(u.got, n) ELSE n
           h == there(b)
           k == gets(b, u)
           a == b.pos
<1>1. b.dev \in Bytes /\ a \in Nat /\ u.got \in Nat /\ (u.what = "short" => u.got > 0)
  BY DEF Blocks, Outcomes
<1>2. z \in Nat /\ z <= l /\ l \in Nat
  BY <1>1, DevSize, LenProperties DEF Bytes
<1>3. /\ p \in Nat /\ p <= a /\ a < p + BlockSize
      /\ a < z => p + BlockSize <= z
      /\ a <= z => p <= z
  BY <1>1, BlockInside DEF start
<1>4. BlockSize \in Nat \ {0} /\ m \in Nat /\ m >= BlockSize
  <2> DEFINE i == BlockSize
             v == BufBlocks
  <2>1. i \in Nat \ {0} /\ v \in Nat \ {0}
    BY SizeAssumption
  <2> HIDE DEF i, v
  <2>2. PICK j \in Nat : v = j + 1
    BY <2>1, v - 1 \in Nat /\ v = (v - 1) + 1
  <2>3. i * v = i * j + i /\ i * j \in Nat
    BY <2>1, <2>2
  <2>4. i * v \in Nat /\ i * v >= i
    BY <2>1, <2>3
  <2>5. QED
    BY <2>1, <2>4 DEF i, v
<1>5. Word \in Nat
  BY SizeAssumption
<1>6. n = Min2(m, Wrap(z - p))
  BY DEF asked
<1>7. h = IF p < l THEN l - p ELSE 0
  BY DEF there
<1>8. k = Min2(w, h)
  BY DEF gets
<1> HIDE DEF p, m, z, l, n, h, k, a
<1>9. Wrap(z - p) \in Int /\ (p <= z => Wrap(z - p) = z - p)
  BY <1>2, <1>3, <1>5 DEF Wrap
<1>10. n \in Int /\ n <= m
  BY <1>4, <1>6, <1>9 DEF Min2
<1>11. w \in Int
  BY <1>1, <1>10 DEF Min2
<1>12. h \in Nat /\ (h = 0 \/ p + h = l)
  BY <1>2, <1>3, <1>7
<1>13. k \in Int /\ k <= h /\ k <= w
  BY <1>8, <1>11, <1>12 DEF Min2
<1>14. k <= 0 \/ p + k <= l
  BY <1>2, <1>3, <1>12, <1>13
<1>15. ASSUME a <= z
       PROVE  /\ k \in Nat /\ p + k <= z
              /\ u.what # "short" /\ a < z => a < p + k
              /\ k = 0 => a = z
  <2>1. p <= z /\ n = Min2(m, z - p)
    BY <1>3, <1>6, <1>9, <1>15
  <2>2. n \in Nat /\ p + n <= z /\ (n < z - p => n = m)
    BY <1>2, <1>3, <1>4, <2>1 DEF Min2
  <2>3. n = 0 => p = z
    BY <1>2, <1>3, <1>4, <2>2
  <2>4. w \in Nat /\ w <= n /\ (w = 0 => n = 0) /\ (u.what # "short" => w = n)
    BY <1>1, <2>2 DEF Min2
  <2>5. n <= h
    BY <1>2, <1>3, <1>7, <2>1, <2>2
  <2>6. k = w
    BY <1>8, <1>12, <2>2, <2>4, <2>5 DEF Min2
  <2> HIDE DEF w
  <2>7. k = 0 => a = z
    BY <1>1, <1>2, <1>3, <1>15, <2>3, <2>4, <2>6
  <2>8. ASSUME u.what # "short", a < z PROVE a < p + k
    <3>1. p + BlockSize <= z /\ k = n
      BY <1>3, <2>4, <2>6, <2>8
    <3>2. BlockSize <= n
      BY <1>2, <1>3, <1>4, <2>2, <3>1
    <3>3. QED
      BY <1>1, <1>3, <1>4, <2>2, <3>1, <3>2
  <2>9. QED
    BY <2>2, <2>4, <2>6, <2>7, <2>8, <1>2, <1>3
<1>16. QED
  BY <1>3, <1>10, <1>13, <1>14, <1>15 DEF p, n, k, l, z, a

\* Filling the buffer, in step or not, moves nothing else.
LEMMA RefillShape ==
  ASSUME NEW b \in Blocks, NEW u \in Outcomes
  PROVE  LET o == Refill(b, u) IN
         /\ o.r \in Blocks /\ o.r.dev = b.dev /\ o.r.pos = b.pos /\ o.thrown \in BOOLEAN
<1> DEFINE o == Refill(b, u)
           p == start(b)
           n == asked(b)
           k == gets(b, u)
           g == b.buffer
           s == b.dev
           q == SubSeq(g \o Zeros(n), 1, n)
           d == SubSeq(s, p + 1, p + k)
<1>1. g \in Bytes /\ s \in Bytes
  BY DEF Blocks
<1>2. p \in Nat /\ n \in Int /\ k \in Int /\ (k <= 0 \/ p + k <= Len(s))
  BY RefillNumbers
<1>3. \/ o = Throws(Rebuffered(b, p, g))
      \/ n > 0 /\ o = Throws(Rebuffered(b, p, q))
      \/ o = Done(Rebuffered(b, p, d), <<>>)
  BY RefillSays
<1> HIDE DEF o, p, n, k, g, s
<1>4. d \in Bytes
  BY <1>1, <1>2, PieceFacts
<1>5. n > 0 => q \in Bytes
  <2>1. n > 0 => n \in Nat
    BY <1>2
  <2>2. QED
    BY <1>1, <2>1, ResizedFacts
<1> HIDE DEF q, d
<1>6. \A y \in Bytes : LET v == Rebuffered(b, p, y) IN
        v \in Blocks /\ v.dev = b.dev /\ v.pos = b.pos
  BY <1>2, RebufferedFacts
<1>7. \A y : /\ Throws(y).r = y /\ Throws(y).thrown \in BOOLEAN
             /\ Done(y, <<>>).r = y /\ Done(y, <<>>).thrown \in BOOLEAN
  BY DEF Throws, Done
<1>8. PICK y \in Bytes : o.r = Rebuffered(b, p, y) /\ o.thrown \in BOOLEAN
  BY <1>1, <1>3, <1>4, <1>5, <1>7
<1>9. QED
  BY <1>6, <1>8 DEF o

\* In step, a refill that succeeds covers the position, unless it was short
\* or the position is at the end.
LEMMA RefillFacts ==
  ASSUME NEW b, GoodBlock(b), NEW u \in Outcomes
  PROVE  LET o == Refill(b, u) IN
         ~o.thrown => /\ GoodBlock(o.r)
                      /\ u.what # "short" /\ b.pos < devsize(b) => Covered(o.r)
                      /\ o.r.buffer = <<>> => b.pos = devsize(b)
<1> DEFINE o == Refill(b, u)
           p == start(b)
           k == gets(b, u)
           s == b.dev
           z == devsize(b)
           d == SubSeq(s, p + 1, p + k)
           y == Rebuffered(b, p, d)
<1>1. b \in Blocks /\ b.pos <= z /\ s \in Bytes /\ z \in Nat /\ z <= Len(s) /\ b.pos \in Nat
  BY DevSize DEF GoodBlock, Blocks
<1>2. /\ p \in Nat /\ k \in Nat /\ p + k <= z
      /\ u.what # "short" /\ b.pos < z => p <= b.pos /\ b.pos < p + k
      /\ k = 0 => b.pos = z
  BY <1>1, RefillNumbers
<1>3. ~o.thrown => o = Done(y, <<>>)
  <2>1. \A v : Throws(v).thrown
    BY DEF Throws
  <2> HIDE DEF o
  <2>2. \/ o = Throws(Rebuffered(b, p, b.buffer))
        \/ o = Throws(Rebuffered(b, p, SubSeq(b.buffer \o Zeros(asked(b)), 1, asked(b))))
        \/ o = Done(y, <<>>)
    BY <1>1, RefillSays DEF o
  <2>3. QED
    BY <2>1, <2>2
<1> HIDE DEF p, k
<1>4. d \in Bytes /\ Len(d) = k
  <2>1. p + k <= Len(s)
    BY <1>1, <1>2, LenProperties DEF Bytes
  <2> HIDE DEF s
  <2>2. QED
    BY <1>1, <1>2, <2>1, Part
<1>5. d = SubSeq(s, p + 1, p + Len(d))
  BY <1>4
<1> HIDE DEF d
<1>6. /\ y \in Blocks /\ y.dev = b.dev /\ y.pos = b.pos /\ y.bufferpos = p /\ y.buffer = d
      /\ devsize(y) = z
  BY <1>1, <1>2, <1>4, RebufferedFacts
<1> HIDE DEF y, o
<1>7. GoodBlock(y)
  BY <1>1, <1>2, <1>4, <1>5, <1>6 DEF GoodBlock
<1>8. u.what # "short" /\ b.pos < z => Covered(y)
  BY <1>2, <1>4, <1>6 DEF Covered
<1>9. y.buffer = <<>> => b.pos = z
  <2>1. Len(<<>>) = 0
    BY EmptySeq
  <2>2. QED
    BY <1>2, <1>4, <1>6, <2>1
<1>10. ~o.thrown => o.r = y
  BY <1>3 DEF Done
<1>11. QED
  BY <1>7, <1>8, <1>9, <1>10 DEF o, z

\* The rounds of a read of n bytes from the reader x.
BlockStates(x, n) ==
  {s \in [r : Blocks, out : Bytes, thrown : BOOLEAN, on : BOOLEAN] :
     s.r.dev = x.dev /\ Len(s.out) <= n}
\* What they have got so far.
BlockSoFar(x, n, s) ==
  /\ s.r.pos = x.pos + Len(s.out) /\ s.r.pos <= devsize(x)
  /\ s.out = SubSeq(Content(x), x.pos + 1, x.pos + Len(s.out))
  /\ IF s.thrown THEN ~s.on ELSE GoodBlock(s.r)
  /\ ~s.on /\ ~s.thrown => BlockEnded(n, s)

\* Two readers of one device show the same bytes.
LEMMA SameDevice ==
  ASSUME NEW x \in Blocks, NEW y \in Blocks, y.dev = x.dev
  PROVE  Content(y) = Content(x) /\ devsize(y) = devsize(x)
<1>1. devsize(y) = devsize(x)
  BY DEF devsize
<1>2. QED
  BY <1>1, BlockDispatch

\* Moving does not change the buffer.
LEMMA BlockMoved ==
  ASSUME NEW b \in Blocks, NEW k \in Nat
  PROVE  LET y == [b EXCEPT !.pos = @ + k] IN
         /\ y \in Blocks /\ y.dev = b.dev /\ y.pos = b.pos + k /\ devsize(y) = devsize(b)
         /\ GoodBlock(b) /\ b.pos + k <= devsize(b) => GoodBlock(y)
<1> DEFINE j == b.pos + k
           y == [b EXCEPT !.pos = @ + k]
<1>1. j \in Nat
  BY DEF Blocks
<1>2. y = [b EXCEPT !.pos = j]
  OBVIOUS
<1>j. j = b.pos + k
  OBVIOUS
<1> HIDE DEF j, y
<1>3. /\ y \in Blocks
      /\ y.dev = b.dev /\ y.pos = j /\ y.bufferpos = b.bufferpos /\ y.buffer = b.buffer
  BY <1>1, <1>2 DEF Blocks
<1>4. devsize(y) = devsize(b)
  BY <1>3 DEF devsize
<1>5. GoodBlock(b) /\ j <= devsize(b) => GoodBlock(y)
  BY <1>1, <1>3, <1>4 DEF GoodBlock
<1>6. QED
  BY <1>3, <1>4, <1>5, <1>j DEF y

\* The reader after a round has taken k bytes, with the buffer filled again if
\* that was not enough.
Took(s, k) == [s.r EXCEPT !.pos = @ + k]
Filled(s, want, k, u) == IF k = want THEN Done(Took(s, k), <<>>) ELSE Refill(Took(s, k), u)
Piece(s, k) == SubSeq(s.r.buffer, s.r.pos - s.r.bufferpos + 1, s.r.pos - s.r.bufferpos + k)

\* What a round is made of.
LEMMA RoundSays ==
  ASSUME NEW s, NEW n, NEW u, s.on
  PROVE  LET want == n - Len(s.out)
             k == Buffered(s.r, want)
             o == Filled(s, want, k, u)
         IN BlockRound(s, n, u) =
              [r |-> o.r, out |-> s.out \o Piece(s, k), thrown |-> o.thrown,
               on |-> k # want /\ ~o.thrown /\ o.r.buffer # <<>>]
BY DEF BlockRound, Filled, Took, Piece

\* What a round takes, leaves and returns.
RoundMakes(x, n, s, u, p) ==
  LET want == n - Len(s.out)
      k == Buffered(s.r, want)
      o == Filled(s, want, k, u)
  IN /\ p \in BlockStates(x, n)
     /\ want \in Nat /\ Len(s.out) \in Nat /\ want + Len(s.out) = n
     /\ k \in Nat /\ k <= want /\ Piece(s, k) \in Bytes /\ Len(Piece(s, k)) = k
     /\ s.r \in Blocks /\ s.out \in Bytes /\ s.r.dev = x.dev
     /\ p.r = o.r /\ p.out = s.out \o Piece(s, k) /\ p.thrown = o.thrown
     /\ p.on = (k # want /\ ~o.thrown /\ o.r.buffer # <<>>)
     /\ Len(p.out) = Len(s.out) + k
     /\ p.r.pos = s.r.pos + k

\* A round in step or not: the same device, no more than was asked for.
LEMMA RoundShape ==
  ASSUME NEW x \in Blocks, NEW n \in Nat, NEW s \in BlockStates(x, n), s.on, NEW u \in Outcomes
  PROVE  RoundMakes(x, n, s, u, BlockRound(s, n, u))
<1> DEFINE want == n - Len(s.out)
           k == Buffered(s.r, want)
           o == Filled(s, want, k, u)
           p == BlockRound(s, n, u)
           b == s.r
           c == s.out
           t == Len(c)
           d == Piece(s, k)
           e == c \o d
           v == Took(s, k)
           on == (k # want /\ ~o.thrown /\ o.r.buffer # <<>>)
<1>1. b \in Blocks /\ c \in Bytes /\ b.dev = x.dev /\ t <= n
  BY DEF BlockStates
<1>2. t \in Nat /\ want \in Nat /\ want + t = n
  <2>1. t \in Nat
    BY <1>1, LenProperties DEF Bytes
  <2> HIDE DEF t
  <2>2. n - t \in Nat /\ (n - t) + t = n
    BY <1>1, <2>1
  <2>3. QED
    BY <2>1, <2>2 DEF t
<1>3. p = [r |-> o.r, out |-> e, thrown |-> o.thrown, on |-> on]
  BY RoundSays
<1>w. want = n - t
  OBVIOUS
<1> HIDE DEF want, t
<1>4. /\ k \in Nat /\ k <= want /\ Len(d) = k /\ d \in Bytes
  BY <1>1, <1>2, BlockTake DEF Piece
<1>5. v \in Blocks /\ v.dev = b.dev /\ v.pos = b.pos + k
  BY <1>1, <1>4, BlockMoved DEF Took
<1>6. o.r \in Blocks /\ o.r.dev = b.dev /\ o.r.pos = b.pos + k /\ o.thrown \in BOOLEAN
  <2> HIDE DEF v, k
  <2>1. CASE k = want
    <3>1. o = Done(v, <<>>)
      BY <2>1 DEF Filled, v
    <3>2. Done(v, <<>>).r = v /\ Done(v, <<>>).thrown \in BOOLEAN
      BY DEF Done
    <3>3. QED
      BY <1>5, <3>1, <3>2
  <2>2. CASE k # want
    <3>1. o = Refill(v, u)
      BY <2>2 DEF Filled, v
    <3>2. Refill(v, u).r \in Blocks /\ Refill(v, u).r.dev = v.dev /\ Refill(v, u).r.pos = v.pos
          /\ Refill(v, u).thrown \in BOOLEAN
      BY <1>5, RefillShape
    <3>3. QED
      BY <1>5, <3>1, <3>2
  <2>3. QED
    BY <2>1, <2>2
<1> HIDE DEF o, d, k, v
<1>7. e \in Bytes /\ Len(e) = t + k
  <2> HIDE DEF c
  <2>1. e \in Bytes /\ Len(e) = Len(c) + Len(d)
    BY <1>1, <1>4, Join
  <2>2. QED
    BY <1>4, <2>1 DEF t
<1>8. t + k <= n
  BY <1>2, <1>4
<1>9. on \in BOOLEAN
  OBVIOUS
<1> HIDE DEF on, e, p
<1>10. /\ p.r = o.r /\ p.out = e /\ p.thrown = o.thrown /\ p.on = on
       /\ p \in [r : Blocks, out : Bytes, thrown : BOOLEAN, on : BOOLEAN]
  BY <1>3, <1>6, <1>7, <1>9
<1>11. p \in BlockStates(x, n)
  BY <1>1, <1>6, <1>7, <1>8, <1>10 DEF BlockStates
<1>12. QED
  BY <1>1, <1>2, <1>4, <1>6, <1>7, <1>10, <1>11 DEF RoundMakes, p, o, e, on, d, k, want, t

\* A round after the last one changes nothing.
LEMMA RoundOver ==
  ASSUME NEW s, NEW n, NEW u, ~s.on
  PROVE  BlockRound(s, n, u) = s
BY DEF BlockRound

\* How a round brings the read nearer to its end.
RoundGives(x, n, s, u, p) ==
  /\ BlockSoFar(x, n, p)
  /\ BlockEnded(n, s) => p.thrown \/ BlockEnded(n, p)
  /\ Len(s.out) <= Len(p.out)
  /\ u.what = "full" => p.thrown \/ BlockEnded(n, p) \/ Covered(p.r)
  /\ Covered(s.r) /\ ~BlockEnded(n, s) => Len(s.out) < Len(p.out)

\* A round takes what is in the buffer; if that is not enough, there is more
\* in the buffer afterwards, or the device ends, or the read was short.
LEMMA OneBlockRound ==
  ASSUME NEW x, GoodBlock(x), NEW n \in Nat, NEW s \in BlockStates(x, n), BlockSoFar(x, n, s),
         NEW u \in Outcomes, s.on
  PROVE  RoundGives(x, n, s, u, BlockRound(s, n, u))
<1> DEFINE b == s.r
           t == Len(s.out)
           want == n - t
           k == Buffered(b, want)
           d == Piece(s, k)
           v == Took(s, k)
           o == Filled(s, want, k, u)
           p == BlockRound(s, n, u)
           z == devsize(x)
           c == Content(x)
           a == x.pos
<1>1. x \in Blocks /\ a \in Nat /\ c \in Bytes /\ Len(c) = z /\ z \in Nat
  <2>1. x \in Blocks /\ a \in Nat
    BY DEF GoodBlock, Blocks
  <2>2. c \in Bytes /\ Len(c) = z
    BY <2>1, BlockDispatch
  <2>3. z \in Nat
    BY <2>1, DevSize DEF Blocks
  <2>4. QED
    BY <2>1, <2>2, <2>3
<1>2. /\ p \in BlockStates(x, n)
      /\ want \in Nat /\ t \in Nat /\ want + t = n
      /\ k \in Nat /\ k <= want /\ d \in Bytes /\ Len(d) = k
      /\ b \in Blocks /\ s.out \in Bytes /\ b.dev = x.dev
      /\ p.r = o.r /\ p.out = s.out \o d /\ p.thrown = o.thrown
      /\ p.on = (k # want /\ ~o.thrown /\ o.r.buffer # <<>>)
      /\ Len(p.out) = t + k
      /\ p.r.pos = b.pos + k
  <2>1. RoundMakes(x, n, s, u, p)
    BY <1>1, RoundShape
  <2>2. QED
    BY <2>1 DEF RoundMakes
<1>3. /\ b.pos = a + t /\ b.pos <= z /\ GoodBlock(b)
      /\ s.out = SubSeq(c, a + 1, a + t)
  BY DEF BlockSoFar
<1>4. Content(b) = c /\ devsize(b) = z
  BY <1>1, <1>2, SameDevice
<1>5. /\ b.pos + k <= z
      /\ Covered(b) /\ want > 0 => k > 0
      /\ d = SubSeq(c, b.pos + 1, b.pos + k)
  <2>1. want \in Nat
    BY <1>2
  <2> HIDE DEF want, b, c, z
  <2>2. /\ b.pos + k <= devsize(b)
        /\ Covered(b) /\ want > 0 => k > 0
        /\ Piece(s, k) = SubSeq(Content(b), b.pos + 1, b.pos + k)
    BY <1>2, <1>3, <2>1, BlockTake DEF Piece, b
  <2>3. QED
    BY <1>4, <2>2
<1>6. v \in Blocks /\ v.pos = b.pos + k /\ devsize(v) = z /\ GoodBlock(v)
  <2> HIDE DEF k, b, z
  <2>1. QED
    BY <1>2, <1>3, <1>4, <1>5, BlockMoved DEF Took, b
<1> HIDE DEF v
<1>7. /\ k = want => ~o.thrown /\ GoodBlock(o.r)
      /\ k # want /\ ~o.thrown =>
           /\ GoodBlock(o.r)
           /\ u.what # "short" /\ v.pos < z => Covered(o.r)
           /\ o.r.buffer = <<>> => v.pos = z
  <2> HIDE DEF k, want
  <2>1. CASE k = want
    <3>1. o = Done(v, <<>>)
      BY <2>1 DEF Filled, v
    <3>2. Done(v, <<>>).r = v /\ ~Done(v, <<>>).thrown
      BY DEF Done
    <3>3. QED
      BY <1>6, <2>1, <3>1, <3>2
  <2>2. CASE k # want
    <3>1. o = Refill(v, u)
      BY <2>2 DEF Filled, v
    <3>2. QED
      BY <1>6, <2>2, <3>1, RefillFacts
  <2>3. QED
    BY <2>1, <2>2
<1>8. p.r.dev = x.dev /\ p.r \in Blocks
  BY <1>2 DEF BlockStates
<1>9. devsize(p.r) = z
  BY <1>1, <1>8, SameDevice
<1>w. want = n - t
  OBVIOUS
<1> HIDE DEF want, k, d, o, p
<1>10. t + k \in Nat /\ p.r.pos = a + (t + k) /\ a + (t + k) <= z /\ v.pos = a + (t + k)
  <2> HIDE DEF t, a, z, b
  <2>1. QED
    BY <1>1, <1>2, <1>3, <1>5, <1>6
<1>11. p.out = SubSeq(c, a + 1, a + (t + k))
  <2>1. s.out = SubSeq(c, a + 1, a + t) /\ d = SubSeq(c, a + t + 1, a + t + k)
    BY <1>3, <1>5
  <2>2. t \in Nat /\ k \in Nat /\ a + t + k <= Len(c)
    <3> HIDE DEF t, a, c, z
    <3>1. QED
      BY <1>1, <1>2, <1>10
  <2>3. p.out = SubSeq(c, a + 1, a + t) \o SubSeq(c, a + t + 1, a + t + k)
    BY <1>2, <2>1
  <2> HIDE DEF t, a, c
  <2>4. SubSeq(c, a + 1, a + t) \o SubSeq(c, a + t + 1, a + t + k) = SubSeq(c, a + 1, a + (t + k))
    BY <1>1, <2>2, PartAfterPart
  <2>5. QED
    BY <2>3, <2>4
<1>12. p.thrown \in BOOLEAN
  BY <1>2 DEF BlockStates
<1>13. k = want => Len(p.out) = n
  <2> HIDE DEF t
  <2>1. QED
    BY <1>2
<1>14. p.thrown => ~p.on
  BY <1>2
<1>15. ~p.thrown => GoodBlock(p.r)
  BY <1>2, <1>7
<1>16. ~p.on /\ ~p.thrown => BlockEnded(n, p)
  <2>1. ~p.on /\ ~p.thrown => k = want \/ o.r.buffer = <<>>
    BY <1>2
  <2>2. ~p.thrown /\ k # want /\ o.r.buffer = <<>> => p.r.pos = z
    BY <1>2, <1>7, <1>10
  <2>3. QED
    BY <1>9, <1>13, <2>1, <2>2 DEF BlockEnded
<1>17. BlockSoFar(x, n, p)
  <2>1. Len(p.out) = t + k
    BY <1>2
  <2> HIDE DEF t
  <2>2. p.r.pos = x.pos + Len(p.out) /\ p.r.pos <= devsize(x)
    BY <1>10, <2>1 DEF a, z
  <2>3. p.out = SubSeq(Content(x), x.pos + 1, x.pos + Len(p.out))
    BY <1>11, <2>1 DEF a, c
  <2>4. QED
    BY <1>12, <1>14, <1>15, <1>16, <2>2, <2>3 DEF BlockSoFar
<1>18. BlockEnded(n, s) => BlockEnded(n, p)
  <2>1. CASE t = n
    <3>1. k = 0
      BY <1>2, <2>1
    <3>2. QED
      BY <1>2, <2>1, <3>1 DEF BlockEnded
  <2>2. CASE b.pos = z
    <3>1. p.r.pos = z
      <4> HIDE DEF b, z
      <4>1. QED
        BY <1>1, <1>2, <1>5, <2>2
    <3>2. QED
      BY <1>9, <3>1 DEF BlockEnded
  <2>3. QED
    BY <1>4, <2>1, <2>2 DEF BlockEnded
<1>19. t <= Len(p.out) /\ (k > 0 => t < Len(p.out))
  <2> HIDE DEF t
  <2>1. QED
    BY <1>2
<1>20. u.what = "full" => p.thrown \/ BlockEnded(n, p) \/ Covered(p.r)
  <2> SUFFICES ASSUME u.what = "full", ~p.thrown, ~BlockEnded(n, p) PROVE Covered(p.r)
    BY <1>12
  <2>1. k # want
    BY <1>13 DEF BlockEnded
  <2>2. v.pos # z
    BY <1>9, <1>10 DEF BlockEnded
  <2>3. v.pos < z
    <3> HIDE DEF a, z, t
    <3>1. QED
      BY <1>1, <1>10, <2>2
  <2>4. QED
    BY <1>2, <1>7, <2>1, <2>3
<1>21. Covered(b) /\ ~BlockEnded(n, s) => k > 0
  <2> SUFFICES ASSUME Covered(b), ~BlockEnded(n, s) PROVE k > 0
    OBVIOUS
  <2>1. want > 0
    <3>1. t # n
      BY DEF BlockEnded
    <3> HIDE DEF t
    <3>2. QED
      BY <1>2, <3>1
  <2>2. QED
    BY <1>5, <2>1
<1>22. QED
  BY <1>17, <1>18, <1>19, <1>20, <1>21 DEF RoundGives, p, b, t

\* The rounds of a read.
BlockRounds(x, n, io, f) ==
  LET N == n + 1 + Len(io) IN
  /\ \A k \in 0..N : f[k] \in BlockStates(x, n)
  /\ f[0] = [r |-> x, out |-> <<>>, thrown |-> FALSE, on |-> TRUE]
  /\ \A k \in 1..N : f[k] = BlockRound(f[k - 1], n, Outcome(io, k))
  /\ read(x, n, io) = IF f[N].thrown THEN Throws(f[N].r) ELSE Done(f[N].r, f[N].out)

\* A round keeps the device.
LEMMA AnyBlockRound ==
  ASSUME NEW x \in Blocks, NEW n \in Nat, NEW s \in BlockStates(x, n), NEW u \in Outcomes
  PROVE  BlockRound(s, n, u) \in BlockStates(x, n)
<1>1. CASE s.on
  BY <1>1, RoundShape DEF RoundMakes
<1>2. CASE ~s.on
  BY <1>2, RoundOver
<1>3. QED
  BY <1>1, <1>2

\* A read is made of such rounds.
LEMMA BlockLoop ==
  ASSUME NEW x \in Blocks, NEW n \in Nat, NEW io \in Seq(Outcomes)
  PROVE  \E f : BlockRounds(x, n, io, f)
<1> DEFINE S == BlockStates(x, n)
           a == [r |-> x, out |-> <<>>, thrown |-> FALSE, on |-> TRUE]
           N == n + 1 + Len(io)
           u == [k \in Nat |-> IF k = 0 THEN Outcome(io, 1) ELSE Outcome(io, k)]
           step == [k \in Nat |-> [s \in S |-> BlockRound(s, n, u[k])]]
           F(f) == f = [k \in 0..N |-> IF k = 0 THEN a ELSE BlockRound(f[k - 1], n, Outcome(io, k))]
           f == CHOOSE f : F(f)
<1>1. a \in S
  <2>1. <<>> \in Bytes /\ Len(<<>>) = 0
    BY EmptySeq DEF Bytes
  <2>2. QED
    BY <2>1 DEF BlockStates
<1>2. N \in Nat
  <2>1. Len(io) \in Nat
    BY LenProperties
  <2>2. QED
    BY <2>1
<1> HIDE DEF S, a, N
<1>3. \A k \in Nat : u[k] \in Outcomes /\ (k # 0 => u[k] = Outcome(io, k))
  <2> SUFFICES ASSUME NEW k \in Nat
               PROVE  u[k] \in Outcomes /\ (k # 0 => u[k] = Outcome(io, k))
    OBVIOUS
  <2>1. Outcome(io, 1) \in Outcomes
    BY OutcomeType
  <2>2. k # 0 => Outcome(io, k) \in Outcomes
    BY OutcomeType
  <2>3. QED
    BY <2>1, <2>2
<1> HIDE DEF u
<1>4. step \in [Nat -> [S -> S]]
  <2>1. \A k \in Nat : \A s \in S : BlockRound(s, n, u[k]) \in S
    BY <1>3, AnyBlockRound DEF S
  <2>2. \A k \in Nat : [s \in S |-> BlockRound(s, n, u[k])] \in [S -> S]
    BY <2>1
  <2>3. QED
    BY <2>2
<1>5. \A k \in Nat : \A s \in S : step[k][s] = BlockRound(s, n, u[k])
  OBVIOUS
<1> HIDE DEF step
<1>6. \E g : F(g)
  <2>1. \E g : Steps(g, S, step, a, N)
    BY <1>1, <1>2, <1>4, StepsExist
  <2>2. PICK g \in [0..N -> S] : g[0] = a /\ \A k \in 1..N : g[k] = step[k][g[k - 1]]
    BY <2>1 DEF Steps
  <2>3. \A k \in 0..N : g[k] = IF k = 0 THEN a ELSE BlockRound(g[k - 1], n, Outcome(io, k))
    <3> SUFFICES ASSUME NEW k \in 0..N
                 PROVE  g[k] = IF k = 0 THEN a ELSE BlockRound(g[k - 1], n, Outcome(io, k))
      OBVIOUS
    <3>1. CASE k = 0
      BY <2>2, <3>1
    <3>2. CASE k # 0
      <4>1. k \in 1..N /\ k - 1 \in 0..N /\ k \in Nat
        BY <1>2, <3>2
      <4>2. g[k - 1] \in S /\ g[k] = step[k][g[k - 1]]
        BY <2>2, <4>1
      <4>3. g[k] = BlockRound(g[k - 1], n, u[k])
        BY <1>5, <4>1, <4>2
      <4>4. QED
        BY <1>3, <3>2, <4>1, <4>3
    <3>3. QED
      BY <3>1, <3>2
  <2>4. g = [k \in 0..N |-> IF k = 0 THEN a ELSE BlockRound(g[k - 1], n, Outcome(io, k))]
    BY <2>2, <2>3
  <2>5. QED
    BY <2>4
<1>7. F(f)
  BY <1>6
<1>8. read(x, n, io) = IF f[N].thrown THEN Throws(f[N].r) ELSE Done(f[N].r, f[N].out)
  <2>1. blockread(x, n, io) = IF f[N].thrown THEN Throws(f[N].r) ELSE Done(f[N].r, f[N].out)
    BY DEF blockread, a, N
  <2>2. QED
    BY <2>1, BlockDispatch
<1> HIDE DEF f
<1>9. f[0] = a /\ \A k \in 1..N : f[k] = BlockRound(f[k - 1], n, Outcome(io, k))
  <2>1. 0 \in 0..N /\ 1..N \subseteq 0..N /\ 0 \notin 1..N
    BY <1>2
  <2>2. QED
    BY <1>7, <2>1
<1> DEFINE T == {k \in Nat : k <= N => f[k] \in S}
<1>10. 0 \in T
  BY <1>1, <1>9
<1>11. ASSUME NEW k \in T PROVE k + 1 \in T
  <2>1. k \in Nat
    OBVIOUS
  <2> SUFFICES ASSUME k + 1 <= N PROVE f[k + 1] \in S
    BY <2>1
  <2>2. f[k] \in S /\ k + 1 \in 1..N /\ k + 1 \in Nat \ {0}
    BY <1>2, <2>1
  <2>3. f[k + 1] = BlockRound(f[k], n, Outcome(io, k + 1))
    <3> DEFINE j == k + 1
    <3>1. j \in 1..N /\ j - 1 = k
      BY <2>1, <2>2
    <3> HIDE DEF j
    <3>2. f[j] = BlockRound(f[k], n, Outcome(io, j))
      BY <1>9, <3>1
    <3>3. QED
      BY <3>2 DEF j
  <2>4. Outcome(io, k + 1) \in Outcomes
    BY <2>2, OutcomeType
  <2> HIDE DEF T
  <2>5. QED
    BY <2>2, <2>3, <2>4, AnyBlockRound DEF S
<1>12. T = Nat
  <2>1. T \subseteq Nat
    OBVIOUS
  <2> HIDE DEF T
  <2>2. QED
    BY <1>10, <1>11, <2>1, SetInduction
<1>13. \A k \in 0..N : f[k] \in S
  BY <1>2, <1>12
<1>14. BlockRounds(x, n, io, f)
  BY <1>8, <1>9, <1>13 DEF BlockRounds, N, S, a
<1>15. QED
  BY <1>14

\* The loop of a reader that is in step ends with as many bytes as were asked
\* for, or at the end, or with an error.
LEMMA BlockLoopEnds ==
  ASSUME NEW x, GoodBlock(x), NEW n \in Nat, NEW io \in Seq(Outcomes), NEW f,
         BlockRounds(x, n, io, f)
  PROVE  LET s == f[n + 1 + Len(io)] IN
         s \in BlockStates(x, n) /\ BlockSoFar(x, n, s) /\ (s.thrown \/ BlockEnded(n, s))
<1> DEFINE L == Len(io)
           N == n + 1 + L
           c == Content(x)
<1>1. L \in Nat
  BY LenProperties
<1>2. /\ \A k \in 0..N : f[k] \in BlockStates(x, n)
      /\ f[0] = [r |-> x, out |-> <<>>, thrown |-> FALSE, on |-> TRUE]
      /\ \A k \in 1..N : f[k] = BlockRound(f[k - 1], n, Outcome(io, k))
  BY DEF BlockRounds
<1>l. L = Len(io)
  OBVIOUS
<1> HIDE DEF L
<1>n. N \in Nat /\ N = n + 1 + L
  BY <1>1
<1> HIDE DEF N
<1>3. BlockSoFar(x, n, f[0]) /\ Len(f[0].out) = 0
  <2> DEFINE s == f[0]
  <2>1. s.r = x /\ s.out = <<>> /\ ~s.thrown /\ s.on
    BY <1>2
  <2>2. Len(<<>>) = 0 /\ x.pos \in Nat /\ x.pos <= devsize(x)
    BY EmptySeq DEF GoodBlock, Blocks
  <2>3. SubSeq(c, x.pos + 1, x.pos + 0) = <<>>
    BY <2>2, SubSeqEmpty
  <2> HIDE DEF s, c
  <2>4. BlockSoFar(x, n, s)
    BY <2>1, <2>2, <2>3 DEF BlockSoFar, c
  <2>5. QED
    BY <2>1, <2>2, <2>4 DEF s
<1> DEFINE P(k) == /\ BlockSoFar(x, n, f[k])
                   /\ \/ f[k].thrown
                      \/ BlockEnded(n, f[k])
                      \/ (Len(f[k].out) >= k - 1 - L /\ (k > L => Covered(f[k].r)))
           T == {k \in Nat : k <= N => P(k)}
<1>4. 0 \in T
  <2>1. P(0)
    BY <1>1, <1>3
  <2>2. QED
    BY <2>1
<1>5. ASSUME NEW k \in T PROVE k + 1 \in T
  <2>1. k \in Nat
    OBVIOUS
  <2> SUFFICES ASSUME k + 1 <= N PROVE P(k + 1)
    BY <2>1
  <2>2. P(k) /\ k + 1 \in 1..N /\ k \in 0..N /\ k + 1 \in 0..N
    BY <1>n, <2>1
  <2> DEFINE s == f[k]
             j == k + 1
             u == Outcome(io, j)
             p == f[j]
  <2>3. j \in Nat \ {0} /\ j - 1 = k /\ j \in 1..N
    BY <2>1, <2>2
  <2> HIDE DEF T
  <2>4. s \in BlockStates(x, n) /\ p \in BlockStates(x, n)
    BY <1>2, <2>2
  <2>5. u \in Outcomes /\ (j > L => u.what = "full")
    <3>1. u \in Outcomes
      BY <2>3, OutcomeType
    <3>2. j > L => u = [what |-> "full", got |-> 0]
      BY <1>1, <1>l, <2>3 DEF Outcome
    <3> HIDE DEF u
    <3>3. QED
      BY <3>1, <3>2
  <2>6. p = BlockRound(s, n, u)
    <3> HIDE DEF j, u
    <3>1. f[j] = BlockRound(f[j - 1], n, Outcome(io, j))
      BY <1>2, <2>3
    <3>2. QED
      BY <2>3, <3>1 DEF u
  <2>j. j = k + 1
    OBVIOUS
  <2>7. /\ BlockSoFar(x, n, s)
        /\ s.thrown \/ BlockEnded(n, s) \/ (Len(s.out) >= k - 1 - L /\ (k > L => Covered(s.r)))
    BY <2>2
  <2> HIDE DEF s, j, u, p
  <2>8. CASE ~s.on
    <3>1. p = s
      BY <2>6, <2>8, RoundOver
    <3>2. s.thrown \/ BlockEnded(n, s)
      BY <2>7, <2>8 DEF BlockSoFar
    <3>3. QED
      BY <2>7, <3>1, <3>2 DEF p, j
  <2>9. CASE s.on
    <3>1. /\ BlockSoFar(x, n, p)
          /\ BlockEnded(n, s) => p.thrown \/ BlockEnded(n, p)
          /\ Len(s.out) <= Len(p.out)
          /\ u.what = "full" => p.thrown \/ BlockEnded(n, p) \/ Covered(p.r)
          /\ Covered(s.r) /\ ~BlockEnded(n, s) => Len(s.out) < Len(p.out)
      <4>1. RoundGives(x, n, s, u, BlockRound(s, n, u))
        BY <2>4, <2>5, <2>7, <2>9, OneBlockRound
      <4>2. QED
        BY <2>6, <4>1 DEF RoundGives
    <3>2. ~s.thrown
      BY <2>7, <2>9 DEF BlockSoFar
    <3>3. Len(s.out) \in Nat /\ Len(p.out) \in Nat
      BY <2>4, LenProperties DEF BlockStates, Bytes
    <3>4. ASSUME ~p.thrown, ~BlockEnded(n, p)
          PROVE  Len(p.out) >= j - 1 - L /\ (j > L => Covered(p.r))
      <4>1. ~BlockEnded(n, s)
        BY <3>1, <3>4
      <4>2. Len(s.out) >= k - 1 - L /\ (k > L => Covered(s.r))
        BY <2>7, <3>2, <4>1
      <4>3. j > L => Covered(p.r)
        BY <2>5, <3>1, <3>4
      <4>4. CASE k > L
        <5>1. Len(s.out) < Len(p.out)
          BY <3>1, <4>1, <4>2, <4>4
        <5>2. QED
          BY <1>1, <2>1, <2>j, <3>3, <4>2, <4>3, <5>1
      <4>5. CASE ~(k > L)
        BY <1>1, <2>1, <2>j, <3>3, <4>3, <4>5
      <4>6. QED
        BY <4>4, <4>5
    <3>5. P(k + 1)
      BY <3>1, <3>4 DEF p, j
    <3>6. QED
      BY <3>5
  <2>10. QED
    BY <2>8, <2>9
<1>6. T = Nat
  <2>1. T \subseteq Nat
    OBVIOUS
  <2> HIDE DEF T
  <2>2. QED
    BY <1>4, <1>5, <2>1, SetInduction
<1>7. N \in T
  BY <1>6, <1>n
<1>8. P(N)
  BY <1>7, <1>n
<1> DEFINE s == f[N]
           t == Len(s.out)
<1>9. s \in BlockStates(x, n)
  <2>1. N \in 0..N
    BY <1>n
  <2>2. QED
    BY <1>2, <2>1
<1>10. BlockSoFar(x, n, s) /\ (s.thrown \/ BlockEnded(n, s) \/ t >= N - 1 - L)
  BY <1>8
<1> HIDE DEF s
<1>11. t \in Nat /\ t <= n
  BY <1>9, LenProperties DEF BlockStates, Bytes
<1>12. N - 1 - L = n
  BY <1>1, <1>n
<1>13. t >= n => t = n
  <2> HIDE DEF t
  <2>1. QED
    BY <1>11
<1>14. s.thrown \/ BlockEnded(n, s)
  BY <1>10, <1>12, <1>13 DEF BlockEnded
<1>15. QED
  BY <1>9, <1>10, <1>14, <1>l DEF s, N

\* A read leaves the device alone, whatever the buffer shows; in step it is
\* that of a stream, or breaks off.
LEMMA BlockRead ==
  ASSUME NEW x \in Blocks, NEW n \in Nat, NEW io \in Seq(Outcomes)
  PROVE  LET o == read(x, n, io) IN
         /\ o.r \in Blocks /\ o.r.dev = x.dev /\ o.out \in Bytes /\ o.thrown \in BOOLEAN
         /\ GoodBlock(x) => IF o.thrown THEN Breaks(x, o) ELSE GoodBlock(o.r) /\ Reads(x, n, o)
<1> DEFINE N == n + 1 + Len(io)
           o == read(x, n, io)
           c == Content(x)
<1>1. PICK f : BlockRounds(x, n, io, f)
  BY BlockLoop
<1> DEFINE s == f[N]
           t == Len(s.out)
<1>2. N \in 0..N
  <2>1. Len(io) \in Nat
    BY LenProperties
  <2>2. QED
    BY <2>1
<1>3. s \in BlockStates(x, n)
  BY <1>1, <1>2 DEF BlockRounds
<1>4. o = IF s.thrown THEN Throws(s.r) ELSE Done(s.r, s.out)
  BY <1>1 DEF BlockRounds
<1>5. GoodBlock(x) => BlockSoFar(x, n, s) /\ (s.thrown \/ BlockEnded(n, s))
  BY <1>1, BlockLoopEnds
<1> HIDE DEF s, o
<1>6. /\ s.r \in Blocks /\ s.r.dev = x.dev /\ s.out \in Bytes /\ s.thrown \in BOOLEAN
      /\ t \in Nat /\ t <= n
  BY <1>3, LenProperties DEF BlockStates, Bytes
<1>7. <<>> \in Bytes
  BY EmptySeq DEF Bytes
<1>8. /\ o.r = s.r /\ o.thrown = s.thrown /\ o.out \in Bytes
      /\ ~s.thrown => o.out = s.out
  BY <1>4, <1>6, <1>7 DEF Throws, Done
<1>9. /\ Content(s.r) = c /\ devsize(s.r) = devsize(x) /\ getpos(s.r) = s.r.pos
      /\ getpos(x) = x.pos /\ Len(c) = devsize(x) /\ devsize(x) \in Nat /\ x.pos \in Nat
      /\ s.r.kind = x.kind
  <2>1. Content(s.r) = c /\ devsize(s.r) = devsize(x)
    BY <1>6, SameDevice
  <2>2. getpos(s.r) = s.r.pos /\ getpos(x) = x.pos /\ Len(c) = devsize(x)
    BY <1>6, BlockDispatch
  <2>3. devsize(x) \in Nat /\ x.pos \in Nat
    BY DevSize DEF Blocks
  <2>4. s.r.kind = x.kind
    BY <1>6 DEF Blocks
  <2>5. QED
    BY <2>1, <2>2, <2>3, <2>4
<1>10. ASSUME GoodBlock(x)
       PROVE  IF o.thrown THEN Breaks(x, o) ELSE GoodBlock(o.r) /\ Reads(x, n, o)
  <2>1. BlockSoFar(x, n, s) /\ (s.thrown \/ BlockEnded(n, s))
    BY <1>5, <1>10
  <2>2. /\ s.r.pos = x.pos + t /\ s.r.pos <= devsize(x)
        /\ s.out = SubSeq(c, x.pos + 1, x.pos + t)
        /\ ~s.thrown => GoodBlock(s.r)
    BY <2>1 DEF BlockSoFar
  <2>3. CASE s.thrown
    <3>1. getpos(o.r) \in getpos(x)..Len(c)
      <4> HIDE DEF t, c
      <4>1. x.pos + t \in x.pos..devsize(x)
        BY <1>6, <1>9, <2>2
      <4>2. QED
        BY <1>8, <1>9, <2>2, <4>1
    <3>2. Breaks(x, o)
      BY <1>8, <1>9, <2>3, <3>1 DEF Breaks, c
    <3>3. QED
      BY <1>8, <2>3, <3>2
  <2>4. CASE ~s.thrown
    <3>1. t = Min2(n, Left(x))
      <4>1. t = n \/ x.pos + t = devsize(x)
        BY <1>9, <2>1, <2>2, <2>4 DEF BlockEnded
      <4>2. Left(x) = devsize(x) - x.pos
        BY <1>9 DEF Left
      <4>3. x.pos + t <= devsize(x)
        BY <2>2
      <4>4. t \in Nat /\ t <= n /\ devsize(x) \in Nat /\ x.pos \in Nat
        BY <1>6, <1>9
      <4> HIDE DEF t
      <4>5. QED
        BY <4>1, <4>2, <4>3, <4>4 DEF Min2
    <3>2. Reads(x, n, o)
      <4>1. SameStream(x, o.r, x.pos + t)
        BY <1>8, <1>9, <2>2 DEF SameStream
      <4>2. getpos(x) = x.pos /\ ~o.thrown /\ o.out = SubSeq(c, x.pos + 1, x.pos + t)
        BY <1>8, <1>9, <2>2, <2>4
      <4> HIDE DEF t, c
      <4>3. QED
        BY <3>1, <4>1, <4>2 DEF Reads, c
    <3>3. QED
      BY <1>8, <2>2, <2>4, <3>2
  <2>5. QED
    BY <1>6, <2>3, <2>4
<1>11. QED
  BY <1>6, <1>8, <1>10 DEF o

\* Positioning leaves the buffer as it is: the next read looks where it is.
LEMMA BlockSetPos ==
  ASSUME NEW x \in Blocks, NEW off \in 0..Len(Content(x))
  PROVE  LET o == setpos(x, off) IN
         /\ o.r \in Blocks /\ SetsPos(x, off, o) /\ ~o.thrown
         /\ GoodBlock(x) => GoodBlock(o.r)
<1> DEFINE y == [x EXCEPT !.pos = off]
           o == setpos(x, off)
<1>1. o = Done(y, <<>>) /\ Len(Content(x)) = devsize(x)
  BY BlockDispatch
<1>2. devsize(x) \in Nat /\ off \in Nat /\ off <= devsize(x)
  BY <1>1, DevSize DEF Blocks
<1>3. /\ y.dev = x.dev /\ y.pos = off /\ y.buffer = x.buffer /\ y.bufferpos = x.bufferpos
      /\ y.kind = x.kind /\ y \in Blocks
  BY <1>2 DEF Blocks
<1> HIDE DEF y, o
<1>4. devsize(y) = devsize(x)
  BY <1>3 DEF devsize
<1>5. GoodBlock(x) => GoodBlock(y)
  BY <1>2, <1>3, <1>4 DEF GoodBlock
<1>6. Content(y) = Content(x) /\ getpos(y) = off
  BY <1>3, SameDevice, BlockDispatch
<1>7. o.r = y /\ o.out = <<>> /\ ~o.thrown
  BY <1>1 DEF Done
<1>8. SetsPos(x, off, o)
  BY <1>3, <1>6, <1>7 DEF SetsPos, SameStream
<1>9. QED
  BY <1>3, <1>5, <1>7, <1>8 DEF o

\* A call that only throws changes nothing.
LEMMA ThrowFails ==
  ASSUME NEW x
  PROVE  Fails(x, Throws(x)) /\ Throws(x).r = x
BY DEF Fails, Throws, SameStream

\* A block device is not written or truncated, and has the size of its blocks.
LEMMA BlockOthers ==
  ASSUME NEW x \in Blocks
  PROVE  /\ \A p : write(x, p).r = x /\ write(x, p).thrown /\ Writes(x, write(x, p))
         /\ \A off : truncate(x, off).r = x /\ truncate(x, off).thrown
                  /\ Truncates(x, off, truncate(x, off))
         /\ size(x).r = x /\ ~size(x).thrown /\ Counts(x, size(x))
<1>1. /\ \A p : write(x, p) = Throws(x)
      /\ \A off : truncate(x, off) = Throws(x)
      /\ size(x) = Done(x, devsize(x)) /\ Len(Content(x)) = devsize(x)
  BY BlockDispatch
<1>2. Fails(x, Throws(x)) /\ Throws(x).r = x /\ Throws(x).thrown
  BY ThrowFails DEF Throws
<1>3. size(x).r = x /\ ~size(x).thrown /\ size(x).out = Len(Content(x))
  BY <1>1 DEF Done
<1>4. Counts(x, size(x))
  BY <1>3 DEF Counts, SameStream
<1>5. QED
  BY <1>1, <1>2, <1>3, <1>4 DEF Writes, Truncates
-----------------------------------------------------------------------------
(* Compressed streams. *)

\* What every round of a loop keeps holds after each of them.
LEMMA LoopKeeps ==
  ASSUME NEW n \in Nat, NEW f, NEW Inv, f[0] \in Inv[0],
         \A k \in 1..n : f[k - 1] \in Inv[k - 1] => f[k] \in Inv[k]
  PROVE  \A k \in 0..n : f[k] \in Inv[k]
<1> DEFINE T == {k \in Nat : k <= n => f[k] \in Inv[k]}
<1>1. 0 \in T
  OBVIOUS
<1>2. ASSUME NEW k \in T PROVE k + 1 \in T
  <2>1. k \in Nat /\ k + 1 - 1 = k
    OBVIOUS
  <2> SUFFICES ASSUME k + 1 <= n PROVE f[k + 1] \in Inv[k + 1]
    BY <2>1
  <2>2. f[k] \in Inv[k] /\ k + 1 \in 1..n
    BY <2>1
  <2>3. f[k + 1 - 1] \in Inv[k + 1 - 1]
    BY <2>1, <2>2
  <2>4. QED
    BY <2>2, <2>3
<1>3. T = Nat
  <2>1. T \subseteq Nat
    OBVIOUS
  <2> HIDE DEF T
  <2>2. QED
    BY <1>1, <1>2, <2>1, SetInduction
<1>4. QED
  BY <1>3

\* Compressed input, and the states of the decompression.
Pieces == Seq(Nat \cup {-1})
Inflaters == [kind : {"compressed"}, src : Pieces, in : Pieces, due : Nat, ended : BOOLEAN,
              out : Bytes, tail : Nat, next : Nat, pos : Nat, eof : BOOLEAN]

\* The buffer ends where inflate goes on, and is read up to the position.
GoodCompressed(z) ==
  /\ z \in Inflaters
  /\ z.tail <= Len(z.out) /\ Len(z.out) <= OutSize
  /\ z.next = z.pos + (Len(z.out) - z.tail) + 1
  /\ \A k \in (z.tail + 1)..Len(z.out) : z.out[k] = z.pos + k - z.tail

\* The numbers of a decompression.
LEMMA CompressedLens ==
  ASSUME NEW z, GoodCompressed(z)
  PROVE  /\ Len(z.out) \in Nat /\ Len(z.in) \in Nat /\ Len(z.src) \in Nat /\ avail_out(z) \in Nat
         /\ OutSize \in Nat /\ OutSize > 0 /\ InSize \in Nat /\ InSize > 0
         /\ z.tail \in Nat /\ z.pos \in Nat /\ z.next \in Nat /\ z.due \in Nat /\ z.out \in Bytes
         /\ z.in \in Pieces /\ z.src \in Pieces
<1>1. OutSize \in Nat /\ OutSize > 0 /\ InSize \in Nat /\ InSize > 0
  BY SizeAssumption
<1>2. /\ z.tail \in Nat /\ z.pos \in Nat /\ z.next \in Nat /\ z.due \in Nat /\ z.out \in Bytes
      /\ z.in \in Pieces /\ z.src \in Pieces
  BY DEF GoodCompressed, Inflaters
<1>3. Len(z.out) \in Nat /\ Len(z.in) \in Nat /\ Len(z.src) \in Nat
  BY <1>2, LenProperties DEF Bytes, Pieces
<1>4. avail_out(z) \in Nat
  BY <1>1, <1>3 DEF avail_out, GoodCompressed
<1>5. QED
  BY <1>1, <1>2, <1>3, <1>4

\* Putting out continues the stream.
LEMMA PutOutFacts ==
  ASSUME NEW z, GoodCompressed(z)
  PROVE  LET y == PutOut(z) IN
         GoodCompressed(y) /\ y.pos = z.pos /\ y.in = z.in /\ y.ended = z.ended
<1> DEFINE k == Min2(z.due, avail_out(z))
           e == [j \in 1..k |-> z.next + j - 1]
           q == z.out
           c == q \o e
           nx == z.next + k
           du == z.due - k
           y == [z EXCEPT !.out = c, !.next = nx, !.due = du]
<1>1. PutOut(z) = y
  BY DEF PutOut
<1>2. k \in Nat /\ k <= z.due /\ Len(q) + k <= OutSize
  BY CompressedLens DEF Min2, avail_out
<1>3. e \in Bytes /\ Len(e) = k
  <2> DEFINE nn == z.next
  <2>1. nn \in Nat
    BY CompressedLens
  <2> HIDE DEF k, nn
  <2>2. \A j \in 1..k : nn + j - 1 \in Nat
    BY <1>2, <2>1
  <2>3. [j \in 1..k |-> nn + j - 1] \in Seq(Nat) /\ Len([j \in 1..k |-> nn + j - 1]) = k
    BY <1>2, <2>2
  <2>4. QED
    BY <2>3 DEF Bytes, nn
<1>4. q \in Bytes /\ nx \in Nat /\ du \in Nat
  BY <1>2, CompressedLens
<1>5. \A j \in 1..k : e[j] = z.next + j - 1
  OBVIOUS
<1> HIDE DEF e, k
<1>6. /\ c \in Bytes /\ Len(c) = Len(q) + k
      /\ \A j \in 1..Len(q) : c[j] = q[j]
      /\ \A j \in 1..k : c[Len(q) + j] = e[j]
  BY <1>3, <1>4, Join
<1> HIDE DEF c, nx, du
<1>7. /\ y \in Inflaters /\ y.out = c /\ y.next = nx /\ y.due = du /\ y.tail = z.tail
      /\ y.pos = z.pos /\ y.in = z.in /\ y.ended = z.ended
  <2>1. z \in Inflaters
    BY DEF GoodCompressed
  <2>2. QED
    BY <1>4, <1>6, <2>1 DEF Inflaters
<1> HIDE DEF y
<1>8. z.next = z.pos + (Len(q) - z.tail) + 1 /\ z.tail <= Len(q)
  BY DEF GoodCompressed
<1>9. Len(q) \in Nat /\ z.tail \in Nat /\ z.pos \in Nat /\ z.next \in Nat
  BY CompressedLens
<1>a. \A j \in (z.tail + 1)..Len(q) : q[j] = z.pos + j - z.tail
  BY DEF GoodCompressed
<1> DEFINE l == Len(q)
           t == z.tail
           p == z.pos
<1> HIDE DEF q, l, t, p
<1>10. \A j \in (y.tail + 1)..Len(y.out) : y.out[j] = y.pos + j - y.tail
  <2> SUFFICES ASSUME NEW j \in (t + 1)..Len(c) PROVE c[j] = p + j - t
    BY <1>7 DEF t, p
  <2>1. /\ l \in Nat /\ t \in Nat /\ p \in Nat /\ t <= l /\ z.next = p + (l - t) + 1
        /\ Len(c) = l + k
    BY <1>6, <1>8, <1>9 DEF l, t, p
  <2>2. CASE j <= l
    BY <1>2, <1>6, <1>a, <2>1, <2>2 DEF l, t, p
  <2>3. CASE ~(j <= l)
    <3>1. j - l \in 1..k /\ l + (j - l) = j
      BY <1>2, <2>1, <2>3
    <3>2. c[l + (j - l)] = e[j - l]
      BY <1>6, <3>1 DEF l
    <3>3. e[j - l] = z.next + (j - l) - 1
      BY <1>5, <3>1
    <3>4. QED
      BY <2>1, <3>1, <3>2, <3>3
  <2>4. QED
    BY <2>2, <2>3
<1>11. y.tail <= Len(y.out) /\ Len(y.out) <= OutSize /\ y.next = y.pos + (Len(y.out) - y.tail) + 1
  <2>1. /\ l \in Nat /\ t \in Nat /\ p \in Nat /\ t <= l /\ Len(c) = l + k /\ l + k <= OutSize
        /\ nx = p + (l - t) + 1 + k /\ k \in Nat
    <3>1. nx = z.next + k /\ z.next = p + (l - t) + 1
      BY <1>8 DEF nx, l, t, p
    <3>2. QED
      BY <1>2, <1>6, <1>8, <1>9, <3>1 DEF l, t, p
  <2>2. y.out = c /\ y.next = nx /\ y.tail = t /\ y.pos = p
    BY <1>7 DEF t, p
  <2>3. QED
    BY <2>1, <2>2
<1>12. QED
  BY <1>1, <1>7, <1>10, <1>11 DEF GoodCompressed

\* Taking the next piece puts out nothing.
LEMMA TakeInFacts ==
  ASSUME NEW z, GoodCompressed(z), z.in # <<>>
  PROVE  LET y == TakeIn(z) IN
         GoodCompressed(y) /\ y.pos = z.pos /\ Len(y.in) = Len(z.in) - 1
<1> DEFINE h == Head(z.in)
           i == Tail(z.in)
           du == IF h = -1 THEN 0 ELSE h
           e == h = -1
           y == [z EXCEPT !.in = i, !.due = du, !.ended = e]
<1>1. TakeIn(z) = y
  BY DEF TakeIn
<1>2. h \in Nat \cup {-1} /\ i \in Pieces /\ Len(i) = Len(z.in) - 1
  BY CompressedLens, HeadTailProperties DEF Pieces
<1>3. du \in Nat /\ e \in BOOLEAN
  BY <1>2
<1> HIDE DEF i, du, e
<1>4. /\ y \in Inflaters /\ y.out = z.out /\ y.next = z.next /\ y.tail = z.tail
      /\ y.pos = z.pos /\ y.in = i
  <2>1. z \in Inflaters
    BY DEF GoodCompressed
  <2>2. QED
    BY <1>2, <1>3, <2>1 DEF Inflaters
<1> HIDE DEF y
<1>5. QED
  BY <1>1, <1>2, <1>4 DEF GoodCompressed

\* inflate: its rounds each take a piece, until something is owed.
LEMMA InflateFacts ==
  ASSUME NEW z, GoodCompressed(z)
  PROVE  GoodCompressed(inflate(z)) /\ inflate(z).pos = z.pos
<1> DEFINE N == Len(z.in)
           a == PutOut(z)
           At(k) == {y \in Inflaters : /\ GoodCompressed(y) /\ y.pos = z.pos
                                       /\ y.due > 0 \/ y.ended \/ Len(y.in) = N - k}
           Inv == [k \in 0..N |-> At(k)]
           step == [y \in Inflaters |-> IF InflateStep(y) \in Inflaters THEN InflateStep(y) ELSE y]
           F(f) == f = [k \in 0..N |-> IF k = 0 THEN a ELSE InflateStep(f[k - 1])]
           f == CHOOSE f : F(f)
<1>1. N \in Nat
  BY CompressedLens
<1>2. a \in Inv[0]
  <2>1. GoodCompressed(a) /\ a.pos = z.pos /\ a.in = z.in /\ a \in Inflaters
    BY PutOutFacts DEF GoodCompressed
  <2> HIDE DEF a
  <2>2. Len(a.in) = N - 0
    BY <1>1, <2>1
  <2> HIDE DEF N
  <2>3. QED
    BY <1>1, <2>1, <2>2
<1>3. ASSUME NEW k \in 1..N, NEW y \in At(k - 1) PROVE InflateStep(y) \in At(k)
  <2>1. GoodCompressed(y) /\ y.pos = z.pos /\ (y.due > 0 \/ y.ended \/ Len(y.in) = N - (k - 1))
    OBVIOUS
  <2>2. CASE y.due > 0 \/ y.ended
    <3>1. InflateStep(y) = y
      BY <2>2 DEF InflateStep
    <3>2. QED
      BY <2>1, <2>2, <3>1
  <2>3. CASE ~(y.due > 0 \/ y.ended)
    <3> DEFINE t == TakeIn(y)
               u == PutOut(t)
    <3>1. InflateStep(y) = u
      BY <2>3 DEF InflateStep
    <3>2. Len(y.in) = N - (k - 1) /\ Len(y.in) > 0
      BY <1>1, <2>1, <2>3
    <3>3. y.in # <<>>
      BY <3>2, EmptySeq
    <3>4. GoodCompressed(t) /\ t.pos = z.pos /\ Len(t.in) = Len(y.in) - 1
      BY <2>1, <3>3, TakeInFacts
    <3> HIDE DEF t
    <3>5. GoodCompressed(u) /\ u.pos = z.pos /\ u.in = t.in
      BY <3>4, PutOutFacts
    <3> HIDE DEF u
    <3>6. Len(u.in) = N - k
      BY <1>1, <3>2, <3>4, <3>5
    <3>7. u \in Inflaters
      BY <3>5 DEF GoodCompressed
    <3> HIDE DEF N
    <3>8. QED
      BY <3>1, <3>5, <3>6, <3>7
  <2>4. QED
    BY <2>2, <2>3
<1>4. \A k \in 0..N : \A y \in At(k) : y \in Inflaters /\ GoodCompressed(y) /\ y.pos = z.pos
  OBVIOUS
<1>5. \A k \in 0..N : Inv[k] = At(k)
  OBVIOUS
<1> HIDE DEF At
<1>6. ASSUME NEW k \in 1..N, NEW y \in Inv[k - 1]
      PROVE  InflateStep(y) \in Inv[k] /\ y \in Inflaters /\ InflateStep(y) \in Inflaters
  <2>1. k - 1 \in 0..N /\ k \in 0..N
    BY <1>1
  <2>2. y \in At(k - 1)
    BY <1>5, <2>1
  <2>3. InflateStep(y) \in At(k)
    BY <1>3, <2>2
  <2>4. QED
    BY <1>4, <1>5, <2>1, <2>2, <2>3
<1> HIDE DEF Inv, a
<1>7. step \in [Inflaters -> Inflaters]
  OBVIOUS
<1>8. \E g : F(g)
  <2>1. a \in Inflaters
    BY <1>1, <1>2, <1>4, <1>5
  <2> HIDE DEF step, N
  <2>2. \E g : Rounds(g, Inflaters, step, a, N)
    BY <1>1, <1>7, <2>1, RoundsExist
  <2>3. PICK g \in [0..N -> Inflaters] : g[0] = a /\ \A k \in 1..N : g[k] = step[g[k - 1]]
    BY <2>2 DEF Rounds
  <2>4. ASSUME NEW k \in 1..N, g[k - 1] \in Inv[k - 1]
        PROVE  g[k] \in Inv[k] /\ g[k] = InflateStep(g[k - 1])
    <3>1. InflateStep(g[k - 1]) \in Inv[k] /\ g[k - 1] \in Inflaters
          /\ InflateStep(g[k - 1]) \in Inflaters
      BY <1>6, <2>4
    <3>2. step[g[k - 1]] = InflateStep(g[k - 1])
      BY <3>1 DEF step
    <3>3. QED
      BY <2>3, <3>1, <3>2
  <2>5. \A k \in 0..N : g[k] \in Inv[k]
    BY <1>1, <1>2, <2>3, <2>4, LoopKeeps
  <2>6. \A k \in 0..N : g[k] = IF k = 0 THEN a ELSE InflateStep(g[k - 1])
    <3> SUFFICES ASSUME NEW k \in 0..N PROVE g[k] = IF k = 0 THEN a ELSE InflateStep(g[k - 1])
      OBVIOUS
    <3>1. CASE k = 0
      BY <2>3, <3>1
    <3>2. CASE k # 0
      <4>1. k \in 1..N /\ k - 1 \in 0..N
        BY <1>1, <3>2
      <4>2. QED
        BY <2>4, <2>5, <3>2, <4>1
    <3>3. QED
      BY <3>1, <3>2
  <2>7. g = [k \in 0..N |-> IF k = 0 THEN a ELSE InflateStep(g[k - 1])]
    BY <2>3, <2>6
  <2>8. QED
    BY <2>7
<1>9. F(f)
  BY <1>8
<1>10. inflate(z) = f[N]
  BY DEF inflate, a
<1> HIDE DEF f
<1>11. f[0] = a /\ \A k \in 1..N : f[k] = InflateStep(f[k - 1])
  BY <1>1, <1>9
<1>12. \A k \in 0..N : f[k] \in Inv[k]
  <2>1. ASSUME NEW k \in 1..N, f[k - 1] \in Inv[k - 1] PROVE f[k] \in Inv[k]
    BY <1>6, <1>11, <2>1
  <2> HIDE DEF N
  <2>2. QED
    BY <1>1, <1>2, <1>11, <2>1, LoopKeeps
<1>13. N \in 0..N
  BY <1>1
<1>14. f[N] \in At(N)
  BY <1>5, <1>12, <1>13
<1>15. QED
  BY <1>4, <1>10, <1>13, <1>14

\* Handing out bytes moves the tail and the position together; it is short only when
\* the buffer is empty.
LEMMA ServeFacts ==
  ASSUME NEW z, GoodCompressed(z), NEW n \in Nat
  PROVE  LET o == Serve(z, n) IN
         /\ GoodCompressed(o.r) /\ o.out \in Bytes /\ Len(o.out) <= n /\ ~o.thrown
         /\ o.r.pos = z.pos + Len(o.out) /\ o = Done(o.r, o.out)
         /\ Len(o.out) # n => o.r.tail = Len(o.r.out)
<1> DEFINE k == Min2(n, Len(z.out) - z.tail)
           t == z.tail + k
           p == z.pos + k
           y == [z EXCEPT !.tail = t, !.pos = p]
           d == SubSeq(z.out, z.tail + 1, z.tail + k)
           o == Serve(z, n)
<1>1. o = Done(y, d)
  BY DEF Serve
<1>2. /\ z.tail \in Nat /\ z.pos \in Nat /\ Len(z.out) \in Nat /\ z.tail <= Len(z.out)
      /\ z.out \in Bytes
  BY CompressedLens DEF GoodCompressed
<1>3. k \in Nat /\ k <= n /\ t \in Nat /\ p \in Nat /\ t <= Len(z.out) /\ (k # n => t = Len(z.out))
  <2> DEFINE l == Len(z.out)
             a == z.tail
             left == l - a
  <2>1. l \in Nat /\ a \in Nat /\ a <= l /\ left = l - a /\ left \in Nat
    BY <1>2
  <2> HIDE DEF left
  <2>2. Min2(n, left) \in Nat /\ Min2(n, left) <= n /\ Min2(n, left) <= left
        /\ (Min2(n, left) # n => Min2(n, left) = left)
    BY <2>1 DEF Min2
  <2>3. k = Min2(n, left)
    BY DEF left
  <2> HIDE DEF k
  <2>4. k \in Nat /\ k <= n /\ k <= left /\ (k # n => k = left)
    BY <2>2, <2>3
  <2>5. t = a + k /\ p = z.pos + k
    OBVIOUS
  <2> HIDE DEF l, a, t, p
  <2>6. t \in Nat /\ t <= l /\ (k # n => t = l)
    BY <2>1, <2>4, <2>5
  <2>7. p \in Nat
    BY <1>2, <2>4, <2>5
  <2>8. QED
    BY <2>4, <2>6, <2>7 DEF l
<1>4. d \in Bytes /\ Len(d) = k
  <2> DEFINE s == z.out
             a == z.tail
  <2>1. s \in Bytes /\ a \in Nat /\ k \in Nat /\ a + k <= Len(s) /\ d = SubSeq(s, a + 1, a + k)
    BY <1>2, <1>3
  <2> HIDE DEF s, a, k, d
  <2>2. QED
    BY <2>1, Part
<1>w. t = z.tail + k /\ p = z.pos + k
  OBVIOUS
<1> HIDE DEF k, d, t, p
<1>5. /\ y \in Inflaters /\ y.out = z.out /\ y.next = z.next /\ y.tail = t
      /\ y.pos = p /\ y.in = z.in
  <2>1. z \in Inflaters
    BY DEF GoodCompressed
  <2>2. QED
    BY <1>3, <2>1 DEF Inflaters
<1> HIDE DEF y
<1>6. GoodCompressed(y)
  <2>1. \A j \in (t + 1)..Len(z.out) : z.out[j] = p + j - t
    <3> SUFFICES ASSUME NEW j \in (t + 1)..Len(z.out) PROVE z.out[j] = p + j - t
      OBVIOUS
    <3>1. j \in (z.tail + 1)..Len(z.out)
      BY <1>2, <1>3, <1>w
    <3>2. z.out[j] = z.pos + j - z.tail
      BY <3>1 DEF GoodCompressed
    <3> DEFINE l == Len(z.out)
               a == z.tail
               b == z.pos
               e == z.out[j]
    <3>3. l \in Nat /\ a \in Nat /\ b \in Nat /\ k \in Nat /\ t = a + k /\ p = b + k
          /\ e = b + j - a
      BY <1>2, <1>3, <1>w, <3>2
    <3>4. j \in Int
      OBVIOUS
    <3> HIDE DEF l, a, b, e
    <3>5. e = p + j - t
      BY <3>3, <3>4
    <3>6. QED
      BY <3>5 DEF e
  <2>2. z.next = z.pos + (Len(z.out) - z.tail) + 1 /\ Len(z.out) <= OutSize
    BY DEF GoodCompressed
  <2>3. z.next = p + (Len(z.out) - t) + 1
    <3> DEFINE l == Len(z.out)
               a == z.tail
               b == z.pos
               e == z.next
    <3>1. /\ l \in Nat /\ a \in Nat /\ b \in Nat /\ k \in Nat /\ t = a + k /\ p = b + k
          /\ e = b + (l - a) + 1
      BY <1>2, <1>3, <1>w, <2>2
    <3> HIDE DEF l, a, b, e
    <3>2. e = p + (l - t) + 1
      BY <3>1
    <3>3. QED
      BY <3>2 DEF e, l
  <2>4. QED
    BY <1>3, <1>5, <2>1, <2>2, <2>3 DEF GoodCompressed
<1> HIDE DEF o
<1>7. o.r = y /\ o.out = d /\ ~o.thrown
  BY <1>1 DEF Done
<1>8. QED
  BY <1>1, <1>3, <1>4, <1>5, <1>6, <1>7, <1>w DEF o

\* Reading more input puts out nothing.
LEMMA FillInputFacts ==
  ASSUME NEW z, GoodCompressed(z)
  PROVE  LET y == FillInput(z) IN
         GoodCompressed(y) /\ y.pos = z.pos /\ y.tail = z.tail /\ y.out = z.out
<1>1. CASE z.in # <<>>
  BY <1>1 DEF FillInput
<1>2. CASE z.in = <<>>
  <2> DEFINE s == z.src
             i == SubSeq(s, 1, Min2(InSize, Len(s)))
             q == SubSeq(s, InSize + 1, Len(s))
             y == [z EXCEPT !.in = i, !.src = q]
  <2>1. FillInput(z) = y
    BY <1>2 DEF FillInput
  <2>2. s \in Pieces /\ Len(s) \in Nat /\ InSize \in Nat
    BY CompressedLens
  <2>3. i \in Pieces /\ q \in Pieces
    <3> HIDE DEF s
    <3>1. \A j \in 1..Len(s) : s[j] \in Nat \cup {-1}
      BY <2>2 DEF Pieces
    <3>2. \A j \in 1..Min2(InSize, Len(s)) : s[j] \in Nat \cup {-1}
      BY <2>2, <3>1 DEF Min2
    <3>3. \A j \in (InSize + 1)..Len(s) : s[j] \in Nat \cup {-1}
      BY <2>2, <3>1
    <3>4. Min2(InSize, Len(s)) \in Int /\ InSize + 1 \in Int /\ Len(s) \in Int
      BY <2>2 DEF Min2
    <3>5. QED
      BY <3>2, <3>3, <3>4, SubSeqProperties DEF Pieces
  <2> HIDE DEF i, q
  <2>4. /\ y \in Inflaters /\ y.out = z.out /\ y.next = z.next /\ y.tail = z.tail /\ y.pos = z.pos
    <3>1. z \in Inflaters
      BY DEF GoodCompressed
    <3>2. QED
      BY <2>3, <3>1 DEF Inflaters
  <2> HIDE DEF y
  <2>5. QED
    BY <2>1, <2>4 DEF GoodCompressed
<1>3. QED
  BY <1>1, <1>2

\* What was read is thrown away when there is no room.
LEMMA CompactFacts ==
  ASSUME NEW z, GoodCompressed(z), z.tail = Len(z.out)
  PROVE  GoodCompressed(Compact(z)) /\ Compact(z).pos = z.pos
<1>1. CASE avail_out(z) > 0
  BY <1>1 DEF Compact
<1>2. CASE ~(avail_out(z) > 0)
  <2> DEFINE q == SubSeq(z.out, z.tail + 1, Len(z.out))
             t == 0
             y == [z EXCEPT !.out = q, !.tail = t]
  <2>1. Compact(z) = y
    BY <1>2 DEF Compact
  <2>2. q = <<>>
    <3>1. z.tail \in Nat /\ Len(z.out) \in Nat
      BY CompressedLens
    <3>2. QED
      BY <3>1, SubSeqEmpty
  <2>3. q \in Bytes /\ Len(q) = 0 /\ t \in Nat /\ t = 0
    BY <2>2, EmptySeq DEF Bytes
  <2> HIDE DEF q, t
  <2>4. /\ y \in Inflaters /\ y.out = q /\ y.next = z.next /\ y.tail = t /\ y.pos = z.pos
    <3>1. z \in Inflaters
      BY DEF GoodCompressed
    <3>2. QED
      BY <2>3, <3>1 DEF Inflaters
  <2> HIDE DEF y
  <2>5. z.next = z.pos + 1
    BY CompressedLens DEF GoodCompressed
  <2>6. z.pos \in Nat /\ OutSize \in Nat
    BY CompressedLens
  <2>7. y.next = y.pos + (Len(y.out) - y.tail) + 1 /\ y.tail <= Len(y.out) /\ Len(y.out) <= OutSize
    BY <2>3, <2>4, <2>5, <2>6
  <2>8. \A k \in (y.tail + 1)..Len(y.out) : y.out[k] = y.pos + k - y.tail
    BY <2>3, <2>4
  <2>9. QED
    BY <2>1, <2>4, <2>7, <2>8 DEF GoodCompressed
<1>3. QED
  BY <1>1, <1>2

\* A read moves forward by no more than was asked for.
LEMMA CompressedRead ==
  ASSUME NEW z, GoodCompressed(z), NEW n \in Nat
  PROVE  LET o == compressedread(z, n) IN
         /\ GoodCompressed(o.r) /\ o.r.pos <= z.pos + n /\ o.out \in Bytes
         /\ o.thrown \in BOOLEAN /\ o \in [r : Inflaters, out : Bytes, thrown : BOOLEAN]
<1> DEFINE u == Serve(z, n)
           b == FillInput(u.r)
           ready == Compact(b)
           y == inflate(ready)
           e == y.ended /\ y.due = 0
           v == [y EXCEPT !.eof = e]
           w == n - Len(u.out)
           s == Serve(v, w)
           R == [r : Inflaters, out : Bytes, thrown : BOOLEAN]
           o == compressedread(z, n)
<1>1. /\ GoodCompressed(u.r) /\ u.out \in Bytes /\ Len(u.out) <= n
      /\ u.r.pos = z.pos + Len(u.out) /\ u = Done(u.r, u.out)
      /\ Len(u.out) # n => u.r.tail = Len(u.r.out)
  BY ServeFacts
<1>2. z.pos \in Nat /\ Len(u.out) \in Nat
  BY <1>1, CompressedLens, LenProperties DEF Bytes
<1>3. \A x, d : GoodCompressed(x) /\ d \in Bytes => Done(x, d) \in R
  BY DEF GoodCompressed, Done
<1>4. \A x : GoodCompressed(x) => Throws(x) \in R
  <2>1. <<>> \in Bytes
    BY EmptySeq DEF Bytes
  <2>2. QED
    BY <2>1 DEF GoodCompressed, Throws
<1>5. o = IF Len(u.out) = n THEN u
          ELSE IF y = ready /\ ~y.ended THEN Throws(ready)
          ELSE Done(s.r, u.out \o s.out)
  BY DEF compressedread
<1>6. CASE Len(u.out) = n
  <2> HIDE DEF u, R
  <2>1. o = u /\ o \in R
    BY <1>1, <1>3, <1>5, <1>6
  <2> HIDE DEF o
  <2>2. o.r.pos <= z.pos + n
    BY <1>1, <1>2, <2>1
  <2>3. QED
    BY <1>1, <2>1, <2>2 DEF o, R
<1>7. CASE Len(u.out) # n
  <2>1. u.r.tail = Len(u.r.out) /\ w \in Nat
    BY <1>1, <1>2, <1>7
  <2> HIDE DEF u, w
  <2>2. GoodCompressed(b) /\ b.pos = u.r.pos /\ b.tail = Len(b.out)
    BY <1>1, <2>1, FillInputFacts
  <2> HIDE DEF b
  <2>3. GoodCompressed(ready) /\ ready.pos = u.r.pos
    BY <2>2, CompactFacts
  <2> HIDE DEF ready
  <2>4. GoodCompressed(y) /\ y.pos = u.r.pos
    BY <2>3, InflateFacts
  <2>5. e \in BOOLEAN
    OBVIOUS
  <2> HIDE DEF y, e
  <2>6. GoodCompressed(v) /\ v.pos = u.r.pos
    <3>1. /\ v \in Inflaters /\ v.out = y.out /\ v.next = y.next /\ v.tail = y.tail /\ v.pos = y.pos
      <4>1. y \in Inflaters
        BY <2>4 DEF GoodCompressed
      <4>2. QED
        BY <2>5, <4>1 DEF Inflaters
    <3> HIDE DEF v
    <3>2. QED
      BY <2>4, <3>1 DEF GoodCompressed
  <2> HIDE DEF v
  <2>7. GoodCompressed(s.r) /\ s.out \in Bytes /\ Len(s.out) <= w /\ s.r.pos = u.r.pos + Len(s.out)
    BY <2>1, <2>6, ServeFacts
  <2> HIDE DEF s
  <2>8. CASE y = ready /\ ~y.ended
    <3>1. o = Throws(ready)
      BY <1>5, <1>7, <2>8
    <3> HIDE DEF o, R
    <3>2. o.r = ready /\ o.thrown /\ o.out = <<>> /\ o \in R
      BY <1>4, <2>3, <3>1 DEF Throws
    <3>3. o.r.pos <= z.pos + n
      BY <1>1, <1>2, <2>3, <3>2
    <3>4. o.out \in Bytes /\ o.thrown \in BOOLEAN
      BY <3>2 DEF R
    <3>5. QED
      BY <2>3, <3>2, <3>3, <3>4 DEF o, R
  <2>9. CASE ~(y = ready /\ ~y.ended)
    <3> DEFINE d == u.out \o s.out
    <3>1. o = Done(s.r, d)
      BY <1>5, <1>7, <2>9
    <3>2. d \in Bytes
      BY <1>1, <2>7, Join
    <3> HIDE DEF o, R, d
    <3>3. o \in R /\ o.r = s.r /\ o.out = d /\ ~o.thrown
      BY <1>3, <2>7, <3>1, <3>2 DEF Done
    <3>4. Len(s.out) \in Nat
      BY <2>7, LenProperties DEF Bytes
    <3>5. s.r.pos = (z.pos + Len(u.out)) + Len(s.out) /\ Len(s.out) <= n - Len(u.out)
      BY <1>1, <2>7 DEF w
    <3>6. s.r.pos <= z.pos + n
      BY <1>2, <3>4, <3>5
    <3>7. o.out \in Bytes /\ o.thrown \in BOOLEAN
      BY <3>3 DEF R
    <3>8. QED
      BY <2>7, <3>3, <3>6, <3>7 DEF o, R
  <2>10. QED
    BY <2>8, <2>9
<1>8. QED
  BY <1>6, <1>7

\* Positioning reads, forward only, and not past where it goes.
LEMMA CompressedSetPos ==
  ASSUME NEW z, GoodCompressed(z), NEW off \in Nat
  PROVE  GoodCompressed(compressedsetpos(z, off).r)
<1> DEFINE R == [r : Inflaters, out : Bytes, thrown : BOOLEAN]
           S == {o \in R : GoodCompressed(o.r) /\ o.r.pos <= off}
           N == off - z.pos + Len(z.in) + Len(z.src)
           a == Done(z, <<>>)
           step == [o \in S |-> Forward(o, off)]
           F(f) == f = [k \in 0..N |-> IF k = 0 THEN a ELSE Forward(f[k - 1], off)]
           f == CHOOSE f : F(f)
           Inv == [k \in 0..N |-> S]
<1>1. z.pos \in Nat /\ Len(z.in) \in Nat /\ Len(z.src) \in Nat
  BY CompressedLens
<1>2. CASE off < z.pos
  BY <1>2 DEF compressedsetpos, Throws
<1>3. CASE ~(off < z.pos)
  <2>1. N \in Nat /\ z.pos <= off
    BY <1>1, <1>3
  <2>2. a \in S
    <3>1. <<>> \in Bytes
      BY EmptySeq DEF Bytes
    <3>2. a \in R /\ a.r = z
      BY <3>1 DEF Done, GoodCompressed
    <3>3. QED
      BY <2>1, <3>2
  <2>3. ASSUME NEW o \in S PROVE Forward(o, off) \in S
    <3> DEFINE x == o.r
               n == off - x.pos
    <3>1. GoodCompressed(x) /\ x.pos <= off /\ x.pos \in Nat
      BY CompressedLens
    <3>2. n \in Nat /\ x.pos + n = off
      BY <3>1
    <3> HIDE DEF x, n
    <3> DEFINE q == compressedread(x, n)
    <3>3. GoodCompressed(q.r) /\ q.r.pos <= off /\ q \in R
      BY <3>1, <3>2, CompressedRead
    <3>4. q \in S
      BY <3>3
    <3>5. Forward(o, off) \in {o, q}
      BY DEF Forward, x, n
    <3>6. QED
      BY <3>4, <3>5
  <2>4. \A o \in S : GoodCompressed(o.r) /\ o \in R
    OBVIOUS
  <2>5. compressedsetpos(z, off) = [f[N] EXCEPT !.out = <<>>]
    BY <1>3 DEF compressedsetpos, a
  <2> HIDE DEF S, a
  <2>6. step \in [S -> S]
    BY <2>3
  <2>7. \E g : F(g)
    <3> HIDE DEF step, N
    <3>1. \E g : Rounds(g, S, step, a, N)
      BY <2>1, <2>2, <2>6, RoundsExist
    <3>2. PICK g \in [0..N -> S] : g[0] = a /\ \A k \in 1..N : g[k] = step[g[k - 1]]
      BY <3>1 DEF Rounds
    <3>3. \A k \in 0..N : g[k] = IF k = 0 THEN a ELSE Forward(g[k - 1], off)
      <4> SUFFICES ASSUME NEW k \in 0..N PROVE g[k] = IF k = 0 THEN a ELSE Forward(g[k - 1], off)
        OBVIOUS
      <4>1. CASE k = 0
        BY <3>2, <4>1
      <4>2. CASE k # 0
        <5>1. k \in 1..N /\ k - 1 \in 0..N
          BY <2>1, <4>2
        <5>2. g[k - 1] \in S /\ g[k] = step[g[k - 1]]
          BY <3>2, <5>1
        <5>3. QED
          BY <4>2, <5>2 DEF step
      <4>3. QED
        BY <4>1, <4>2
    <3>4. g = [k \in 0..N |-> IF k = 0 THEN a ELSE Forward(g[k - 1], off)]
      BY <3>2, <3>3
    <3>5. QED
      BY <3>4
  <2>8. F(f)
    BY <2>7
  <2> HIDE DEF f
  <2>9. f[0] = a /\ \A k \in 1..N : f[k] = Forward(f[k - 1], off)
    BY <2>1, <2>8
  <2>10. \A k \in 0..N : Inv[k] = S
    OBVIOUS
  <2>11. ASSUME NEW k \in 1..N, f[k - 1] \in Inv[k - 1] PROVE f[k] \in Inv[k]
    <3>1. k - 1 \in 0..N /\ k \in 0..N
      BY <2>1
    <3>2. f[k - 1] \in S
      BY <2>10, <2>11, <3>1
    <3> HIDE DEF Inv
    <3>3. QED
      BY <2>3, <2>9, <2>10, <3>1, <3>2
  <2>12. 0 \in 0..N /\ N \in 0..N
    BY <2>1
  <2>13. f[0] \in Inv[0]
    BY <2>2, <2>9, <2>10, <2>12
  <2> HIDE DEF N, Inv
  <2>14. \A k \in 0..N : f[k] \in Inv[k]
    BY <2>1, <2>11, <2>13, LoopKeeps
  <2>15. f[N] \in S
    BY <2>10, <2>12, <2>14
  <2>16. [f[N] EXCEPT !.out = <<>>].r = f[N].r
    BY <2>4, <2>15
  <2>17. QED
    BY <2>4, <2>5, <2>15, <2>16
<1>4. QED
  BY <1>2, <1>3
-----------------------------------------------------------------------------
(* Any reader. *)

\* A reader of any kind as its calls may leave it, in step or not.
Shape(x) == GoodMemory(x) \/ WindowShape(x) \/ FileShape(x) \/ x \in Blocks \/ GoodCompressed(x)

\* The readers that are streams to their end; a compressed one may return
\* nothing when its input buffer holds no more than a header.
Streaming(x) == Shape(x) /\ x.kind # "compressed" /\ EndsBelow(x)

\* What a call keeps, in step or not.
Kept(x, o) ==
  /\ Shape(o.r) /\ o.r.kind = x.kind
  /\ EndsBelow(x) => EndsBelow(o.r)
  /\ x.kind \in WindowKinds /\ Inside(x) => Inside(o.r) /\ KeepsOutside(x, o.r)

\* The kind tells which of them it is.
LEMMA Kinds ==
  ASSUME NEW x, Shape(x)
  PROVE  /\ GoodMemory(x) <=> x.kind \in MemoryKinds
         /\ WindowShape(x) <=> x.kind \in WindowKinds
         /\ FileShape(x) <=> x.kind = "file"
         /\ x \in Blocks <=> x.kind = "block"
         /\ GoodCompressed(x) <=> x.kind = "compressed"
         /\ x.kind \in MemoryKinds \cup WindowKinds \cup {"file", "block", "compressed"}
<1>1. GoodMemory(x) => x.kind \in MemoryKinds
  BY DEF GoodMemory
<1>2. WindowShape(x) => x.kind \in WindowKinds
  BY DEF WindowShape
<1>3. FileShape(x) => x.kind = "file"
  BY DEF FileShape
<1>4. x \in Blocks => x.kind = "block"
  BY DEF Blocks
<1>5. GoodCompressed(x) => x.kind = "compressed"
  BY DEF GoodCompressed, Inflaters
<1>6. QED
  BY <1>1, <1>2, <1>3, <1>4, <1>5 DEF Shape, MemoryKinds, WindowKinds

\* To be in step is true or false.
LEMMA StepBoolean ==
  ASSUME NEW x, Shape(x)
  PROVE  InStep(x) \in BOOLEAN
<1>1. CASE x.kind \in MemoryKinds
  BY <1>1 DEF InStep, MemoryKinds
<1>2. CASE x.kind = "offset"
  BY <1>2 DEF InStep
<1>3. CASE x.kind = "checked"
  BY <1>3 DEF InStep
<1>4. CASE x.kind = "range"
  BY <1>4 DEF InStep
<1>5. CASE x.kind = "file"
  BY <1>5 DEF InStep
<1>6. CASE x.kind = "block"
  BY <1>6 DEF InStep
<1>7. CASE x.kind = "compressed"
  BY <1>7 DEF InStep
<1>8. QED
  BY <1>1, <1>2, <1>3, <1>4, <1>5, <1>6, <1>7, Kinds DEF WindowKinds

\* A reader of memory keeps no copy, and that of a compressed one stays true.
LEMMA AlwaysInStep ==
  ASSUME NEW x, GoodMemory(x) \/ GoodCompressed(x)
  PROVE  InStep(x)
<1>1. CASE GoodMemory(x)
  <2>1. x.kind \in MemoryKinds
    BY <1>1 DEF GoodMemory
  <2>2. QED
    BY <2>1 DEF InStep, MemoryKinds
<1>2. CASE GoodCompressed(x)
  <2>1. x.kind = "compressed"
    BY <1>2 DEF GoodCompressed, Inflaters
  <2>2. QED
    BY <1>2, <2>1 DEF InStep, GoodCompressed
<1>3. QED
  BY <1>1, <1>2

\* Which definitions the calls of a compressed reader take.
LEMMA CompressedDispatch ==
  ASSUME NEW x, x.kind = "compressed"
  PROVE  /\ \A n, io : read(x, n, io) = compressedread(x, n)
         /\ \A p : write(x, p) = Throws(x)
         /\ \A off : setpos(x, off) = compressedsetpos(x, off)
         /\ \A off : truncate(x, off) = Throws(x)
         /\ size(x) = Throws(x)
         /\ getpos(x) = x.pos
<1>1. ~Memory(x.kind) /\ ~IsWindow(x.kind)
  BY DEF Memory, IsWindow
<1>2. \A n, io : read(x, n, io) = compressedread(x, n)
  BY <1>1 DEF read
<1>3. \A p : write(x, p) = Throws(x)
  BY <1>1 DEF write
<1>4. \A off : setpos(x, off) = compressedsetpos(x, off)
  BY <1>1 DEF setpos
<1>5. \A off : truncate(x, off) = Throws(x)
  BY <1>1 DEF truncate
<1>6. size(x) = Throws(x)
  BY <1>1 DEF size
<1>7. getpos(x) = x.pos
  BY <1>1 DEF getpos
<1>8. QED
  BY <1>2, <1>3, <1>4, <1>5, <1>6, <1>7

\* Where a window is that is in step.
LEMMA WindowPosition ==
  ASSUME NEW x, WindowShape(x), InStep(x)
  PROVE  /\ getpos(x) \in Nat
         /\ EndsBelow(x) => getpos(x) <= long(x)
<1> DEFINE a == from(x)
           l == long(x)
           q == x.under.pos
           g == getpos(x)
<1>1. GoodWindow(x)
  BY WindowStep
<1>2. /\ x.under.size = Len(x.under.mem) /\ x.under.size \in Nat /\ q \in Nat /\ q <= x.under.size
      /\ x.base \in Nat /\ x.size \in Nat /\ x.pos \in Nat /\ x.kind \in WindowKinds
  BY UnderShape
<1>3. g = q - a /\ a \in Nat /\ l \in Nat /\ a + l = x.base + x.size /\ a <= q
  BY <1>1, WindowDispatch
<1>4. ASSUME EndsBelow(x) PROVE q <= x.base + x.size
  <2>1. CASE x.kind = "offset"
    BY <1>2, <1>4, <2>1 DEF EndsBelow
  <2>2. CASE x.kind # "offset"
    BY <1>1, <1>2, <2>2 DEF GoodWindow, WindowKinds
  <2>3. QED
    BY <2>1, <2>2
<1> HIDE DEF a, l, q, g
<1>5. g \in Nat /\ (EndsBelow(x) => g <= l)
  BY <1>2, <1>3, <1>4
<1>6. QED
  BY <1>5 DEF g, l

\* Where readers are, and what they hold.
LEMMA Positions ==
  ASSUME NEW x, Shape(x)
  PROVE  /\ getpos(x) \in Int
         /\ x.kind \notin WindowKinds => getpos(x) = x.pos /\ getpos(x) \in Nat
         /\ x.kind # "compressed" => Content(x) \in Bytes /\ Len(Content(x)) \in Nat
         /\ InStep(x) => getpos(x) \in Nat
         /\ InStep(x) /\ x.kind # "compressed" /\ EndsBelow(x) => getpos(x) <= Len(Content(x))
<1>1. CASE GoodMemory(x)
  <2>1. getpos(x) = x.pos /\ Content(x) = Held(x)
    BY <1>1, MemoryDispatch DEF GoodMemory
  <2>2. Held(x) \in Bytes /\ Len(Held(x)) = x.size
    BY <1>1, HeldFacts
  <2>3. x.pos \in Nat /\ x.size \in Nat /\ x.pos <= x.size
    BY <1>1 DEF GoodMemory
  <2>4. QED
    BY <2>1, <2>2, <2>3
<1>2. CASE WindowShape(x)
  <2>1. Content(x) \in Bytes /\ Len(Content(x)) = long(x) /\ long(x) \in Nat
    BY <1>2, WindowLength, ShapeDispatch
  <2>2. getpos(x) \in Int
    <3>1. getpos(x) = IF x.kind = "offset" THEN Wrap(x.under.pos - x.base) ELSE x.pos
      BY <1>2, ShapeDispatch DEF wgetpos
    <3>2. x.under.pos \in Nat /\ x.base \in Nat /\ x.pos \in Nat
      BY <1>2, UnderShape
    <3>3. Word \in Nat
      BY SizeAssumption
    <3>4. QED
      BY <3>1, <3>2, <3>3 DEF Wrap
  <2>3. x.kind \in WindowKinds
    BY <1>2, UnderShape
  <2>4. InStep(x) => getpos(x) \in Nat /\ (EndsBelow(x) => getpos(x) <= long(x))
    BY <1>2, WindowPosition
  <2>5. QED
    BY <2>1, <2>2, <2>3, <2>4
<1>3. CASE FileShape(x)
  <2>1. x.pos \in Nat
    BY <1>3 DEF FileShape
  <2>2. QED
    BY <1>3, <2>1, OnDiskFacts
<1>4. CASE x \in Blocks
  <2>1. x.pos \in Nat /\ x.dev \in Bytes
    BY <1>4 DEF Blocks
  <2>2. devsize(x) \in Nat
    BY <2>1, DevSize
  <2>3. getpos(x) = x.pos /\ Content(x) \in Bytes /\ Len(Content(x)) = devsize(x)
    BY <1>4, BlockDispatch
  <2>4. InStep(x) => x.pos <= devsize(x)
    BY <1>4, BlockStep DEF GoodBlock
  <2>5. QED
    BY <2>1, <2>2, <2>3, <2>4
<1>5. CASE GoodCompressed(x)
  <2>1. x.kind = "compressed"
    BY <1>5 DEF GoodCompressed, Inflaters
  <2>2. x.pos \in Nat
    BY <1>5, CompressedLens
  <2>3. QED
    BY <2>1, <2>2, CompressedDispatch
<1>6. QED
  BY <1>1, <1>2, <1>3, <1>4, <1>5 DEF Shape

\* Outside the windows there is nothing to keep, and nothing to end.
LEMMA NoWindow ==
  ASSUME NEW x, NEW o, Shape(o.r), o.r.kind = x.kind, x.kind \notin WindowKinds
  PROVE  Kept(x, o)
BY DEF Kept, EndsBelow, WindowKinds

\* A window on the same bytes has all that is outside of it, and ends where it did.
LEMMA SameViewKeeps ==
  ASSUME NEW x, NEW v, SameView(x, v)
  PROVE  KeepsOutside(x, v) /\ (EndsBelow(x) => EndsBelow(v))
BY DEF SameView, KeepsOutside, EndsBelow


\* What a read does.
ReadKeeps(x, n, o) ==
  /\ Kept(x, o) /\ o.out \in Bytes
  /\ x.kind # "compressed" => Content(o.r) = Content(x)
  /\ InStep(x) /\ ~(x.kind = "block" /\ o.thrown) => InStep(o.r)
  /\ InStep(x) /\ Streaming(x) => Reads(x, n, o) \/ Breaks(x, o)

\* A read, of any reader.
LEMMA AnyRead ==
  ASSUME NEW x, Shape(x), NEW n \in Nat, NEW io \in Seq(Outcomes)
  PROVE  ReadKeeps(x, n, read(x, n, io))
<1> DEFINE o == read(x, n, io)
           c == Content(x)
           p == getpos(x)
           k == Min2(n, Left(x))
<1>1. ASSUME InStep(x), Streaming(x), Reads(x, n, o) PROVE o.out \in Bytes
  <2>1. c \in Bytes /\ Len(c) \in Nat /\ p \in Nat /\ p <= Len(c)
    BY <1>1, Positions DEF Streaming
  <2>2. k \in Nat /\ p + k <= Len(c)
    BY <2>1 DEF Left, Min2
  <2>3. o.out = SubSeq(c, p + 1, p + k)
    BY <1>1 DEF Reads
  <2> HIDE DEF c, p, k, o
  <2>4. o.out \in Bytes
    BY <2>1, <2>2, <2>3, Part
  <2>5. QED
    BY <2>4 DEF o
<1>2. CASE GoodMemory(x)
  <2>1. Reads(x, n, o) /\ GoodMemory(o.r)
    BY <1>2, MemoryStream
  <2>2. x.kind \in MemoryKinds /\ x.kind \notin WindowKinds /\ x.kind # "compressed"
    BY <1>2 DEF GoodMemory, MemoryKinds, WindowKinds
  <2>3. InStep(x) /\ InStep(o.r)
    BY <1>2, <2>1, AlwaysInStep
  <2>4. Streaming(x)
    BY <1>2, <2>2 DEF Streaming, Shape, EndsBelow, WindowKinds
  <2>5. o.out \in Bytes
    BY <1>1, <2>1, <2>3, <2>4
  <2> HIDE DEF o
  <2>6. o.r.kind = x.kind /\ Content(o.r) = Content(x)
    BY <2>1 DEF Reads, SameStream
  <2>7. Kept(x, o)
    BY <2>1, <2>2, <2>6, NoWindow DEF Shape
  <2>8. ReadKeeps(x, n, o)
    BY <2>1, <2>3, <2>5, <2>6, <2>7 DEF ReadKeeps
  <2>9. QED
    BY <2>8 DEF o
<1>3. CASE WindowShape(x)
  <2>1. WindowShape(o.r) /\ SameView(x, o.r) /\ o.out \in Bytes /\ (Inside(x) => Inside(o.r))
    BY <1>3, ShapeRead
  <2>2. InStep(x) => GoodWindow(o.r) /\ (EndsBelow(x) => Reads(x, n, o))
    BY <1>3, WindowStep, WindowRead
  <2> HIDE DEF o
  <2>3. Kept(x, o)
    BY <2>1, SameViewKeeps DEF Kept, Shape, SameView
  <2>4. Content(o.r) = Content(x)
    BY <1>3, <2>1, SameViewContent
  <2>5. InStep(x) => InStep(o.r)
    BY <2>2, WindowStep
  <2>6. ReadKeeps(x, n, o)
    BY <2>1, <2>2, <2>3, <2>4, <2>5 DEF ReadKeeps, Streaming
  <2>7. QED
    BY <2>6 DEF o
<1>4. CASE FileShape(x)
  <2>1. FileShape(o.r) /\ o.r.kind = x.kind /\ Content(o.r) = Content(x) /\ o.out \in Bytes
        /\ (GoodFile(x) => GoodFile(o.r) /\ (Reads(x, n, o) \/ Breaks(x, o)))
    BY <1>4, FileRead
  <2> HIDE DEF o
  <2>2. x.kind \notin WindowKinds
    BY <1>4 DEF FileShape, WindowKinds
  <2>3. Kept(x, o)
    BY <2>1, <2>2, NoWindow DEF Shape
  <2>4. InStep(x) => InStep(o.r) /\ (Reads(x, n, o) \/ Breaks(x, o))
    BY <1>4, <2>1, FileStep
  <2>5. ReadKeeps(x, n, o)
    BY <2>1, <2>3, <2>4 DEF ReadKeeps
  <2>6. QED
    BY <2>5 DEF o
<1>5. CASE x \in Blocks
  <2>1. o.r \in Blocks /\ o.r.dev = x.dev /\ o.out \in Bytes /\ o.thrown \in BOOLEAN
        /\ (GoodBlock(x) => IF o.thrown THEN Breaks(x, o) ELSE GoodBlock(o.r) /\ Reads(x, n, o))
    BY <1>5, BlockRead
  <2> HIDE DEF o
  <2>2. x.kind = "block" /\ o.r.kind = "block" /\ x.kind \notin WindowKinds
    BY <1>5, <2>1 DEF Blocks, WindowKinds
  <2>3. Kept(x, o)
    BY <2>1, <2>2, NoWindow DEF Shape
  <2>4. Content(o.r) = Content(x)
    BY <1>5, <2>1, SameDevice
  <2>5. InStep(x) => IF o.thrown THEN Breaks(x, o) ELSE InStep(o.r) /\ Reads(x, n, o)
    BY <1>5, <2>1, BlockStep
  <2>6. ReadKeeps(x, n, o)
    BY <2>1, <2>2, <2>3, <2>4, <2>5 DEF ReadKeeps
  <2>7. QED
    BY <2>6 DEF o
<1>6. CASE GoodCompressed(x)
  <2>1. x.kind = "compressed"
    BY <1>6 DEF GoodCompressed, Inflaters
  <2>2. o = compressedread(x, n)
    BY <2>1, CompressedDispatch
  <2>3. GoodCompressed(o.r) /\ o.out \in Bytes
    BY <1>6, <2>2, CompressedRead
  <2> HIDE DEF o
  <2>4. o.r.kind = "compressed" /\ InStep(o.r)
    BY <2>3, AlwaysInStep DEF GoodCompressed, Inflaters
  <2>5. Kept(x, o)
    BY <2>1, <2>3, <2>4, NoWindow DEF Shape, WindowKinds
  <2>6. ReadKeeps(x, n, o)
    BY <2>1, <2>3, <2>4, <2>5 DEF ReadKeeps, Streaming
  <2>7. QED
    BY <2>6 DEF o
<1>7. QED
  BY <1>2, <1>3, <1>4, <1>5, <1>6 DEF Shape

\* What a write does.
WriteKeeps(x, o) ==
  /\ Kept(x, o)
  /\ x.kind # "compressed" /\ o.thrown => Content(o.r) = Content(x)
  /\ InStep(x) => InStep(o.r)
  /\ InStep(x) /\ Streaming(x) => Writes(x, o)

\* A call that is refused.
LEMMA Refused ==
  ASSUME NEW x, Shape(x), NEW o, o = Throws(x), x.kind \notin WindowKinds
  PROVE  Fails(x, o) /\ o.r = x /\ o.thrown /\ Kept(x, o)
<1>1. o.r = x /\ o.thrown /\ Fails(x, o)
  BY ThrowFails DEF Throws
<1>2. QED
  BY <1>1, NoWindow

\* A write, of any reader.
LEMMA AnyWrite ==
  ASSUME NEW x, Shape(x), NEW p \in Bytes
  PROVE  WriteKeeps(x, write(x, p))
<1> DEFINE o == write(x, p)
<1>1. CASE GoodMemory(x)
  <2>1. Writes(x, o) /\ GoodMemory(o.r)
    BY <1>1, MemoryStream
  <2>2. x.kind \notin WindowKinds
    BY <1>1 DEF GoodMemory, MemoryKinds, WindowKinds
  <2> HIDE DEF o
  <2>3. o.r.kind = x.kind /\ (o.thrown => Content(o.r) = Content(x))
    BY <2>1 DEF Writes, Fails, SameStream
  <2>4. Kept(x, o)
    BY <2>1, <2>2, <2>3, NoWindow DEF Shape
  <2>5. InStep(o.r)
    BY <2>1, AlwaysInStep
  <2>6. WriteKeeps(x, o)
    BY <2>1, <2>3, <2>4, <2>5 DEF WriteKeeps
  <2>7. QED
    BY <2>6 DEF o
<1>2. CASE FileShape(x)
  <2>1. FileShape(o.r) /\ Writes(x, o) /\ (GoodFile(x) => GoodFile(o.r))
    BY <1>2, FileWrite
  <2>2. x.kind \notin WindowKinds
    BY <1>2 DEF FileShape, WindowKinds
  <2> HIDE DEF o
  <2>3. o.r.kind = x.kind /\ (o.thrown => Content(o.r) = Content(x))
    BY <2>1 DEF Writes, Fails, SameStream
  <2>4. Kept(x, o)
    BY <2>1, <2>2, <2>3, NoWindow DEF Shape
  <2>5. InStep(x) => InStep(o.r)
    BY <1>2, <2>1, FileStep
  <2>6. WriteKeeps(x, o)
    BY <2>1, <2>3, <2>4, <2>5 DEF WriteKeeps
  <2>7. QED
    BY <2>6 DEF o
<1>3. CASE WindowShape(x)
  <2>1. /\ WindowShape(o.r) /\ o.r.kind = x.kind /\ (EndsBelow(x) => EndsBelow(o.r))
        /\ o.thrown => o.r = x
        /\ Inside(x) => Inside(o.r) /\ KeepsOutside(x, o.r)
    BY <1>3, ShapeWrite
  <2>2. InStep(x) => GoodWindow(o.r) /\ (EndsBelow(x) => Writes(x, o))
    BY <1>3, WindowStep, WindowWrite
  <2> HIDE DEF o
  <2>3. Kept(x, o)
    BY <2>1 DEF Kept, Shape
  <2>4. InStep(x) => InStep(o.r)
    BY <2>2, WindowStep
  <2>5. WriteKeeps(x, o)
    BY <2>1, <2>2, <2>3, <2>4 DEF WriteKeeps, Streaming
  <2>6. QED
    BY <2>5 DEF o
<1>4. CASE x \in Blocks \/ GoodCompressed(x)
  <2>1. x.kind \in {"block", "compressed"} /\ x.kind \notin WindowKinds
    BY <1>4 DEF Blocks, GoodCompressed, Inflaters, WindowKinds
  <2>2. o = Throws(x)
    BY <2>1 DEF write, Memory, IsWindow
  <2> HIDE DEF o
  <2>3. Fails(x, o) /\ o.r = x /\ Kept(x, o)
    BY <2>1, <2>2, Refused
  <2>4. WriteKeeps(x, o)
    BY <2>3 DEF WriteKeeps, Writes
  <2>5. QED
    BY <2>4 DEF o
<1>5. QED
  BY <1>1, <1>2, <1>3, <1>4 DEF Shape

\* A range that has moved and goes back to its start: only the reader below moves.
Rewinds(x, o) == ~o.thrown /\ o.out = <<>> /\ SameStream(x, o.r, getpos(x))

\* What setpos() does.
SetPosKeeps(x, off, o) ==
  /\ Kept(x, o)
  /\ x.kind # "compressed" => Content(o.r) = Content(x)
  /\ InStep(x) /\ ~(x.kind = "range" /\ ~o.thrown /\ x.pos # x.base) => InStep(o.r)
  /\ x.kind \in {"offset", "file"} => InStep(o.r)
  /\ InStep(x) /\ Streaming(x) =>
       (InStep(o.r) /\ SetsPos(x, off, o)) \/ Fails(x, o) \/ Rewinds(x, o)

\* setpos(), of any reader, within what it shows.
LEMMA AnySetPos ==
  ASSUME NEW x, Shape(x), NEW off \in 0..Len(Content(x))
  PROVE  SetPosKeeps(x, off, setpos(x, off))
<1> DEFINE o == setpos(x, off)
<1>1. CASE GoodMemory(x)
  <2>1. Content(x) = Held(x) /\ Len(Held(x)) = x.size
    BY <1>1, MemoryDispatch, HeldFacts DEF GoodMemory
  <2>2. SetsPos(x, off, o) /\ GoodMemory(o.r)
    BY <1>1, <2>1, MemoryStream
  <2>3. x.kind \notin WindowKinds /\ x.kind \notin {"offset", "file"}
    BY <1>1 DEF GoodMemory, MemoryKinds, WindowKinds
  <2> HIDE DEF o
  <2>4. o.r.kind = x.kind /\ Content(o.r) = Content(x)
    BY <2>2 DEF SetsPos, Fails, SameStream
  <2>5. Kept(x, o) /\ InStep(o.r)
    BY <2>2, <2>3, <2>4, NoWindow, AlwaysInStep DEF Shape
  <2>6. SetPosKeeps(x, off, o)
    BY <2>2, <2>3, <2>4, <2>5 DEF SetPosKeeps
  <2>7. QED
    BY <2>6 DEF o
<1>2. CASE FileShape(x)
  <2>1. SetsPos(x, off, o) /\ GoodFile(o.r)
    BY <1>2, FileSetPos
  <2>2. x.kind \notin WindowKinds
    BY <1>2 DEF FileShape, WindowKinds
  <2> HIDE DEF o
  <2>3. o.r.kind = x.kind /\ Content(o.r) = Content(x)
    BY <2>1 DEF SetsPos, Fails, SameStream
  <2>4. FileShape(o.r) /\ InStep(o.r)
    BY <2>1, FileStep
  <2>5. Kept(x, o)
    BY <2>2, <2>3, <2>4, NoWindow DEF Shape
  <2>6. SetPosKeeps(x, off, o)
    BY <2>1, <2>3, <2>4, <2>5 DEF SetPosKeeps
  <2>7. QED
    BY <2>6 DEF o
<1>3. CASE x \in Blocks
  <2>1. o.r \in Blocks /\ SetsPos(x, off, o) /\ (GoodBlock(x) => GoodBlock(o.r))
    BY <1>3, BlockSetPos
  <2>2. x.kind \notin WindowKinds /\ x.kind \notin {"offset", "file"}
    BY <1>3 DEF Blocks, WindowKinds
  <2> HIDE DEF o
  <2>3. o.r.kind = x.kind /\ Content(o.r) = Content(x)
    BY <2>1 DEF SetsPos, Fails, SameStream
  <2>4. Kept(x, o)
    BY <2>1, <2>2, <2>3, NoWindow DEF Shape
  <2>5. InStep(x) => InStep(o.r)
    BY <1>3, <2>1, BlockStep
  <2>6. SetPosKeeps(x, off, o)
    BY <2>1, <2>2, <2>3, <2>4, <2>5 DEF SetPosKeeps
  <2>7. QED
    BY <2>6 DEF o
<1>4. CASE WindowShape(x)
  <2>1. off \in 0..long(x)
    BY <1>4, WindowLength
  <2>2. /\ WindowShape(o.r) /\ SameView(x, o.r) /\ (Inside(x) => Inside(o.r))
        /\ o.thrown => o.r = x /\ x.kind = "range"
        /\ ~o.thrown => o.out = <<>>
        /\ ~o.thrown /\ ~(x.kind = "range" /\ x.pos # x.base) => GoodWindow(o.r) /\ getpos(o.r) = off
        /\ ~o.thrown /\ x.kind = "range" => o.r.pos = x.pos
    BY <1>4, <2>1, WindowSetPos
  <2> HIDE DEF o
  <2>3. Kept(x, o) /\ o.r.kind = x.kind
    BY <2>2, SameViewKeeps DEF Kept, Shape, SameView
  <2>4. Content(o.r) = Content(x)
    BY <1>4, <2>2, SameViewContent
  <2>5. CASE o.thrown
    <3>1. Fails(x, o) /\ o.r = x /\ x.kind = "range"
      BY <2>2, <2>5 DEF Fails, SameStream
    <3>2. SetPosKeeps(x, off, o)
      BY <2>3, <2>4, <3>1 DEF SetPosKeeps
    <3>3. QED
      BY <3>2 DEF o
  <2>6. CASE ~o.thrown /\ ~(x.kind = "range" /\ x.pos # x.base)
    <3>1. InStep(o.r) /\ SetsPos(x, off, o)
      BY <2>2, <2>3, <2>4, <2>6, WindowStep DEF SetsPos, SameStream
    <3>2. SetPosKeeps(x, off, o)
      BY <2>3, <2>4, <3>1 DEF SetPosKeeps
    <3>3. QED
      BY <3>2 DEF o
  <2>7. CASE ~o.thrown /\ x.kind = "range" /\ x.pos # x.base
    <3>1. getpos(x) = x.pos /\ getpos(o.r) = o.r.pos
      BY <2>3, <2>7 DEF getpos, IsWindow, wgetpos
    <3>2. Rewinds(x, o)
      BY <2>2, <2>3, <2>4, <2>7, <3>1 DEF Rewinds, SameStream
    <3>3. SetPosKeeps(x, off, o)
      BY <2>3, <2>4, <2>7, <3>2 DEF SetPosKeeps
    <3>4. QED
      BY <3>3 DEF o
  <2>8. QED
    BY <2>5, <2>6, <2>7
<1>5. CASE GoodCompressed(x)
  <2>1. x.kind = "compressed" /\ off \in Nat
    BY <1>5 DEF GoodCompressed, Inflaters
  <2>2. o = compressedsetpos(x, off)
    BY <2>1, CompressedDispatch
  <2>3. GoodCompressed(o.r)
    BY <1>5, <2>1, <2>2, CompressedSetPos
  <2> HIDE DEF o
  <2>4. o.r.kind = x.kind /\ InStep(o.r)
    BY <2>1, <2>3, AlwaysInStep DEF GoodCompressed, Inflaters
  <2>5. Kept(x, o)
    BY <2>1, <2>3, <2>4, NoWindow DEF Shape, WindowKinds
  <2>6. SetPosKeeps(x, off, o)
    BY <2>1, <2>4, <2>5 DEF SetPosKeeps, Streaming
  <2>7. QED
    BY <2>6 DEF o
<1>6. QED
  BY <1>1, <1>2, <1>3, <1>4, <1>5 DEF Shape

\* A file that was read to its end and is made longer.
Lengthened(x, o) == x.kind = "file" /\ ~o.thrown /\ x.feof /\ o.out > x.pos

\* What truncate() does.
TruncateKeeps(x, off, o) ==
  /\ Kept(x, o)
  /\ x.kind # "compressed" /\ o.thrown => Content(o.r) = Content(x)
  /\ InStep(x) /\ ~Lengthened(x, o) => InStep(o.r)
  /\ InStep(x) /\ Streaming(x) => Truncates(x, off, o)

\* truncate(), of any reader, not before the position.
LEMMA AnyTruncate ==
  ASSUME NEW x, Shape(x), NEW off \in Nat, getpos(x) <= off, ~IsWindow(x.kind),
         x.kind \in {"memory", "mmap"} => off <= Len(x.mem),
         x.kind = "mmap" => 2 * off >= Len(x.mem)
  PROVE  TruncateKeeps(x, off, truncate(x, off))
<1> DEFINE o == truncate(x, off)
<1>w. x.kind \notin WindowKinds
  BY DEF IsWindow, WindowKinds
<1>1. CASE GoodMemory(x)
  <2>1. /\ x.pos <= off /\ (x.kind # "vector" => off <= Len(x.mem))
        /\ (x.kind = "mmap" => Len(x.mem) <= 2 * off)
    <3>1. getpos(x) = x.pos /\ x.kind \in MemoryKinds
      BY <1>1, MemoryDispatch DEF GoodMemory
    <3>2. Len(x.mem) \in Nat
      BY <1>1, LenProperties DEF GoodMemory, Bytes
    <3>3. QED
      BY <3>1, <3>2 DEF MemoryKinds
  <2> HIDE DEF o
  <2>2. Truncates(x, off, truncate(x, off)) /\ GoodMemory(truncate(x, off).r)
    BY <1>1, <2>1, MemoryStream
  <2>3. Truncates(x, off, o) /\ GoodMemory(o.r)
    BY <2>2 DEF o
  <2>4. o.r.kind = x.kind /\ (o.thrown => Content(o.r) = Content(x))
    BY <2>3 DEF Truncates, Fails, SameStream
  <2>5. Kept(x, o) /\ InStep(o.r)
    BY <1>w, <2>3, <2>4, NoWindow, AlwaysInStep DEF Shape
  <2>6. TruncateKeeps(x, off, o)
    BY <2>3, <2>4, <2>5 DEF TruncateKeeps
  <2>7. QED
    BY <2>6 DEF o
<1>2. CASE FileShape(x)
  <2>1. /\ FileShape(o.r) /\ Truncates(x, off, o)
        /\ GoodFile(x) /\ ~(x.feof /\ off > x.pos /\ ~o.thrown) => GoodFile(o.r)
        /\ o.thrown => Content(o.r) = Content(x)
    BY <1>2, FileTruncate
  <2> HIDE DEF o
  <2>2. o.r.kind = x.kind /\ (~o.thrown => o.out = off)
    BY <2>1 DEF Truncates, Fails, SameStream
  <2>3. Kept(x, o)
    BY <1>w, <2>1, <2>2, NoWindow DEF Shape
  <2>4. x.kind = "file"
    BY <1>2 DEF FileShape
  <2>5. InStep(x) /\ ~Lengthened(x, o) => InStep(o.r)
    BY <1>2, <2>1, <2>2, <2>4, FileStep DEF Lengthened
  <2>6. TruncateKeeps(x, off, o)
    BY <2>1, <2>3, <2>5 DEF TruncateKeeps
  <2>7. QED
    BY <2>6 DEF o
<1>3. CASE x \in Blocks \/ GoodCompressed(x)
  <2>1. x.kind \in {"block", "compressed"}
    BY <1>3 DEF Blocks, GoodCompressed, Inflaters
  <2>2. o = Throws(x)
    BY <2>1 DEF truncate, Memory
  <2> HIDE DEF o
  <2>3. Fails(x, o) /\ o.r = x /\ Kept(x, o)
    BY <1>w, <2>2, Refused
  <2>4. TruncateKeeps(x, off, o)
    BY <2>3 DEF TruncateKeeps, Truncates
  <2>5. QED
    BY <2>4 DEF o
<1>4. CASE WindowShape(x)
  BY <1>4, <1>w, UnderShape
<1>5. QED
  BY <1>1, <1>2, <1>3, <1>4 DEF Shape

\* What size() does.
SizeKeeps(x, o) ==
  /\ Kept(x, o)
  /\ InStep(o.r) = InStep(x)
  /\ x.kind # "compressed" => Counts(x, o)

\* size(), of any reader.
LEMMA AnySize ==
  ASSUME NEW x, Shape(x)
  PROVE  SizeKeeps(x, size(x))
<1> DEFINE o == size(x)
<1>1. CASE GoodMemory(x)
  <2>1. Counts(x, o) /\ GoodMemory(o.r)
    BY <1>1, MemoryStream
  <2>2. x.kind \notin WindowKinds
    BY <1>1 DEF GoodMemory, MemoryKinds, WindowKinds
  <2> HIDE DEF o
  <2>3. o.r.kind = x.kind /\ Shape(o.r)
    BY <2>1 DEF Counts, Fails, SameStream, Shape
  <2>4. InStep(o.r) <=> InStep(x)
    BY <1>1, <2>1, AlwaysInStep
  <2>5. InStep(o.r) = InStep(x)
    BY <2>3, <2>4, StepBoolean
  <2>6. SizeKeeps(x, o)
    BY <2>1, <2>2, <2>3, <2>5, NoWindow DEF SizeKeeps
  <2>7. QED
    BY <2>6 DEF o
<1>2. CASE FileShape(x)
  <2>1. FileShape(o.r) /\ Counts(x, o) /\ (GoodFile(x) <=> GoodFile(o.r))
    BY <1>2, FileSize
  <2>2. x.kind \notin WindowKinds
    BY <1>2 DEF FileShape, WindowKinds
  <2> HIDE DEF o
  <2>3. o.r.kind = x.kind /\ Shape(o.r)
    BY <2>1 DEF Counts, Fails, SameStream, Shape
  <2>4. InStep(o.r) <=> InStep(x)
    BY <1>2, <2>1, FileStep
  <2>5. InStep(o.r) = InStep(x)
    BY <2>3, <2>4, StepBoolean
  <2>6. SizeKeeps(x, o)
    BY <2>1, <2>2, <2>3, <2>5, NoWindow DEF SizeKeeps
  <2>7. QED
    BY <2>6 DEF o
<1>3. CASE WindowShape(x)
  <2>1. Counts(x, o) /\ o.r = x
    BY <1>3, WindowSize
  <2> HIDE DEF o
  <2>2. Kept(x, o)
    BY <2>1, SameViewKeeps DEF Kept, SameView
  <2>3. SizeKeeps(x, o)
    BY <2>1, <2>2 DEF SizeKeeps
  <2>4. QED
    BY <2>3 DEF o
<1>4. CASE x \in Blocks
  <2>1. Counts(x, o) /\ o.r = x
    BY <1>4, BlockOthers
  <2>2. x.kind \notin WindowKinds
    BY <1>4 DEF Blocks, WindowKinds
  <2> HIDE DEF o
  <2>3. SizeKeeps(x, o)
    BY <2>1, <2>2, NoWindow DEF SizeKeeps
  <2>4. QED
    BY <2>3 DEF o
<1>5. CASE GoodCompressed(x)
  <2>1. x.kind = "compressed" /\ x.kind \notin WindowKinds
    BY <1>5 DEF GoodCompressed, Inflaters, WindowKinds
  <2>2. o = Throws(x)
    BY <2>1, CompressedDispatch
  <2> HIDE DEF o
  <2>3. o.r = x /\ Kept(x, o)
    BY <2>1, <2>2, Refused
  <2>4. SizeKeeps(x, o)
    BY <2>1, <2>3 DEF SizeKeeps
  <2>5. QED
    BY <2>4 DEF o
<1>6. QED
  BY <1>1, <1>2, <1>3, <1>4, <1>5 DEF Shape



\* What the constructors of a reader of memory make, and where it is moved to.
LEMMA MemoryMade ==
  ASSUME NEW m, NEW at \in Nat, MemoryAt(m, at), m.kind \in MemoryKinds, at <= Len(m.mem)
  PROVE  /\ GoodMemory(m) /\ m.pos = at /\ m.size = Len(m.mem) /\ m.size \in Nat
         /\ m.kind = "memory" => m \in Memories
<1> DEFINE k == m.kind
           s == m.mem
           b == m.readonly
           g == k \in {"vector", "mmap"}
           l == Len(s)
           z == [kind |-> k, mem |-> s, size |-> l, pos |-> 0, growable |-> g, readonly |-> b]
           y == [z EXCEPT !.pos = at]
<1>1. m = y /\ s \in Seq(0..255) /\ b \in BOOLEAN /\ k \in MemoryKinds /\ at <= l
  BY DEF MemoryAt, MemoryReader, msetpos, Done
<1>2. s \in Bytes /\ l \in Nat
  <2>1. 0..255 \subseteq Nat
    OBVIOUS
  <2>2. s \in Seq(Nat)
    BY <1>1, <2>1, SeqMonotonic
  <2>3. QED
    BY <2>2, LenProperties DEF Bytes
<1>3. g \in BOOLEAN /\ (g <=> k # "memory") /\ l = Len(s)
  BY <1>1 DEF MemoryKinds
<1>k. k = m.kind
  OBVIOUS
<1> HIDE DEF k, s, b, g, l
<1>4. /\ y \in [kind : MemoryKinds, mem : Bytes, size : Nat, pos : Nat, growable : BOOLEAN,
                readonly : BOOLEAN]
      /\ y.kind = k /\ y.mem = s /\ y.size = l /\ y.pos = at /\ y.growable = g
  BY <1>1, <1>2, <1>3
<1> HIDE DEF y
<1>5. GoodMemory(y)
  BY <1>1, <1>2, <1>3, <1>4 DEF GoodMemory
<1>6. y.kind = "memory" => y \in Memories
  <2>1. y.size = Len(y.mem)
    BY <1>3, <1>4
  <2>2. QED
    BY <1>5, <2>1 DEF Memories, GoodMemory
<1>7. QED
  BY <1>1, <1>2, <1>3, <1>4, <1>5, <1>6

\* What the constructors make has its shape.
LEMMA ConstructedGood ==
  ASSUME NEW x, Constructed(x)
  PROVE  Shape(x)
<1>1. \A s \in Seq(0..255) : s \in Bytes /\ Len(s) \in Nat
  <2>1. 0..255 \subseteq Nat
    OBVIOUS
  <2>2. \A s \in Seq(0..255) : s \in Seq(Nat)
    BY <2>1, SeqMonotonic
  <2>3. QED
    BY <2>2, LenProperties DEF Bytes
<1>3. CASE Memory(x.kind) /\ MemoryAt(x, 0)
  <2>1. x.kind \in MemoryKinds /\ Len(x.mem) \in Nat /\ 0 \in Nat
    BY <1>1, <1>3 DEF Memory, MemoryKinds, MemoryAt
  <2>2. 0 <= Len(x.mem)
    BY <2>1
  <2>3. GoodMemory(x)
    BY <1>3, <2>1, <2>2, MemoryMade
  <2>4. QED
    BY <2>3 DEF Shape
<1>4. CASE /\ IsWindow(x.kind)
           /\ x.base \in Nat /\ x.size \in Nat
           /\ x.under.kind = "memory" /\ \E pos \in 0..x.under.size : MemoryAt(x.under, pos)
           /\ x.base + x.size <= x.under.size
           /\ x = Window(x.kind, x.under, x.base, x.size)
  <2> DEFINE k == x.kind
             u == x.under
             at == x.base
             z == x.size
             v == IF k = "checked" THEN [u EXCEPT !.pos = at] ELSE u
             p == IF k = "range" THEN at ELSE 0
             w == [kind |-> k, under |-> v, base |-> at, size |-> z, pos |-> p]
  <2>1. k \in WindowKinds /\ at \in Nat /\ z \in Nat /\ u.kind = "memory"
    BY <1>4 DEF IsWindow, WindowKinds
  <2>2. x = w
    BY <1>4 DEF Window, msetpos, Done
  <2>3. PICK q \in 0..u.size : MemoryAt(u, q)
    BY <1>4
  <2>4. u.size = Len(u.mem) /\ Len(u.mem) \in Nat
    <3>1. u.mem \in Seq(0..255) /\ u.size = Len(u.mem)
      BY <2>3 DEF MemoryAt, MemoryReader, msetpos, Done
    <3>2. QED
      BY <1>1, <3>1
  <2>5. at + z <= u.size
    BY <1>4
  <2> HIDE DEF k, u, at, z
  <2>6. u \in Memories /\ "memory" \in MemoryKinds
    <3>1. "memory" \in MemoryKinds
      BY DEF MemoryKinds
    <3>2. q \in Nat /\ q <= Len(u.mem)
      BY <2>3, <2>4
    <3>3. QED
      BY <2>1, <2>3, <3>1, <3>2, MemoryMade
  <2>7. k = "checked" => v \in Memories /\ v.pos = at /\ v.mem = u.mem
    <3> SUFFICES ASSUME k = "checked" PROVE v \in Memories /\ v.pos = at /\ v.mem = u.mem
      OBVIOUS
    <3>1. v = [u EXCEPT !.pos = at]
      OBVIOUS
    <3>2. at <= Len(u.mem)
      BY <2>1, <2>4, <2>5
    <3> HIDE DEF v
    <3>3. /\ u \in [kind : {"memory"}, mem : Bytes, size : Nat, pos : Nat, growable : BOOLEAN,
                    readonly : BOOLEAN]
      BY <2>6 DEF Memories
    <3>4. /\ v \in [kind : {"memory"}, mem : Bytes, size : Nat, pos : Nat, growable : BOOLEAN,
                    readonly : BOOLEAN]
          /\ v.pos = at /\ v.mem = u.mem /\ v.size = u.size /\ v.growable = u.growable
          /\ v.kind = u.kind
      BY <2>1, <3>1, <3>3
    <3>5. GoodMemory(v)
      BY <2>1, <2>4, <2>6, <3>2, <3>4 DEF Memories, GoodMemory
    <3>6. QED
      BY <2>4, <3>4, <3>5 DEF Memories
  <2>8. v \in Memories /\ v.mem = u.mem /\ (k = "checked" => v.pos = at)
    BY <2>6, <2>7
  <2>9. p \in Nat /\ p = IF k = "range" THEN at ELSE 0
    BY <2>1
  <2> HIDE DEF p, v
  <2>10. /\ w \in [kind : WindowKinds, under : Memories, base : Nat, size : Nat, pos : Nat]
         /\ w.kind = k /\ w.under = v /\ w.base = at /\ w.size = z /\ w.pos = p
    BY <2>1, <2>8, <2>9
  <2> HIDE DEF w
  <2>11. WindowShape(w)
    BY <2>1, <2>4, <2>5, <2>8, <2>9, <2>10 DEF WindowShape
  <2>12. QED
    BY <2>2, <2>11 DEF Shape
<1>5. CASE /\ x.kind = "file" /\ x = File(x.disk, x.readonly)
           /\ x.disk \in Seq(0..255) /\ x.readonly \in BOOLEAN
  <2> DEFINE s == x.disk
             b == x.readonly
             e == FALSE
             st == IF b THEN "READING" ELSE "FLUSHED"
             f == [kind |-> "file", disk |-> s, wbuf |-> <<>>, pos |-> 0, feof |-> e, ferr |-> e,
                   state |-> st, readonly |-> b]
  <2>1. x = f
    BY <1>5 DEF File
  <2>2. s \in Bytes /\ Len(s) \in Nat /\ b \in BOOLEAN /\ e \in BOOLEAN
    BY <1>1, <1>5
  <2>3. st \in {"READING", "WRITING", "FLUSHED"} /\ <<>> \in Bytes /\ Len(<<>>) = 0
    BY EmptySeq DEF Bytes
  <2> HIDE DEF s, b, e, st
  <2>4. /\ f \in [kind : {"file"}, disk : Bytes, wbuf : Bytes, pos : Nat, feof : BOOLEAN,
                  ferr : BOOLEAN, state : {"READING", "WRITING", "FLUSHED"}, readonly : BOOLEAN]
        /\ f.wbuf = <<>> /\ f.pos = 0 /\ f.disk = s
    BY <2>2, <2>3
  <2> HIDE DEF f
  <2>5. FileShape(f)
    BY <2>2, <2>3, <2>4 DEF FileShape
  <2>6. QED
    BY <2>1, <2>5 DEF Shape
<1>6. CASE x.kind = "block" /\ x = Device(x.dev) /\ x.dev \in Seq(0..255)
  <2> DEFINE s == x.dev
             b == [kind |-> "block", dev |-> s, pos |-> 0, bufferpos |-> 0, buffer |-> <<>>]
  <2>1. x = b
    BY <1>6 DEF Device
  <2>2. s \in Bytes
    BY <1>1, <1>6
  <2>3. <<>> \in Bytes
    BY EmptySeq DEF Bytes
  <2> HIDE DEF s
  <2>4. b \in Blocks
    BY <2>2, <2>3 DEF Blocks
  <2>5. QED
    BY <2>1, <2>4 DEF Shape
<1>7. CASE x.kind = "compressed" /\ x = Compressed(x.src) /\ x.src \in Seq(Nat \cup {-1})
  <2> DEFINE s == x.src
             e == FALSE
             z == [kind |-> "compressed", src |-> s, in |-> <<>>, due |-> 0, ended |-> e,
                   out |-> <<>>, tail |-> 0, next |-> 1, pos |-> 0, eof |-> e]
  <2>1. x = z
    BY <1>7 DEF Compressed
  <2>2. s \in Pieces /\ e \in BOOLEAN
    BY <1>7 DEF Pieces
  <2>3. <<>> \in Bytes /\ Len(<<>>) = 0 /\ <<>> \in Pieces
    BY EmptySeq DEF Bytes, Pieces
  <2> HIDE DEF s, e
  <2>4. z \in Inflaters /\ z.out = <<>> /\ z.tail = 0 /\ z.next = 1 /\ z.pos = 0
    BY <2>2, <2>3 DEF Inflaters
  <2> HIDE DEF z
  <2>5. OutSize \in Nat
    BY SizeAssumption
  <2>6. GoodCompressed(z)
    BY <2>3, <2>4, <2>5 DEF GoodCompressed
  <2>7. QED
    BY <2>1, <2>6 DEF Shape
<1>8. QED
  BY <1>3, <1>4, <1>5, <1>6, <1>7 DEF Constructed

-----------------------------------------------------------------------------
(* The calls. *)

\* What copyto() writes to.
Targets == {m \in [kind : {"memory", "vector"}, mem : Bytes, size : Nat, pos : Nat,
                   growable : BOOLEAN, readonly : BOOLEAN] : GoodMemory(m)}
Copies == [on : BOOLEAN, from : Int, sure : BOOLEAN, size : Int, got : Bytes, dest : Targets,
           failed : BOOLEAN]

\* The destination d has the bytes got, as far as it can take them.
Holds(d, got) ==
  /\ d.pos = Min2(Len(got), d.size)
  /\ SubSeq(Held(d), 1, d.pos) = SubSeq(got, 1, d.pos)
  /\ d.kind = "vector" => d.pos = Len(got)

\* A copy that goes on has not got all of its size, and one that has not
\* failed has delivered what it got.
CopySane ==
  /\ copy \in Copies
  /\ copy.on => ~copy.failed
  /\ copy.on /\ copy.size # -1 => Len(copy.got) < copy.size
  /\ ~copy.failed => Holds(copy.dest, copy.got)

\* The inductive invariant, for readers of every kind, in step or not.
ReaderInv == Shape(r) /\ CopySane

\* How much a round of copyto() asks for.
Want == IF copy.size = -1 THEN CopyBuf ELSE Min2(copy.size - Len(copy.got), CopyBuf)

\* A destination of copyto() is a reader of memory.
LEMMA TargetFacts ==
  ASSUME NEW d
  PROVE  d \in Targets <=> GoodMemory(d) /\ d.kind \in {"memory", "vector"}
<1>1. ASSUME GoodMemory(d), d.kind \in {"memory", "vector"} PROVE d \in Targets
  BY <1>1 DEF GoodMemory, Targets
<1>2. QED
  BY <1>1 DEF Targets

\* A destination that is new.
LEMMA TargetMade ==
  ASSUME NEW d, MemoryAt(d, 0), d.kind \in {"memory", "vector"}
  PROVE  d \in Targets /\ Holds(d, <<>>)
<1>1. Len(d.mem) \in Nat /\ <<>> \in Bytes /\ Len(<<>>) = 0
  BY EmptySeq, LenProperties DEF MemoryAt, Bytes
<1>2. 0 \in Nat /\ 0 <= Len(d.mem) /\ d.kind \in MemoryKinds
  BY <1>1 DEF MemoryKinds
<1>3. GoodMemory(d) /\ d.pos = 0 /\ d.size \in Nat
  BY <1>2, MemoryMade
<1>4. SubSeq(Held(d), 1, 0) = SubSeq(<<>>, 1, 0)
  <2> DEFINE h == Held(d)
  <2>1. h \in Bytes
    BY <1>3, HeldFacts
  <2> HIDE DEF h
  <2>2. SubSeq(h, 1, 0) = <<>> /\ SubSeq(<<>>, 1, 0) = <<>>
    BY <1>1, <2>1, SubSeqEmpty DEF Bytes
  <2>3. QED
    BY <2>2 DEF h
<1>5. Holds(d, <<>>)
  BY <1>1, <1>3, <1>4 DEF Holds, Min2
<1>6. QED
  BY <1>3, <1>5, TargetFacts

\* What is written to a destination follows what it has, as far as there is room.
LEMMA TargetWrite ==
  ASSUME NEW d \in Targets, NEW got \in Bytes, Holds(d, got), NEW p \in Bytes, ~d.readonly
  PROVE  LET o == mwrite(d, p) IN
         o.r \in Targets /\ o.thrown = FALSE /\ Holds(o.r, got \o p)
<1> DEFINE o == mwrite(d, p)
           q == o.out
           h == Held(d)
           e == Held(o.r)
           a == d.pos
           k == Len(q)
           t == Len(got)
           z == d.size
           y == o.r.size
           v == OverlayAt(h, a, q)
           w == got \o p
<1>1. GoodMemory(d) /\ d.kind \in {"memory", "vector"}
  BY TargetFacts
<1>2. /\ GoodMemory(o.r) /\ o.r.kind = d.kind /\ ~o.thrown
      /\ q \in Bytes /\ k <= Len(p) /\ o.r.pos = a + k
      /\ Overwritten(h, a, q, e)
      /\ q = SubSeq(p, 1, k)
      /\ d.kind = "vector" => k = Len(p)
      /\ d.kind = "memory" => /\ k = Min2(Len(p), z - a)
                              /\ o = Done(Written(d, q), q)
  BY <1>1, MemoryWrite
<1>3. o.thrown = FALSE
  BY <1>1 DEF mwrite, Done
<1>4. h \in Bytes /\ Len(h) = z /\ e \in Bytes /\ Len(e) = y
  BY <1>1, <1>2, HeldFacts
<1>5. a \in Nat /\ z \in Nat /\ a <= z /\ y \in Nat /\ a + k <= y /\ Len(p) \in Nat /\ t \in Nat /\ k \in Nat
  BY <1>1, <1>2, LenProperties DEF GoodMemory, Bytes
<1>6. d.kind = "memory" => y = z
  <2> SUFFICES ASSUME d.kind = "memory" PROVE y = z
    OBVIOUS
  <2>1. o.r = Written(d, q)
    BY <1>2 DEF Done
  <2> HIDE DEF o
  <2>2. Written(d, q).size = d.size
    BY <1>1 DEF Written, GoodMemory
  <2>3. QED
    BY <2>1, <2>2
<1>7. a = Min2(t, z) /\ SubSeq(h, 1, a) = SubSeq(got, 1, a) /\ (d.kind = "vector" => a = t)
  BY DEF Holds
<1>8. k > 0 => a = t
  <2>1. CASE d.kind = "vector"
    BY <1>7, <2>1
  <2>2. CASE d.kind = "memory"
    <3>1. k > 0 => a < z
      BY <1>2, <1>5, <2>2 DEF Min2
    <3>2. QED
      BY <1>5, <1>7, <3>1 DEF Min2
  <2>3. QED
    BY <1>1, <2>1, <2>2
<1>10. Len(v) <= y /\ SubSeq(e, 1, Len(v)) = v
  BY <1>2, <1>4 DEF Overwritten
<1>k. q = SubSeq(p, 1, k) /\ q \in Bytes /\ k <= Len(p) /\ k = Len(q) /\ t = Len(got)
      /\ o.r.pos = a + k
  BY <1>2
<1>v. v = OverlayAt(h, a, q)
  OBVIOUS
<1> HIDE DEF o, q, h, e, a, k, t, z, y, v
<1>y. a \in Nat /\ z \in Nat /\ a <= z /\ y \in Nat /\ a + k <= y /\ Len(p) \in Nat /\ t \in Nat
      /\ k \in Nat /\ k <= Len(p)
  BY <1>5, <1>k
<1>9. a + k = Min2(t + Len(p), y)
  <2> DEFINE l == Len(p)
  <2>1. d.kind = "vector" => k = l /\ a = t
    BY <1>2, <1>7
  <2>2. d.kind = "memory" => k = Min2(l, z - a) /\ y = z
    BY <1>2, <1>6
  <2>3. a = Min2(t, z) /\ l \in Nat
    BY <1>7, <1>y
  <2> HIDE DEF l
  <2>4. CASE d.kind = "vector"
    BY <1>y, <2>1, <2>3, <2>4 DEF Min2, l
  <2>5. CASE d.kind = "memory"
    BY <1>y, <2>2, <2>3, <2>5 DEF Min2, l
  <2>6. QED
    BY <1>1, <2>4, <2>5 DEF l
<1>a. a <= Len(h)
  BY <1>4, <1>5
<1>11. /\ v \in Bytes /\ Len(v) = (IF a + k > z THEN a + k ELSE z)
       /\ \A i \in 1..Len(v) : v[i] = IF a < i /\ i <= a + k THEN q[i - a] ELSE h[i]
  <2>1. /\ OverlayAt(h, a, q) \in Bytes
        /\ Len(OverlayAt(h, a, q)) = IF a + Len(q) > Len(h) THEN a + Len(q) ELSE Len(h)
        /\ \A i \in 1..Len(OverlayAt(h, a, q)) :
             OverlayAt(h, a, q)[i] = IF a < i /\ i <= a + Len(q) THEN q[i - a] ELSE h[i]
    <3>1. h \in Bytes /\ a \in Nat /\ a <= Len(h) /\ q \in Bytes
      BY <1>4, <1>y, <1>a, <1>k
    <3>2. QED
      BY ONLY <3>1, OverlayFacts
  <2>2. Len(q) = k /\ Len(h) = z /\ OverlayAt(h, a, q) = v
    BY <1>4, <1>k, <1>v
  <2>3. QED
    BY <2>1, <2>2
<1>12. w \in Bytes /\ Len(w) = t + Len(p) /\ (\A i \in 1..t : w[i] = got[i])
       /\ \A i \in 1..Len(p) : w[t + i] = p[i]
  BY <1>k, Join
<1> HIDE DEF w
<1>13. a <= t /\ a + k <= Len(v) /\ a + k <= Len(w) /\ Len(v) \in Nat
  <2>1. a <= t
    BY <1>y, <1>7 DEF Min2
  <2>2. a + k <= t + Len(p)
    BY <1>y, <1>8, <2>1
  <2>3. a + k <= Len(v) /\ Len(v) \in Nat
    <3> DEFINE m == Len(v)
    <3>1. m = IF a + k > z THEN a + k ELSE z
      BY <1>11
    <3> HIDE DEF m
    <3>2. a + k <= m /\ m \in Nat
      BY <1>y, <3>1
    <3>3. QED
      BY <3>2 DEF m
  <2>4. QED
    BY <1>12, <2>1, <2>2, <2>3
<1>14. \A i \in 1..(a + k) : e[i] = w[i]
  <2> TAKE i \in 1..(a + k)
  <2>1. i \in 1..Len(v) /\ i \in Nat /\ i >= 1 /\ i <= a + k
    BY <1>5, <1>13
  <2>2. e[i] = v[i]
    BY <1>4, <1>10, <1>13, <2>1, Start
  <2>3. CASE i <= a
    <3>1. v[i] = h[i]
      BY <1>5, <1>11, <2>1, <2>3
    <3>2. i \in 1..a
      BY <1>5, <2>1, <2>3
    <3>3. h[i] = SubSeq(h, 1, a)[i]
      BY <1>4, <1>5, <3>2, Start
    <3>4. got[i] = SubSeq(got, 1, a)[i]
      BY <1>5, <1>13, <1>k, <3>2, Start
    <3>5. w[i] = got[i]
      <4>1. i \in 1..t
        BY <1>5, <1>13, <3>2
      <4>2. QED
        BY <1>12, <4>1
    <3>6. QED
      BY <1>7, <2>2, <3>1, <3>3, <3>4, <3>5
  <2>4. CASE i > a
    <3> DEFINE j == i - a
    <3>1. j \in 1..k /\ j \in 1..Len(p) /\ i = a + j /\ k > 0
      BY <1>5, <1>k, <2>1, <2>4
    <3>2. v[i] = q[j]
      BY <1>5, <1>11, <2>1, <2>4
    <3> HIDE DEF j
    <3>3. q[j] = p[j]
      BY <1>5, <1>k, <3>1, Start
    <3>4. w[i] = p[j]
      BY <1>8, <1>12, <3>1
    <3>5. QED
      BY <2>2, <3>2, <3>3, <3>4
  <2>5. QED
    BY <1>5, <2>1, <2>3, <2>4
<1>15. SubSeq(e, 1, a + k) = SubSeq(w, 1, a + k)
  <2> DEFINE b == a + k
             s1 == SubSeq(e, 1, b)
             s2 == SubSeq(w, 1, b)
  <2>1. b \in Nat /\ b <= Len(e) /\ b <= Len(w)
    BY <1>4, <1>5, <1>13
  <2>2. \A i \in 1..b : e[i] = w[i]
    BY <1>14
  <2> HIDE DEF b
  <2>3. s1 \in Bytes /\ Len(s1) = b /\ \A i \in 1..b : s1[i] = e[i]
    BY <1>4, <2>1, Start
  <2>4. s2 \in Bytes /\ Len(s2) = b /\ \A i \in 1..b : s2[i] = w[i]
    BY <1>12, <2>1, Start
  <2> HIDE DEF s1, s2
  <2>5. s1 = s2
    BY <2>2, <2>3, <2>4, Same
  <2>6. QED
    BY <2>5 DEF s1, s2, b
<1>16. d.kind = "vector" => a + k = t + Len(p)
  BY <1>2, <1>5, <1>7 DEF k
<1>17. Holds(o.r, w)
  BY <1>2, <1>9, <1>12, <1>15, <1>16, <1>k DEF Holds, e, y
<1>18. o.r \in Targets
  BY <1>1, <1>2, TargetFacts
<1>19. QED
  BY <1>3, <1>17, <1>18 DEF o, w

\* What a round writes.
LEMMA Delivers ==
  ASSUME CopySane, copy.on, NEW o, o.out \in Bytes
  PROVE  /\ Delivered(o).r \in Targets /\ Delivered(o).thrown \in BOOLEAN
         /\ o.thrown => Delivered(o).thrown
         /\ ~Delivered(o).thrown => Holds(Delivered(o).r, copy.got \o o.out)
<1> DEFINE d == copy.dest
           g == copy.got
           p == o.out
           v == Delivered(o)
<1>1. d \in Targets /\ g \in Bytes /\ Holds(d, g)
  BY DEF CopySane, Copies
<1>2. CASE o.thrown
  <2>1. v = Throws(d)
    BY <1>2 DEF Delivered
  <2>2. v.r = d /\ v.thrown = TRUE
    BY <2>1 DEF Throws
  <2>3. QED
    BY <1>1, <2>2
<1>3. CASE ~o.thrown /\ copy.size = -1 /\ p = <<>>
  <2>1. v = Done(d, <<>>)
    BY <1>3 DEF Delivered
  <2>2. v.r = d /\ v.thrown = FALSE
    BY <2>1 DEF Done
  <2>3. g \o p = g
    BY <1>1, <1>3, ConcatEmptySeq DEF Bytes
  <2>4. QED
    BY <1>1, <1>3, <2>2, <2>3
<1>4. CASE ~o.thrown /\ ~(copy.size = -1 /\ p = <<>>)
  <2>1. v = mwrite(d, p)
    BY <1>4 DEF Delivered
  <2>2. CASE d.readonly
    <3>1. v = Throws(d)
      BY <2>1, <2>2 DEF mwrite
    <3>2. v.r = d /\ v.thrown = TRUE
      BY <3>1 DEF Throws
    <3>3. QED
      BY <1>1, <3>2
  <2>3. CASE ~d.readonly
    <3>1. v.r \in Targets /\ v.thrown = FALSE /\ Holds(v.r, g \o p)
      BY <1>1, <2>1, <2>3, TargetWrite
    <3>2. QED
      BY <1>4, <3>1
  <2>4. QED
    BY <2>2, <2>3
<1>5. QED
  BY <1>2, <1>3, <1>4

\* Every round asks for something, and never for too much.
LEMMA WantFacts ==
  ASSUME CopySane, copy.on
  PROVE  /\ Want \in Nat /\ Want > 0 /\ Len(copy.got) \in Nat
         /\ copy.size # -1 => Want <= copy.size - Len(copy.got)
<1>1. Len(copy.got) \in Nat /\ copy.size \in Int
  BY LenProperties DEF CopySane, Copies, Bytes
<1>2. CopyBuf \in Nat /\ CopyBuf > 0
  BY SizeAssumption
<1>3. copy.size # -1 => Len(copy.got) < copy.size
  BY DEF CopySane
<1>4. QED
  BY <1>1, <1>2, <1>3 DEF Want, Min2

\* The copy as a round of copyto() leaves it.
RoundLeaves(o, c) ==
  /\ c \in Copies
  /\ c.from = copy.from /\ c.sure = copy.sure /\ c.size = copy.size /\ c.got = copy.got \o o.out
  /\ c.dest = Delivered(o).r /\ c.failed = Delivered(o).thrown
  /\ c.on <=> /\ ~Delivered(o).thrown
              /\ IF copy.size = -1 THEN o.out # <<>>
                 ELSE Len(o.out) = Want /\ Len(copy.got) + Want < copy.size

\* It is what CopyRound makes.
LEMMA CopyRoundFacts ==
  ASSUME CopySane, copy.on, NEW o, o.out \in Bytes
  PROVE  RoundLeaves(o, CopyRound(Want, o))
<1> DEFINE g == copy.got \o o.out
           v == Delivered(o).r
           f == Delivered(o).thrown
           e == /\ ~f
                /\ IF copy.size = -1 THEN o.out # <<>>
                   ELSE Len(o.out) = Want /\ Len(copy.got) + Want < copy.size
           c == [[[[copy EXCEPT !.got = g] EXCEPT !.dest = v] EXCEPT !.failed = f] EXCEPT !.on = e]
<1>1. CopyRound(Want, o) = c
  BY DEF CopyRound
<1>2. g \in Bytes /\ v \in Targets /\ f \in BOOLEAN /\ e \in BOOLEAN
  BY Delivers, Join DEF CopySane, Copies
<1> HIDE DEF g, v, f, e
<1>3. /\ c \in Copies
      /\ c.from = copy.from /\ c.sure = copy.sure /\ c.size = copy.size /\ c.got = g
      /\ c.dest = v /\ c.failed = f /\ c.on = e
  BY <1>2 DEF CopySane, Copies
<1> HIDE DEF c
<1>4. RoundLeaves(o, c)
  BY <1>3 DEF RoundLeaves, g, v, f, e
<1>5. QED
  BY <1>1, <1>4

\* A round leaves the copy sane.
LEMMA RoundSane ==
  ASSUME CopySane, copy.on, NEW o, o.out \in Bytes, copy' = CopyRound(Want, o)
  PROVE  CopySane' /\ RoundLeaves(o, copy')
<1>1. RoundLeaves(o, copy')
  BY CopyRoundFacts
<1>2. copy.got \in Bytes /\ Len(copy.got \o o.out) = Len(copy.got) + Len(o.out)
  BY Join DEF CopySane, Copies
<1>3. copy' \in Copies /\ (copy'.on => ~copy'.failed)
  BY <1>1 DEF RoundLeaves
<1>4. copy'.on /\ copy'.size # -1 => Len(copy'.got) < copy'.size
  BY <1>1, <1>2 DEF RoundLeaves
<1>5. ~copy'.failed => Holds(copy'.dest, copy'.got)
  BY <1>1, Delivers DEF RoundLeaves
<1>6. QED
  BY <1>1, <1>3, <1>4, <1>5 DEF CopySane

\* A copy that has just begun, and none at all.
LEMMA NewCopy ==
  ASSUME NEW c, NEW e \in BOOLEAN, NEW at \in Int, NEW y \in BOOLEAN, NEW n \in Int, NEW d \in Targets,
         NEW f, f = FALSE,
         c = [on |-> e, from |-> at, sure |-> y, size |-> n, got |-> <<>>, dest |-> d, failed |-> f]
  PROVE  /\ c \in Copies /\ c.on = e /\ c.from = at /\ c.sure = y /\ c.size = n /\ c.got = <<>>
         /\ c.dest = d /\ c.failed = FALSE
<1>1. <<>> \in Bytes /\ f \in BOOLEAN
  BY EmptySeq DEF Bytes
<1>2. QED
  BY <1>1 DEF Copies

\* No copy is sane.
LEMMA NoCopySane ==
  NoCopy \in Copies /\ ~NoCopy.on /\ ~NoCopy.sure /\ Holds(NoCopy.dest, NoCopy.got)
<1> DEFINE e == FALSE
           s == <<>>
           d == MemoryReader("memory", s, e)
           c == [on |-> e, from |-> 0, sure |-> e, size |-> -1, got |-> <<>>, dest |-> d, failed |-> e]
<1>1. NoCopy = c
  BY DEF NoCopy
<1>2. d.kind = "memory" /\ MemoryAt(d, 0)
  <2> DEFINE z == [kind |-> "memory", mem |-> s, size |-> Len(s), pos |-> 0, growable |-> e,
                   readonly |-> e]
  <2>0. ("memory" \in {"vector", "mmap"}) = e
    OBVIOUS
  <2>1. d = z
    BY <2>0 DEF MemoryReader
  <2>2. [z EXCEPT !.pos = 0] = z
    OBVIOUS
  <2>3. z.kind = "memory" /\ z.mem = s /\ z.readonly = e
    OBVIOUS
  <2>4. s \in Seq(0..255) /\ e \in BOOLEAN
    BY EmptySeq
  <2>5. msetpos(MemoryReader(d.kind, d.mem, d.readonly), 0).r = [d EXCEPT !.pos = 0]
    BY <2>1, <2>3 DEF msetpos, Done
  <2>6. QED
    BY <2>1, <2>2, <2>3, <2>4, <2>5 DEF MemoryAt
<1> HIDE DEF d
<1>3. d \in Targets /\ Holds(d, <<>>)
  BY <1>2, TargetMade
<1>4. e \in BOOLEAN /\ e = FALSE
  OBVIOUS
<1> HIDE DEF e
<1>5. c \in Copies /\ c.on = e /\ c.sure = e /\ c.got = <<>> /\ c.dest = d
  <2>1. 0 \in Int /\ -1 \in Int
    OBVIOUS
  <2>2. QED
    BY <1>3, <1>4, <2>1, NewCopy
<1> HIDE DEF c
<1>6. QED
  BY <1>1, <1>3, <1>4, <1>5

\* Between copies there is none that goes on.
LEMMA BetweenSane == Between => CopySane'
BY NoCopySane DEF Between, CopySane


\* The bytes that are written.
LEMMA FillBytes ==
  ASSUME NEW n \in Nat
  PROVE  [k \in 1..n |-> Fill] \in Bytes /\ Len([k \in 1..n |-> Fill]) = n
<1>1. Fill \in Nat
  BY SizeAssumption
<1>2. QED
  BY <1>1 DEF Bytes

\* The calls that the actions make, with what they keep.
ReadCall(n, o) == n \in Nat /\ n > 0 /\ Call("read", o) /\ ReadKeeps(r, n, o)
WriteCall(o) == Call("write", o) /\ WriteKeeps(r, o)
SetPosCall(off, o) == off \in 0..Len(Content(r)) /\ Call("setpos", o) /\ SetPosKeeps(r, off, o)
TruncateCall(off, o) == Call("truncate", o) /\ TruncateKeeps(r, off, o)
SizeCall(o) == Call("size", o) /\ SizeKeeps(r, o)
CopyCall(o) ==
  /\ copy.on /\ Want \in Nat /\ Want > 0 /\ ReadKeeps(r, Want, o)
  /\ r' = o.r /\ last' = IF Delivered(o).thrown THEN <<"throws", <<>>>> ELSE <<"read", o.out>>
  /\ copy' = CopyRound(Want, o)

\* Read is a call of read().
LEMMA ReadCalls == Shape(r) /\ Read => \E n, o : ReadCall(n, o)
<1> SUFFICES ASSUME Shape(r), Read PROVE \E n, o : ReadCall(n, o)
  OBVIOUS
<1>1. PICK n \in Sizes, io \in Faults : Call("read", read(r, n, io))
  BY DEF Read
<1>2. n \in Nat /\ n > 0 /\ io \in Seq(Outcomes)
  BY SizeAssumption
<1>3. ReadKeeps(r, n, read(r, n, io))
  BY <1>2, AnyRead
<1>4. ReadCall(n, read(r, n, io))
  BY <1>1, <1>2, <1>3 DEF ReadCall
<1>5. QED
  BY <1>4

\* Write is a call of write().
LEMMA WriteCalls == Shape(r) /\ Write => \E o : WriteCall(o)
<1> SUFFICES ASSUME Shape(r), Write PROVE \E o : WriteCall(o)
  OBVIOUS
<1>1. PICK n \in Sizes : Call("write", write(r, [k \in 1..n |-> Fill]))
  BY DEF Write
<1>2. n \in Nat
  BY SizeAssumption
<1> DEFINE p == [k \in 1..n |-> Fill]
<1>3. p \in Bytes
  BY <1>2, FillBytes
<1>4. Call("write", write(r, p))
  BY <1>1
<1> HIDE DEF p
<1>5. WriteKeeps(r, write(r, p))
  BY <1>3, AnyWrite
<1>6. WriteCall(write(r, p))
  BY <1>4, <1>5 DEF WriteCall
<1>7. QED
  BY <1>6

\* SetPos is a call of setpos().
LEMMA SetPosCalls == Shape(r) /\ SetPos => \E off, o : SetPosCall(off, o)
<1> SUFFICES ASSUME Shape(r), SetPos PROVE \E off, o : SetPosCall(off, o)
  OBVIOUS
<1>1. PICK off \in 0..Len(Content(r)) : Call("setpos", setpos(r, off))
  BY DEF SetPos
<1>2. SetPosKeeps(r, off, setpos(r, off))
  BY <1>1, AnySetPos
<1>3. SetPosCall(off, setpos(r, off))
  BY <1>1, <1>2 DEF SetPosCall
<1>4. QED
  BY <1>3

\* Truncate is a call of truncate().
LEMMA TruncateCalls == Shape(r) /\ Truncate => \E off, o : TruncateCall(off, o)
<1> SUFFICES ASSUME Shape(r), Truncate PROVE \E off, o : TruncateCall(off, o)
  OBVIOUS
<1>1. PICK off \in getpos(r)..MaxLen :
        /\ r.kind \in {"memory", "mmap"} => off <= Len(r.mem)
        /\ r.kind = "mmap" => 2 * off >= Len(r.mem)
        /\ Call("truncate", truncate(r, off))
  BY DEF Truncate
<1>2. ~IsWindow(r.kind)
  BY DEF Truncate
<1>3. getpos(r) \in Nat /\ MaxLen \in Nat
  BY <1>2, Positions, SizeAssumption DEF IsWindow, WindowKinds
<1>4. off \in Nat /\ getpos(r) <= off
  BY <1>1, <1>3
<1>5. TruncateKeeps(r, off, truncate(r, off))
  BY <1>1, <1>2, <1>4, AnyTruncate
<1>6. TruncateCall(off, truncate(r, off))
  BY <1>1, <1>5 DEF TruncateCall
<1>7. QED
  BY <1>6

\* Size is a call of size().
LEMMA SizeCalls == Shape(r) /\ Size => \E o : SizeCall(o)
BY AnySize DEF Size, SizeCall

\* CopyStep is a call of read(), and one of the destination's write().
LEMMA CopyCalls == ReaderInv /\ CopyStep => \E o : CopyCall(o)
<1> SUFFICES ASSUME ReaderInv, CopyStep PROVE \E o : CopyCall(o)
  OBVIOUS
<1> DEFINE w == Want
<1>1. copy.on
  BY DEF CopyStep
<1>2. PICK io \in Faults :
        /\ Call("read", [r |-> read(r, w, io).r, out |-> read(r, w, io).out,
                         thrown |-> Delivered(read(r, w, io)).thrown])
        /\ copy' = CopyRound(w, read(r, w, io))
  BY DEF CopyStep, Want
<1>3. w \in Nat /\ w > 0 /\ io \in Seq(Outcomes)
  BY <1>1, WantFacts, SizeAssumption DEF ReaderInv
<1> HIDE DEF w
<1> DEFINE o == read(r, w, io)
<1>4. ReadKeeps(r, w, o)
  BY <1>3, AnyRead DEF ReaderInv
<1>5. r' = o.r /\ last' = IF Delivered(o).thrown THEN <<"throws", <<>>>> ELSE <<"read", o.out>>
  BY <1>2 DEF Call
<1>6. copy' = CopyRound(w, o)
  BY <1>2
<1> HIDE DEF o
<1>7. CopyCall(o)
  BY <1>1, <1>3, <1>4, <1>5, <1>6 DEF CopyCall, w
<1>8. QED
  BY <1>7

\* The constructors establish the invariant.
LEMMA ReaderInit == Init => ReaderInv
<1> SUFFICES ASSUME Init PROVE ReaderInv
  OBVIOUS
<1>1. Shape(r)
  BY ReaderAssumption, ConstructedGood DEF Init
<1>2. CopySane
  BY NoCopySane DEF Init, CopySane
<1>3. QED
  BY <1>1, <1>2 DEF ReaderInv

\* What copyto() starts with.
CopyBegins ==
  /\ copy'.on /\ ~copy'.failed /\ copy' \in Copies /\ copy'.dest \in Targets
  /\ copy'.from = getpos(r) /\ copy'.sure = InStep(r) /\ copy'.got = <<>>
  /\ copy'.size \in {-1} \cup (Nat \ {0}) /\ Holds(copy'.dest, <<>>)
  /\ r' = r /\ last' = last

\* It starts with nothing, where the reader is.
LEMMA CopyStarts == Shape(r) /\ CopyStart => CopyBegins
<1> SUFFICES ASSUME Shape(r), CopyStart PROVE CopyBegins
  OBVIOUS
<1>1. PICK n \in {-1} \cup Sizes, d \in Dests :
        copy' = [on |-> TRUE, from |-> getpos(r), sure |-> InStep(r), size |-> n, got |-> <<>>,
                 dest |-> d, failed |-> FALSE]
  BY DEF CopyStart
<1> DEFINE e == TRUE
           f == FALSE
           at == getpos(r)
           y == InStep(r)
           c == [on |-> e, from |-> at, sure |-> y, size |-> n, got |-> <<>>, dest |-> d, failed |-> f]
<1>2. copy' = c
  BY <1>1
<1>3. d \in Targets /\ Holds(d, <<>>)
  BY DestAssumption, TargetMade
<1>4. at \in Int /\ y \in BOOLEAN /\ e \in BOOLEAN /\ f = FALSE /\ e = TRUE
  BY Positions, StepBoolean
<1>5. n \in Int /\ n \in {-1} \cup (Nat \ {0})
  BY SizeAssumption
<1>6. at = getpos(r) /\ y = InStep(r)
  OBVIOUS
<1> HIDE DEF e, f, at, y
<1>7. /\ c \in Copies /\ c.on = e /\ c.from = at /\ c.sure = y /\ c.size = n /\ c.got = <<>>
      /\ c.dest = d /\ c.failed = FALSE
  BY <1>3, <1>4, <1>5, NewCopy
<1> HIDE DEF c
<1>8. r' = r /\ last' = last
  BY DEF CopyStart
<1>9. QED
  BY <1>2, <1>3, <1>4, <1>5, <1>6, <1>7, <1>8 DEF CopyBegins

\* What a step does to the reader.
StepKeeps ==
  /\ Shape(r') /\ r'.kind = r.kind
  /\ EndsBelow(r) => EndsBelow(r')
  /\ r.kind \in WindowKinds /\ Inside(r) => Inside(r') /\ KeepsOutside(r, r')

\* A call, seen as a step, and one that leaves the reader as it is.
LEMMA KeptStep ==
  /\ \A o : Kept(r, o) /\ r' = o.r => StepKeeps
  /\ Shape(r) /\ r' = r => StepKeeps
BY DEF Kept, StepKeeps, KeepsOutside

\* Every call keeps the invariant, the kind of the reader and what is outside a window.
LEMMA ReaderStep == ReaderInv /\ [Next]_vars => ReaderInv' /\ StepKeeps
<1> SUFFICES ASSUME ReaderInv, [Next]_vars PROVE ReaderInv' /\ StepKeeps
  OBVIOUS
<1>g. Shape(r) /\ CopySane
  BY DEF ReaderInv
<1>s. StepKeeps => Shape(r)'
  BY DEF StepKeeps
<1>1. CASE Read
  <2>1. PICK n, o : ReadCall(n, o)
    BY <1>1, <1>g, ReadCalls
  <2>2. StepKeeps
    BY <2>1, KeptStep DEF ReadCall, ReadKeeps, Call
  <2>3. QED
    BY <1>1, <1>s, <2>2, BetweenSane DEF Read, ReaderInv
<1>2. CASE Write
  <2>1. PICK o : WriteCall(o)
    BY <1>2, <1>g, WriteCalls
  <2>2. StepKeeps
    BY <2>1, KeptStep DEF WriteCall, WriteKeeps, Call
  <2>3. QED
    BY <1>2, <1>s, <2>2, BetweenSane DEF Write, ReaderInv
<1>3. CASE SetPos
  <2>1. PICK off, o : SetPosCall(off, o)
    BY <1>3, <1>g, SetPosCalls
  <2>2. StepKeeps
    BY <2>1, KeptStep DEF SetPosCall, SetPosKeeps, Call
  <2>3. QED
    BY <1>3, <1>s, <2>2, BetweenSane DEF SetPos, ReaderInv
<1>4. CASE Truncate
  <2>1. PICK off, o : TruncateCall(off, o)
    BY <1>4, <1>g, TruncateCalls
  <2>2. StepKeeps
    BY <2>1, KeptStep DEF TruncateCall, TruncateKeeps, Call
  <2>3. QED
    BY <1>4, <1>s, <2>2, BetweenSane DEF Truncate, ReaderInv
<1>5. CASE Size
  <2>1. PICK o : SizeCall(o)
    BY <1>5, <1>g, SizeCalls
  <2>2. StepKeeps
    BY <2>1, KeptStep DEF SizeCall, SizeKeeps, Call
  <2>3. QED
    BY <1>5, <1>s, <2>2, BetweenSane DEF Size, ReaderInv
<1>6. CASE CopyStart
  <2>1. CopyBegins
    BY <1>6, <1>g, CopyStarts
  <2>2. Len(<<>>) = 0
    BY EmptySeq
  <2>3. CopySane'
    BY <2>1, <2>2 DEF CopyBegins, CopySane
  <2>4. StepKeeps
    BY <1>g, <2>1, KeptStep DEF CopyBegins
  <2>5. QED
    BY <1>s, <2>3, <2>4 DEF ReaderInv
<1>7. CASE CopyStep
  <2>1. PICK o : CopyCall(o)
    BY <1>7, CopyCalls
  <2>2. CopySane'
    BY <1>g, <2>1, RoundSane DEF CopyCall, ReadKeeps
  <2>3. StepKeeps
    BY <2>1, KeptStep DEF CopyCall, ReadKeeps
  <2>4. QED
    BY <1>s, <2>2, <2>3 DEF ReaderInv
<1>8. CASE UNCHANGED vars
  <2>1. r' = r /\ copy' = copy
    BY <1>8 DEF vars
  <2>2. CopySane'
    BY <1>g, <2>1 DEF CopySane
  <2>3. QED
    BY <1>g, <1>s, <2>1, <2>2, KeptStep DEF ReaderInv
<1>9. QED
  BY <1>1, <1>2, <1>3, <1>4, <1>5, <1>6, <1>7, <1>8 DEF Next
-----------------------------------------------------------------------------
(* The theorems. *)

\* Whatever the calls and the errors, the reader stays well-formed, and so do
\* the copy and its destination, which has what was read for it.
THEOREM Invariance == Spec => []ReaderInv
<1>1. ReaderInv /\ [Next]_vars => ReaderInv'
  BY ReaderStep
<1>2. QED
  BY ReaderInit, <1>1, PTL DEF Spec

\* What the readers keep a copy of, or beside, is as they believe after every
\* call but the three that derail one (a read of a device that fails, the way
\* back of a range, a file made longer where it was read to its end), and
\* setpos() of a file or of a window that only shifts puts it right again.
THEOREM CachesStayTrue == Spec => CachesAgree
<1> DEFINE A == /\ InStep(r) /\ ~Derails => InStep(r')
                /\ r.kind \in {"offset", "file"} /\ last'[1] = "setpos" /\ ~copy'.on => InStep(r')
<1>1. ReaderInv /\ [Next]_vars => [A]_vars
  <2> SUFFICES ASSUME ReaderInv, Next PROVE A
    OBVIOUS
  <2>g. Shape(r) /\ CopySane
    BY DEF ReaderInv
  <2>l. ASSUME NEW name, NEW o, Call(name, o)
        PROVE  /\ r' = o.r
               /\ o.thrown => last'[1] = "throws"
               /\ ~o.thrown => last'[1] = name /\ last'[2] = o.out
    BY <2>l DEF Call
  <2>1. CASE Read
    <3>1. PICK n, o : ReadCall(n, o)
      BY <2>1, <2>g, ReadCalls
    <3>2. Call("read", o)
      BY <3>1 DEF ReadCall
    <3>3. /\ r' = o.r /\ (o.thrown => last'[1] = "throws") /\ last'[1] # "setpos"
      BY <3>2, <2>l
    <3>4. InStep(r) /\ ~(r.kind = "block" /\ o.thrown) => InStep(o.r)
      BY <3>1 DEF ReadCall, ReadKeeps
    <3>5. QED
      BY <3>3, <3>4 DEF Derails
  <2>2. CASE Write
    <3>1. PICK o : WriteCall(o)
      BY <2>2, <2>g, WriteCalls
    <3>2. Call("write", o)
      BY <3>1 DEF WriteCall
    <3>3. r' = o.r /\ last'[1] # "setpos"
      BY <3>2, <2>l
    <3>4. InStep(r) => InStep(o.r)
      BY <3>1 DEF WriteCall, WriteKeeps
    <3>5. QED
      BY <3>3, <3>4
  <2>3. CASE SetPos
    <3>1. PICK off, o : SetPosCall(off, o)
      BY <2>3, <2>g, SetPosCalls
    <3>2. Call("setpos", o)
      BY <3>1 DEF SetPosCall
    <3>3. r' = o.r /\ (~o.thrown => last'[1] = "setpos")
      BY <3>2, <2>l
    <3>4. /\ InStep(r) /\ ~(r.kind = "range" /\ ~o.thrown /\ r.pos # r.base) => InStep(o.r)
          /\ r.kind \in {"offset", "file"} => InStep(o.r)
      BY <3>1 DEF SetPosCall, SetPosKeeps
    <3>5. QED
      BY <3>3, <3>4 DEF Derails
  <2>4. CASE Truncate
    <3>1. PICK off, o : TruncateCall(off, o)
      BY <2>4, <2>g, TruncateCalls
    <3>2. Call("truncate", o)
      BY <3>1 DEF TruncateCall
    <3>3. /\ r' = o.r /\ last'[1] # "setpos"
          /\ ~o.thrown => last'[1] = "truncate" /\ last'[2] = o.out
      BY <3>2, <2>l
    <3>4. InStep(r) /\ ~Lengthened(r, o) => InStep(o.r)
      BY <3>1 DEF TruncateCall, TruncateKeeps
    <3>5. QED
      BY <3>3, <3>4 DEF Derails, Lengthened
  <2>5. CASE Size
    <3>1. PICK o : SizeCall(o)
      BY <2>5, <2>g, SizeCalls
    <3>2. Call("size", o)
      BY <3>1 DEF SizeCall
    <3>3. r' = o.r /\ last'[1] # "setpos"
      BY <3>2, <2>l
    <3>4. InStep(o.r) = InStep(r)
      BY <3>1 DEF SizeCall, SizeKeeps
    <3>5. QED
      BY <3>3, <3>4
  <2>6. CASE CopyStart
    <3>1. CopyBegins
      BY <2>6, <2>g, CopyStarts
    <3>2. QED
      BY <3>1 DEF CopyBegins
  <2>7. CASE CopyStep
    <3>1. PICK o : CopyCall(o)
      BY <2>7, CopyCalls
    <3>2. o.out \in Bytes
      BY <3>1 DEF CopyCall, ReadKeeps
    <3>3. o.thrown => Delivered(o).thrown
      BY <2>g, <3>1, <3>2, Delivers DEF CopyCall
    <3>4. r' = o.r /\ (o.thrown => last'[1] = "throws") /\ last'[1] # "setpos"
      BY <3>1, <3>3 DEF CopyCall
    <3>5. InStep(r) /\ ~(r.kind = "block" /\ o.thrown) => InStep(o.r)
      BY <3>1 DEF CopyCall, ReadKeeps
    <3>6. QED
      BY <3>4, <3>5 DEF Derails
  <2>8. QED
    BY <2>1, <2>2, <2>3, <2>4, <2>5, <2>6, <2>7 DEF Next
<1>2. QED
  BY <1>1, Invariance, PTL DEF Spec, CachesAgree

\* A window leaves what is outside of it alone, and stays inside, in step or
\* not, once the reader below stands inside.
THEOREM OutsideStaysKept == Spec => OutsideKept
<1> DEFINE A == IsWindow(r.kind) /\ Inside(r) =>
                  /\ Inside(r')
                  /\ \A k \in 1..Len(r.under.mem) :
                       k \notin (r.base + 1)..(r.base + r.size) => r'.under.mem[k] = r.under.mem[k]
<1>1. ReaderInv /\ [Next]_vars => [A]_vars
  <2> SUFFICES ASSUME ReaderInv, [Next]_vars, IsWindow(r.kind), Inside(r) PROVE A
    OBVIOUS
  <2>1. Inside(r') /\ KeepsOutside(r, r')
    BY ReaderStep DEF StepKeeps, IsWindow, WindowKinds
  <2>2. QED
    BY <2>1 DEF KeepsOutside
<1>2. QED
  BY <1>1, Invariance, PTL DEF Spec, OutsideKept


\* Readers that are streams to their end.
Streams == \A x \in Readers : x.kind # "compressed" /\ EndsBelow(x)
\* The invariant with such readers only.
StreamInv == ReaderInv /\ Streaming(r)

\* It holds at the start.
LEMMA StreamInit == Streams /\ Init => StreamInv
BY ReaderInit DEF StreamInv, ReaderInv, Streaming, Streams, Init

\* Every call keeps it.
LEMMA StreamStep == StreamInv /\ [Next]_vars => StreamInv'
BY ReaderStep DEF StreamInv, ReaderInv, Streaming, StepKeeps

\* A stream stays one.
LEMMA StreamInvariance ==
  ASSUME Streams
  PROVE  Spec => []StreamInv
BY StreamInit, StreamStep, PTL DEF Spec

\* Where a stream is.
LEMMA StreamPos ==
  ASSUME NEW x, Streaming(x)
  PROVE  /\ Content(x) \in Bytes /\ Len(Content(x)) \in Nat
         /\ InStep(x) => /\ getpos(x) \in Nat /\ getpos(x) <= Len(Content(x))
                         /\ getpos(x) \in 0..Len(Content(x)) /\ Left(x) \in Nat
BY Positions DEF Streaming, Left

\* A reader out of step, seen as a step of the stream.
LEMMA GoesAstray ==
  ASSUME StreamInv', ~InStep(r), last'[1] # "size",
         last'[1] \in {"write", "truncate"} \/ Content(r') = Content(r)
  PROVE  Stream!Astray
<1>1. InStep(r)' => getpos(r)' \in 0..Len(Content(r)')
  BY StreamPos DEF StreamInv
<1>2. QED
  BY <1>1 DEF Stream!Astray

\* A call that throws and changes nothing that shows.
LEMMA FailsThrows ==
  ASSUME StreamInv, InStep(r), NEW o, Fails(r, o), r' = o.r, last' = <<"throws", <<>>>>
  PROVE  Stream!Throws
<1>1. getpos(r) \in Nat /\ Len(Content(r)) \in Nat /\ getpos(r) <= Len(Content(r))
  BY StreamPos DEF StreamInv
<1>2. Content(r)' = Content(r) /\ getpos(r)' = getpos(r)
  BY DEF Fails, SameStream
<1>3. getpos(r) \in getpos(r)..Len(Content(r))
  BY <1>1
<1>4. QED
  BY <1>2, <1>3 DEF Stream!Throws

\* A read of something, seen as a step of the stream; the step t may throw
\* although the read did not.
LEMMA ReadStreams ==
  ASSUME StreamInv, StreamInv', NEW n \in Nat, n > 0, NEW o, ReadKeeps(r, n, o), r' = o.r,
         NEW t, o.thrown => t, last' = IF t THEN <<"throws", <<>>>> ELSE <<"read", o.out>>
  PROVE  Stream!Read \/ Stream!Throws \/ Stream!Astray
<1> DEFINE c == Content(r)
           p == getpos(r)
           k == Min2(n, Left(r))
<1>1. Content(o.r) = c
  BY DEF ReadKeeps, StreamInv, Streaming
<1>2. CASE ~InStep(r)
  <2>1. last'[1] # "size"
    OBVIOUS
  <2>2. Content(r') = Content(r)
    BY <1>1
  <2>3. QED
    BY <1>2, <2>1, <2>2, GoesAstray
<1>3. CASE InStep(r)
  <2>1. Reads(r, n, o) \/ Breaks(r, o)
    BY <1>3 DEF ReadKeeps, StreamInv
  <2>2. Left(r) \in Nat /\ Left(r) = Len(c) - p /\ p \in Nat /\ Len(c) \in Nat /\ p <= Len(c)
    BY <1>3, StreamPos DEF Left, StreamInv
  <2>3. k \in 0..Left(r) /\ (k = 0 => Left(r) = 0) /\ p + k \in p..Len(c)
    BY <2>2 DEF Min2
  <2>4. Content(r)' = c
    BY <1>1
  <2>5. CASE t
    <3>1. getpos(o.r) \in p..Len(c)
      BY <2>1, <2>3 DEF Reads, SameStream, Breaks
    <3>2. last' = <<"throws", <<>>>>
      BY <2>5
    <3>3. getpos(r)' \in p..Len(c)
      BY <3>1
    <3>4. Stream!Throws
      BY <1>3, <2>4, <3>2, <3>3 DEF Stream!Throws
    <3>5. QED
      BY <3>4
  <2>6. CASE ~t
    <3>1. Reads(r, n, o) /\ ~o.thrown
      BY <2>1, <2>6 DEF Breaks
    <3>2. getpos(o.r) = p + k /\ o.out = SubSeq(c, p + 1, p + k)
      BY <3>1 DEF Reads, SameStream
    <3>3. InStep(o.r)
      BY <1>3, <3>1 DEF ReadKeeps
    <3>4. InStep(r)' /\ getpos(r)' = p + k /\ last' = <<"read", SubSeq(c, p + 1, p + k)>>
      BY <2>6, <3>2, <3>3
    <3>5. Stream!Rest = Left(r)
      BY <2>2 DEF Stream!Rest
    <3> HIDE DEF k
    <3>6. Stream!Read
      BY <1>3, <2>3, <2>4, <3>4, <3>5 DEF Stream!Read
    <3>7. QED
      BY <3>6
  <2>7. QED
    BY <2>5, <2>6
<1>4. QED
  BY <1>2, <1>3

\* A write, seen as a step of the stream.
LEMMA WriteStreams ==
  ASSUME StreamInv, StreamInv', NEW o, WriteCall(o)
  PROVE  Stream!Write \/ Stream!Throws \/ Stream!Astray
<1>1. r' = o.r /\ last' = IF o.thrown THEN <<"throws", <<>>>> ELSE <<"write", o.out>>
  BY DEF WriteCall, Call
<1>2. /\ o.thrown => Content(o.r) = Content(r)
      /\ InStep(r) => InStep(o.r) /\ Writes(r, o)
  BY DEF WriteCall, WriteKeeps, StreamInv, Streaming
<1>3. CASE ~InStep(r)
  <2>1. last'[1] # "size" /\ (last'[1] \in {"write", "truncate"} \/ Content(r') = Content(r))
    BY <1>1, <1>2
  <2>2. QED
    BY <1>3, <2>1, GoesAstray
<1>4. CASE InStep(r) /\ Fails(r, o)
  <2>1. last' = <<"throws", <<>>>>
    BY <1>1, <1>4 DEF Fails
  <2>2. QED
    BY <1>1, <1>4, <2>1, FailsThrows
<1>5. CASE InStep(r) /\ ~Fails(r, o)
  <2>1. /\ ~o.thrown /\ getpos(o.r) = getpos(r) + Len(o.out)
        /\ Overwritten(Content(r), getpos(r), o.out, Content(o.r)) /\ InStep(o.r)
    BY <1>2, <1>5 DEF Writes
  <2>2. last' = <<"write", o.out>>
    BY <1>1, <2>1
  <2>3. InStep(r)' /\ Content(r)' = Content(o.r) /\ getpos(r)' = getpos(r) + Len(o.out)
    BY <1>1, <2>1
  <2>4. Overwritten(Content(r), getpos(r), o.out, Content(r)') /\ last'[1] = "write" /\ last'[2] = o.out
    BY <2>1, <2>2, <2>3
  <2>5. LET v == Stream!Overlay(Content(r), getpos(r), last'[2])
        IN Len(v) <= Len(Content(r)') /\ SubSeq(Content(r)', 1, Len(v)) = v
    BY <2>4 DEF Stream!Overlay, Overwritten, OverlayAt
  <2>6. Stream!Write
    BY <1>5, <2>3, <2>4, <2>5 DEF Stream!Write
  <2>7. QED
    BY <2>6
<1>6. QED
  BY <1>3, <1>4, <1>5

\* A setpos(), seen as a step of the stream.
LEMMA SetPosStreams ==
  ASSUME StreamInv, StreamInv', NEW off, NEW o, SetPosCall(off, o)
  PROVE  Stream!SetPos \/ Stream!Throws \/ Stream!Astray
<1>1. r' = o.r /\ last' = IF o.thrown THEN <<"throws", <<>>>> ELSE <<"setpos", o.out>>
  BY DEF SetPosCall, Call
<1>2. /\ Content(o.r) = Content(r) /\ off \in 0..Len(Content(r))
      /\ InStep(r) => (InStep(o.r) /\ SetsPos(r, off, o)) \/ Fails(r, o) \/ Rewinds(r, o)
  BY DEF SetPosCall, SetPosKeeps, StreamInv, Streaming
<1>3. CASE ~InStep(r)
  <2>1. last'[1] # "size" /\ Content(r') = Content(r)
    BY <1>1, <1>2
  <2>2. QED
    BY <1>3, <2>1, GoesAstray
<1>4. CASE InStep(r) /\ Fails(r, o)
  <2>1. last' = <<"throws", <<>>>>
    BY <1>1, <1>4 DEF Fails
  <2>2. QED
    BY <1>1, <1>4, <2>1, FailsThrows
<1>5. CASE InStep(r) /\ ~Fails(r, o) /\ InStep(o.r) /\ SetsPos(r, off, o)
  <2>1. ~o.thrown /\ o.out = <<>> /\ getpos(o.r) = off
    BY <1>5 DEF SetsPos, SameStream
  <2>2. last' = <<"setpos", <<>>>> /\ Content(r)' = Content(r) /\ getpos(r)' = off /\ InStep(r)'
    BY <1>1, <1>2, <1>5, <2>1
  <2>3. Stream!SetPos
    BY <1>2, <1>5, <2>2 DEF Stream!SetPos
  <2>4. QED
    BY <2>3
<1>6. CASE InStep(r) /\ Rewinds(r, o)
  <2>1. ~o.thrown /\ o.out = <<>> /\ getpos(o.r) = getpos(r)
    BY <1>6 DEF Rewinds, SameStream
  <2>2. last' = <<"setpos", <<>>>> /\ Content(r)' = Content(r) /\ getpos(r)' = getpos(r)
    BY <1>1, <1>2, <2>1
  <2>3. getpos(r) \in 0..Len(Content(r))
    BY <1>6, StreamPos DEF StreamInv
  <2>4. Stream!SetPos
    BY <1>6, <2>2, <2>3 DEF Stream!SetPos
  <2>5. QED
    BY <2>4
<1>7. QED
  BY <1>2, <1>3, <1>4, <1>5, <1>6

\* A truncate(), seen as a step of the stream.
LEMMA TruncateStreams ==
  ASSUME StreamInv, StreamInv', NEW off, NEW o, TruncateCall(off, o)
  PROVE  Stream!Truncate \/ Stream!Throws \/ Stream!Astray
<1>1. r' = o.r /\ last' = IF o.thrown THEN <<"throws", <<>>>> ELSE <<"truncate", o.out>>
  BY DEF TruncateCall, Call
<1>2. /\ o.thrown => Content(o.r) = Content(r)
      /\ InStep(r) /\ ~Lengthened(r, o) => InStep(o.r)
      /\ InStep(r) => Truncates(r, off, o)
  BY DEF TruncateCall, TruncateKeeps, StreamInv, Streaming
<1>3. CASE ~InStep(r)
  <2>1. last'[1] # "size" /\ (last'[1] \in {"write", "truncate"} \/ Content(r') = Content(r))
    BY <1>1, <1>2
  <2>2. QED
    BY <1>3, <2>1, GoesAstray
<1>4. CASE InStep(r) /\ Fails(r, o)
  <2>1. last' = <<"throws", <<>>>>
    BY <1>1, <1>4 DEF Fails
  <2>2. QED
    BY <1>1, <1>4, <2>1, FailsThrows
<1>5. CASE InStep(r) /\ ~Fails(r, o)
  <2>1. /\ ~o.thrown /\ o.out = off /\ getpos(o.r) = getpos(r)
        /\ Len(Content(o.r)) = off
        /\ SubSeq(Content(o.r), 1, getpos(r)) = SubSeq(Content(r), 1, getpos(r))
    BY <1>2, <1>5 DEF Truncates
  <2>2. last' = <<"truncate", off>> /\ Content(r)' = Content(o.r) /\ getpos(r)' = getpos(r)
    BY <1>1, <2>1
  <2>3. Lengthened(r, o) => getpos(r) = Len(Content(r)) /\ Len(Content(r)) < off
    <3> SUFFICES ASSUME Lengthened(r, o) PROVE getpos(r) = Len(Content(r)) /\ Len(Content(r)) < off
      OBVIOUS
    <3>1. r.kind = "file" /\ r.feof /\ off > r.pos
      BY <2>1 DEF Lengthened
    <3>2. r.pos = Len(Content(r)) /\ getpos(r) = r.pos
      BY <1>5, <3>1 DEF InStep, getpos, IsWindow
    <3>3. QED
      BY <3>1, <3>2
  <2>4. InStep(r)' \/ (getpos(r) = Len(Content(r)) /\ Len(Content(r)) < Len(Content(r)'))
    BY <1>1, <1>2, <1>5, <2>1, <2>2, <2>3
  <2>5. Stream!Truncate
    BY <1>5, <2>1, <2>2, <2>4 DEF Stream!Truncate
  <2>6. QED
    BY <2>5
<1>6. QED
  BY <1>3, <1>4, <1>5

\* A size(), seen as a step of the stream.
LEMMA SizeStreams ==
  ASSUME StreamInv, StreamInv', NEW o, SizeCall(o)
  PROVE  Stream!Size \/ Stream!Throws \/ Stream!Astray
<1>1. r' = o.r /\ last' = IF o.thrown THEN <<"throws", <<>>>> ELSE <<"size", o.out>>
  BY DEF SizeCall, Call
<1>2. Counts(r, o) /\ InStep(o.r) = InStep(r)
  BY DEF SizeCall, SizeKeeps, StreamInv, Streaming
<1>3. CASE ~Fails(r, o)
  <2>1. /\ ~o.thrown /\ o.out = Len(Content(r)) /\ Content(o.r) = Content(r)
        /\ getpos(o.r) = getpos(r)
    BY <1>2, <1>3 DEF Counts, SameStream
  <2>2. last' = <<"size", Len(Content(r))>> /\ Content(r)' = Content(r) /\ getpos(r)' = getpos(r)
        /\ InStep(r)' = InStep(r)
    BY <1>1, <1>2, <2>1
  <2>3. Stream!Size
    BY <2>2 DEF Stream!Size
  <2>4. QED
    BY <2>3
<1>4. CASE Fails(r, o)
  <2>1. last' = <<"throws", <<>>>>
    BY <1>1, <1>4 DEF Fails
  <2>2. CASE InStep(r)
    BY <1>1, <1>4, <2>1, <2>2, FailsThrows
  <2>3. CASE ~InStep(r)
    <3>1. last'[1] # "size" /\ Content(r') = Content(r)
      BY <1>1, <1>4, <2>1 DEF Fails, SameStream
    <3>2. QED
      BY <2>3, <3>1, GoesAstray
  <2>4. QED
    BY <2>2, <2>3
<1>5. QED
  BY <1>3, <1>4

\* Every reader but the compressed one, and a window that only shifts and ends
\* before the reader below does, is the stream that util/ReadWriter.h promises
\* while it is in step; out of step only write() and truncate() change what
\* there is to read.
THEOREM IsAStream ==
  ASSUME Streams
  PROVE  Spec => IsStream
<1>1. Init => Stream!StreamInit
  <2> SUFFICES ASSUME Init PROVE Stream!StreamInit
    OBVIOUS
  <2>1. Streaming(r)
    BY StreamInit DEF StreamInv
  <2>2. InStep(r) => getpos(r) \in 0..Len(Content(r))
    BY <2>1, StreamPos
  <2>3. QED
    BY <2>2 DEF Stream!StreamInit, Init
<1>2. StreamInv /\ [Next]_vars => [Stream!StreamNext]_<<Content(r), getpos(r), InStep(r), last>>
  <2> SUFFICES ASSUME StreamInv, [Next]_vars
               PROVE  [Stream!StreamNext]_<<Content(r), getpos(r), InStep(r), last>>
    OBVIOUS
  <2>i. StreamInv'
    BY StreamStep
  <2>g. ReaderInv /\ Shape(r) /\ CopySane
    BY DEF StreamInv, ReaderInv
  <2>1. CASE Read
    <3>1. PICK n, o : ReadCall(n, o)
      BY <2>1, <2>g, ReadCalls
    <3>2. n \in Nat /\ n > 0 /\ ReadKeeps(r, n, o) /\ r' = o.r
          /\ last' = IF o.thrown THEN <<"throws", <<>>>> ELSE <<"read", o.out>>
      BY <3>1 DEF ReadCall, Call
    <3> DEFINE t == o.thrown
    <3>3. (o.thrown => t) /\ last' = IF t THEN <<"throws", <<>>>> ELSE <<"read", o.out>>
      BY <3>2
    <3> HIDE DEF t
    <3>4. Stream!Read \/ Stream!Throws \/ Stream!Astray
      BY <2>i, <3>2, <3>3, ReadStreams
    <3>5. QED
      BY <3>4 DEF Stream!StreamNext
  <2>2. CASE Write
    <3>1. PICK o : WriteCall(o)
      BY <2>2, <2>g, WriteCalls
    <3>2. QED
      BY <2>i, <3>1, WriteStreams DEF Stream!StreamNext
  <2>3. CASE SetPos
    <3>1. PICK off, o : SetPosCall(off, o)
      BY <2>3, <2>g, SetPosCalls
    <3>2. QED
      BY <2>i, <3>1, SetPosStreams DEF Stream!StreamNext
  <2>4. CASE Truncate
    <3>1. PICK off, o : TruncateCall(off, o)
      BY <2>4, <2>g, TruncateCalls
    <3>2. QED
      BY <2>i, <3>1, TruncateStreams DEF Stream!StreamNext
  <2>5. CASE Size
    <3>1. PICK o : SizeCall(o)
      BY <2>5, <2>g, SizeCalls
    <3>2. QED
      BY <2>i, <3>1, SizeStreams DEF Stream!StreamNext
  <2>6. CASE CopyStart
    BY <2>6 DEF CopyStart
  <2>7. CASE CopyStep
    <3>1. PICK o : CopyCall(o)
      BY <2>7, <2>g, CopyCalls
    <3> DEFINE t == Delivered(o).thrown
               w == Want
    <3>2. w \in Nat /\ w > 0 /\ ReadKeeps(r, w, o) /\ r' = o.r /\ copy.on
          /\ last' = IF t THEN <<"throws", <<>>>> ELSE <<"read", o.out>>
      BY <3>1 DEF CopyCall
    <3>3. o.thrown => t
      BY <2>g, <3>2, Delivers DEF ReadKeeps
    <3> HIDE DEF t, w
    <3>4. Stream!Read \/ Stream!Throws \/ Stream!Astray
      BY <2>i, <3>2, <3>3, ReadStreams
    <3>5. QED
      BY <3>4 DEF Stream!StreamNext
  <2>8. CASE UNCHANGED vars
    BY <2>8 DEF vars
  <2>9. QED
    BY <2>1, <2>2, <2>3, <2>4, <2>5, <2>6, <2>7, <2>8 DEF Next
<1>3. QED
  BY <1>1, <1>2, StreamInvariance, PTL DEF Spec, IsStream, Stream!StreamSpec

\* How far a copy is that began in step: it still is, and has what it read
\* since it began.
CopiedSoFar ==
  /\ InStep(r) /\ copy.from \in Nat /\ getpos(r) = copy.from + Len(copy.got)
  /\ copy.got = SubSeq(Content(r), copy.from + 1, copy.from + Len(copy.got))

\* The invariant of the copies.
CopyInv == StreamInv /\ (copy.on /\ copy.sure => CopiedSoFar) /\ CopyComplete

\* What was to be copied of the bytes c, from the position a on.
Due(c, a, z) ==
  LET rest == SubSeq(c, a + 1, Len(c))
  IN IF z = -1 THEN rest ELSE SubSeq(rest, 1, Min2(z, Len(rest)))

\* Between copies there is nothing to show.
LEMMA BetweenCopy == Between => (copy.on /\ copy.sure => CopiedSoFar)' /\ CopyComplete'
BY NoCopySane DEF Between, CopyComplete

\* What is left when the copy has all, or as much as was asked for.
LEMMA CopyEnds ==
  ASSUME NEW c \in Bytes, NEW a \in Nat, NEW t \in Nat, NEW z \in Int, NEW g \in Bytes,
         a + t <= Len(c), g = SubSeq(c, a + 1, a + t),
         z = -1 => a + t = Len(c),
         z # -1 => t <= z /\ (t = z \/ a + t = Len(c))
  PROVE  g = Due(c, a, z)
<1> DEFINE n == Len(c) - a
           rest == SubSeq(c, a + 1, Len(c))
<1>1. Len(c) \in Nat
  BY ONLY c \in Bytes, LenProperties DEF Bytes
<1>2. n \in Nat /\ a + n = Len(c) /\ t <= n
  <2> DEFINE l == Len(c)
  <2>1. l \in Nat /\ a + t <= l
    BY <1>1
  <2> HIDE DEF l
  <2>2. l - a \in Nat /\ a + (l - a) = l /\ t <= l - a
    BY ONLY <2>1, a \in Nat, t \in Nat
  <2>3. QED
    BY ONLY <2>2 DEF l, n
<1>3. rest = SubSeq(c, a + 1, a + n)
  BY ONLY <1>2 DEF rest
<1>d. Due(c, a, z) = IF z = -1 THEN rest ELSE SubSeq(rest, 1, Min2(z, Len(rest)))
  BY DEF Due
<1> HIDE DEF n
<1>4. rest \in Bytes /\ Len(rest) = n
  <2>1. a + n <= Len(c)
    BY <1>1, <1>2
  <2> HIDE DEF rest
  <2>2. QED
    BY <1>2, <1>3, <2>1, Part
<1>5. CASE z = -1
  <2>1. g = rest
    BY <1>5
  <2>2. QED
    BY <1>5, <1>d, <2>1
<1>6. CASE z # -1
  <2>1. Min2(z, Len(rest)) = t
    <3> DEFINE l == Len(rest)
    <3>1. l = n
      BY <1>4
    <3> HIDE DEF l, rest
    <3>2. Min2(z, l) = t
      BY <1>1, <1>2, <1>6, <3>1 DEF Min2
    <3>3. QED
      BY <3>2 DEF l
  <2>2. SubSeq(rest, 1, t) = SubSeq(c, a + 1, a + t)
    <3>1. SubSeq(SubSeq(c, a + 1, a + n), 0 + 1, 0 + t) = SubSeq(c, a + 0 + 1, a + 0 + t)
      <4>1. 0 \in Nat /\ 0 + t <= n /\ a + n <= Len(c)
        BY <1>1, <1>2
      <4>2. QED
        BY <1>2, <4>1, PartOfPart
    <3>2. 0 + 1 = 1 /\ 0 + t = t /\ a + 0 + 1 = a + 1 /\ a + 0 + t = a + t
      OBVIOUS
    <3>3. QED
      BY <1>3, <3>1, <3>2
  <2> HIDE DEF rest
  <2>3. QED
    BY <1>6, <1>d, <2>1, <2>2
<1>7. QED
  BY <1>5, <1>6

\* What the bytes c and a copy d of them come to when it is complete.
Complete(d, c, k) ==
  LET due == Due(c, d.from, d.size)
      n == Len(d.got)
      kept == Min2(n, d.dest.size)
  IN /\ n <= Len(due) /\ d.got = SubSeq(due, 1, n)
     /\ ~(k = "compressed" /\ d.size # -1) => d.got = due
     /\ SubSeq(d.dest.mem, 1, kept) = SubSeq(d.got, 1, kept)
     /\ d.dest.kind = "vector" => kept = n

\* A copy that has all it should, and has delivered it, is complete.
LEMMA CopyIsComplete ==
  ASSUME NEW d \in Copies, Holds(d.dest, d.got), NEW c, d.got = Due(c, d.from, d.size), NEW k
  PROVE  Complete(d, c, k)
<1> DEFINE g == d.got
           m == d.dest
           n == Len(g)
           kept == Min2(n, m.size)
<1>1. g \in Bytes /\ m \in Targets
  BY DEF Copies
<1>2. n \in Nat /\ GoodMemory(m)
  BY <1>1, LenProperties, TargetFacts DEF Bytes
<1>3. m.pos = kept /\ SubSeq(Held(m), 1, kept) = SubSeq(g, 1, kept) /\ (m.kind = "vector" => kept = n)
  BY DEF Holds
<1>4. SubSeq(g, 1, n) = g
  <2>1. SubSeq(g, 1, n) \in Bytes /\ Len(SubSeq(g, 1, n)) = n /\ \A i \in 1..n : SubSeq(g, 1, n)[i] = g[i]
    BY <1>1, <1>2, Start
  <2>2. QED
    BY <1>1, <2>1, Same
<1>5. SubSeq(m.mem, 1, kept) = SubSeq(g, 1, kept)
  <2>1. /\ m.mem \in Bytes /\ m.size \in Nat /\ m.size <= Len(m.mem) /\ m.pos \in Nat
        /\ m.pos <= m.size
    BY <1>2 DEF GoodMemory
  <2> DEFINE s == m.mem
             z == m.size
             p == m.pos
  <2>2. p = kept /\ Held(m) = SubSeq(s, 1, z)
    BY <1>3 DEF Held
  <2>3. s \in Bytes /\ z \in Nat /\ z <= Len(s) /\ p \in Nat /\ p <= z
    BY <2>1
  <2> HIDE DEF s, z, p, kept, g
  <2>4. 0 \in Nat /\ 0 + p <= z /\ 0 + 1 = 1 /\ 0 + p = p
    BY <2>3
  <2>5. SubSeq(SubSeq(s, 1, z), 0 + 1, 0 + p) = SubSeq(s, 0 + 1, 0 + p)
    BY <2>3, <2>4, PartOfStart
  <2>6. SubSeq(SubSeq(s, 1, z), 1, p) = SubSeq(s, 1, p)
    BY <2>4, <2>5
  <2>7. QED
    BY <1>3, <2>2, <2>6 DEF s
<1>6. g = Due(c, d.from, d.size)
  OBVIOUS
<1>7. Len(Due(c, d.from, d.size)) = n
  BY <1>6
<1>8. n <= n
  BY <1>2
<1> HIDE DEF n, kept
<1>9. QED
  BY <1>3, <1>4, <1>5, <1>6, <1>7, <1>8 DEF Complete, n, kept

\* CopyComplete says just that.
LEMMA CompleteSays ==
  /\ CopyComplete <=> (~copy.on /\ copy.sure /\ ~copy.failed => Complete(copy, Content(r), r.kind))
BY DEF CopyComplete, Complete, Due

\* A round appends what it read, and the last one leaves the copy complete.
LEMMA CopyStepKeeps ==
  CopyInv /\ CopyStep => (copy.on /\ copy.sure => CopiedSoFar)' /\ CopyComplete'
<1> SUFFICES ASSUME CopyInv, CopyStep PROVE (copy.on /\ copy.sure => CopiedSoFar)' /\ CopyComplete'
  OBVIOUS
<1>0. ReaderInv /\ Streaming(r) /\ Shape(r) /\ CopySane
  BY DEF CopyInv, StreamInv, ReaderInv
<1>1. PICK o : CopyCall(o)
  BY <1>0, CopyCalls
<1> DEFINE w == Want
           c == Content(r)
           p == getpos(r)
           d == copy'
           a == copy.from
           g == copy.got
           z == copy.size
           t == Len(g)
           k == Min2(w, Left(r))
<1>2. /\ copy.on /\ w \in Nat /\ w > 0 /\ ReadKeeps(r, w, o) /\ r' = o.r
      /\ copy' = CopyRound(w, o)
  BY <1>1 DEF CopyCall
<1>3. t \in Nat /\ (z # -1 => w <= z - t) /\ z \in Int /\ g \in Bytes
  BY <1>0, <1>2, WantFacts DEF CopySane, Copies
<1>4. o.out \in Bytes
  BY <1>2 DEF ReadKeeps
<1>5. CopySane' /\ RoundLeaves(o, d)
  BY <1>0, <1>2, <1>4, RoundSane
<1>6. d.sure = copy.sure /\ (d.on => ~d.failed) /\ d \in Copies
  BY <1>5 DEF RoundLeaves, CopySane
<1>7. CASE ~copy.sure \/ d.failed
  BY <1>6, <1>7 DEF CopyComplete
<1>8. CASE copy.sure /\ ~d.failed
  <2>1. InStep(r) /\ a \in Nat /\ p = a + t /\ g = SubSeq(c, a + 1, a + t)
    BY <1>2, <1>8 DEF CopyInv, CopiedSoFar
  <2>2. ~Delivered(o).thrown
    BY <1>5, <1>8 DEF RoundLeaves
  <2>3. ~o.thrown
    BY <1>0, <1>2, <1>4, <2>2, Delivers
  <2>4. Reads(r, w, o) /\ InStep(o.r)
    BY <1>0, <1>2, <2>1, <2>3 DEF ReadKeeps, Breaks
  <2>5. c \in Bytes /\ Len(c) \in Nat /\ p \in Nat /\ p <= Len(c) /\ Left(r) = Len(c) - p
    BY <1>0, <2>1, StreamPos DEF Left
  <2>6. k \in Nat /\ k <= w /\ p + k <= Len(c) /\ (k # w => p + k = Len(c))
    BY <1>2, <2>5 DEF Min2
  <2>7. Content(o.r) = c /\ getpos(o.r) = p + k /\ o.out = SubSeq(c, p + 1, p + k)
    BY <2>4 DEF Reads, SameStream
  <2>8. d.from = a /\ d.size = z /\ d.got = g \o o.out
        /\ (d.on <=> IF z = -1 THEN o.out # <<>> ELSE Len(o.out) = w /\ t + w < z)
    BY <1>5, <2>2 DEF RoundLeaves
  <2>9. Content(r)' = c /\ getpos(r)' = p + k /\ InStep(r)'
    BY <1>2, <2>4, <2>7
  <2>h. z # -1 => t + w <= z
    BY <1>2, <1>3
  <2> HIDE DEF w, k
  <2>10. Len(o.out) = k
    BY <2>5, <2>6, <2>7, Part
  <2> DEFINE u == t + k
  <2>11. g \o o.out = SubSeq(c, a + 1, a + u) /\ Len(g \o o.out) = u /\ g \o o.out \in Bytes
    <3>1. a + t + k <= Len(c)
      <4> DEFINE l == Len(c)
      <4>1. a \in Nat /\ t \in Nat /\ k \in Nat /\ l \in Nat /\ p = a + t /\ p + k <= l
        BY <1>3, <2>1, <2>5, <2>6
      <4> HIDE DEF l, a, t, p
      <4>2. a + t + k <= l
        BY <4>1
      <4>3. QED
        BY <4>2 DEF l
    <3>2. SubSeq(c, a + 1, a + t) \o SubSeq(c, a + t + 1, a + t + k) = SubSeq(c, a + 1, a + (t + k))
      <4>1. c \in Bytes /\ a \in Nat /\ t \in Nat /\ k \in Nat /\ a + t + k <= Len(c)
        BY <1>3, <2>1, <2>5, <2>6, <3>1
      <4> HIDE DEF c, a, t
      <4>2. QED
        BY <4>1, PartAfterPart
    <3>3. o.out = SubSeq(c, a + t + 1, a + t + k)
      BY <2>1, <2>7
    <3>4. Len(g \o o.out) = t + Len(o.out) /\ g \o o.out \in Bytes
      BY <1>3, <1>4, Join
    <3>5. QED
      BY <2>1, <2>10, <3>2, <3>3, <3>4
  <2>12. u \in Nat /\ a + u <= Len(c) /\ p + k = a + u
    <3> DEFINE l == Len(c)
    <3>1. a \in Nat /\ t \in Nat /\ k \in Nat /\ l \in Nat /\ p = a + t /\ p + k <= l
      BY <1>3, <2>1, <2>5, <2>6
    <3> HIDE DEF l, a, t, p
    <3>2. t + k \in Nat /\ a + (t + k) <= l /\ p + k = a + (t + k)
      BY <3>1
    <3>3. QED
      BY <3>2 DEF l
  <2>13. d.got = SubSeq(c, a + 1, a + u) /\ Len(d.got) = u /\ d.got \in Bytes
    BY <2>8, <2>11
  <2>14. CopiedSoFar'
    BY <2>1, <2>8, <2>9, <2>12, <2>13 DEF CopiedSoFar
  <2>15. ASSUME ~d.on PROVE d.got = Due(c, a, z)
    <3>1. z = -1 => a + u = Len(c)
      <4> SUFFICES ASSUME z = -1 PROVE a + u = Len(c)
        OBVIOUS
      <4>1. o.out = <<>>
        BY <2>8, <2>15
      <4>2. k = 0
        BY <2>10, <4>1, EmptySeq
      <4>3. k # w
        BY <1>2, <4>2 DEF w
      <4>4. QED
        BY <2>6, <2>12, <4>3
    <3>2. z # -1 => u <= z /\ (u = z \/ a + u = Len(c))
      <4> SUFFICES ASSUME z # -1 PROVE u <= z /\ (u = z \/ a + u = Len(c))
        OBVIOUS
      <4>1. k # w \/ ~(t + w < z)
        BY <2>8, <2>10, <2>15
      <4>2. t + w <= z /\ w \in Nat
        BY <1>2, <2>h DEF w
      <4>3. u <= z
        BY <1>3, <2>6, <4>2
      <4>4. CASE k # w
        BY <2>6, <2>12, <4>3, <4>4
      <4>5. CASE k = w
        <5>1. u = z
          BY <1>3, <4>1, <4>2, <4>5
        <5>2. QED
          BY <4>3, <5>1
      <4>6. QED
        BY <4>4, <4>5
    <3> DEFINE e == d.got
    <3>3. e \in Bytes /\ e = SubSeq(c, a + 1, a + u)
      BY <2>13
    <3> HIDE DEF u, e, c, a, z, g, p, t
    <3>4. e = Due(c, a, z)
      BY <1>3, <2>1, <2>5, <2>12, <3>1, <3>2, <3>3, CopyEnds
    <3>5. QED
      BY <3>4 DEF e
  <2>16. ASSUME ~d.on PROVE Complete(d, c, r'.kind)
    <3>1. d.got = Due(c, d.from, d.size)
      BY <2>8, <2>15, <2>16
    <3>2. Holds(d.dest, d.got)
      BY <1>5, <1>8 DEF CopySane
    <3> HIDE DEF d, c
    <3>3. QED
      BY <1>6, <3>1, <3>2, CopyIsComplete
  <2>17. CopyComplete'
    <3>1. (~copy.on /\ copy.sure /\ ~copy.failed => Complete(copy, Content(r), r.kind))'
      BY <2>9, <2>16
    <3>2. (CopyComplete <=> (~copy.on /\ copy.sure /\ ~copy.failed => Complete(copy, Content(r), r.kind)))'
      BY CompleteSays, PTL
    <3>3. QED
      BY <3>1, <3>2
  <2>18. QED
    BY <2>14, <2>17
<1>9. QED
  BY <1>7, <1>8

\* A copyto() that began in step and did not throw ends with all that was left,
\* or as much as was asked for, and the destination has it as far as it can
\* take it.
THEOREM CopiesAreComplete ==
  ASSUME Streams
  PROVE  Spec => []CopyComplete
<1>1. Init => CopyInv
  <2> SUFFICES ASSUME Init PROVE CopyInv
    OBVIOUS
  <2>1. copy = NoCopy /\ ~copy.sure
    BY NoCopySane DEF Init
  <2>2. QED
    BY <2>1, StreamInit DEF CopyInv, CopyComplete
<1>2. CopyInv /\ [Next]_vars => CopyInv'
  <2> SUFFICES ASSUME CopyInv, [Next]_vars PROVE CopyInv'
    OBVIOUS
  <2>1. StreamInv'
    BY StreamStep DEF CopyInv
  <2>2. CASE Between
    BY <2>1, <2>2, BetweenCopy DEF CopyInv
  <2>3. CASE CopyStart
    <3>1. CopyBegins /\ Streaming(r)
      BY <2>3, CopyStarts DEF CopyInv, StreamInv, ReaderInv
    <3>2. CopyComplete'
      BY <3>1 DEF CopyComplete, CopyBegins
    <3>3. ASSUME copy'.sure PROVE CopiedSoFar'
      <4>1. InStep(r) /\ r' = r /\ copy'.from = getpos(r) /\ copy'.got = <<>>
        BY <3>1, <3>3 DEF CopyBegins
      <4>2. getpos(r) \in Nat /\ Len(<<>>) = 0
        BY <3>1, <4>1, StreamPos, EmptySeq
      <4>3. getpos(r) = getpos(r) + Len(<<>>)
        BY <4>2
      <4>4. <<>> = SubSeq(Content(r), getpos(r) + 1, getpos(r) + Len(<<>>))
        BY <3>1, <4>2, StreamPos, SubSeqEmpty
      <4>5. QED
        BY <4>1, <4>2, <4>3, <4>4 DEF CopiedSoFar
    <3>4. QED
      BY <2>1, <3>2, <3>3 DEF CopyInv
  <2>4. CASE CopyStep
    BY <2>1, <2>4, CopyStepKeeps DEF CopyInv
  <2>5. CASE UNCHANGED vars
    BY <2>1, <2>5 DEF vars, CopyInv, CopiedSoFar, CopyComplete
  <2>6. QED
    BY <2>2, <2>3, <2>4, <2>5 DEF Next, Read, Write, SetPos, Truncate, Size
<1>3. CopyInv => CopyComplete
  BY DEF CopyInv
<1>4. QED
  BY <1>1, <1>2, <1>3, PTL DEF Spec
=============================================================================
