------------------------- MODULE StringText_proofs -------------------------
(***************************************************************************)
(* Proof that strings of bytes are read back as they were written, in all  *)
(* the forms that StringTools has for them, whatever their length.         *)
(***************************************************************************)
EXTENDS StringText, SequenceFacts

Char == 0..255
Str == Seq(Char)

-----------------------------------------------------------------------------
(* Numbers. *)

\* One digit more.
Shifted(base) == [p \in Int \X Int |-> p[1] * base + p[2]]

\* The number that digits mean is such a fold.
LEMMA PositionalIsFold ==
  ASSUME NEW base \in Int, NEW s \in Seq(Int)
  PROVE  Positional(s, base) = Fold(Shifted(base), 0, s) /\ Steps(Shifted(base), Int, Int)
<1> DEFINE n == Len(s)
           step == Shifted(base)
           Is(f) == f = [k \in 0..n |-> IF k = 0 THEN 0 ELSE f[k - 1] * base + s[k]]
           g == CHOOSE f : Is(f)
<1>1. \A v \in Int, e \in Int : step[v, e] = v * base + e
  BY DEF Shifted
<1> HIDE DEF step
<1>2. Steps(step, Int, Int)
  <2>1. \A v \in Int, e \in Int : v * base + e \in Int
    OBVIOUS
  <2>2. QED
    BY <1>1, <2>1 DEF Steps
<1>3. n \in Nat /\ \A k \in 1..n : s[k] \in Int
  BY LenProperties, ElementOfSeq
<1>4. PICK h : ValuesOf(h, step, 0, s, n, Int)
  BY <1>2, FoldExists
<1>5. \E f : Is(f)
  <2> DEFINE d == [k \in 0..n |-> h[k]]
  <2>1. ASSUME NEW k \in 0..n PROVE d[k] = IF k = 0 THEN 0 ELSE d[k - 1] * base + s[k]
    <3>1. CASE k = 0
      BY <1>4, <3>1 DEF ValuesOf
    <3>2. CASE k # 0
      <4>1. k \in 1..n /\ k - 1 \in 0..n
        BY <1>3, <3>2
      <4>2. h[k] = step[h[k - 1], s[k]] /\ h[k - 1] \in Int /\ d[k] = h[k] /\ d[k - 1] = h[k - 1]
        BY <1>4, <4>1 DEF ValuesOf
      <4> HIDE DEF d
      <4>3. QED
        BY <1>1, <1>3, <3>2, <4>1, <4>2, ZenonT(30)
    <3>3. QED
      BY <3>1, <3>2
  <2>2. d = [k \in 0..n |-> d[k]]
    OBVIOUS
  <2> HIDE DEF d
  <2>3. Is(d)
    BY <2>1, <2>2
  <2>4. QED
    BY <2>3
<1>6. Is(g)
  BY <1>5
<1>7. Positional(s, base) = g[n]
  BY Zenon DEF Positional, Scan
<1> HIDE DEF g
<1>8. Follows(g, step, 0, s, n, Int)
  <2>1. g[0] = 0
    BY <1>3, <1>6
  <2>2. ASSUME NEW k \in 1..n, g[k - 1] \in Int PROVE g[k] = step[g[k - 1], s[k]]
    <3>1. k \in 0..n /\ k # 0
      BY <1>3
    <3>2. g[k] = g[k - 1] * base + s[k]
      BY <1>6, <3>1
    <3>3. QED
      BY <1>1, <1>3, <2>2, <3>2
  <2>3. QED
    BY <2>1, <2>2 DEF Follows
<1>9. g[n] = Fold(step, 0, s)
  <2> DEFINE Z == Int
             start == 0
  <2>1. Steps(step, Z, Z) /\ start \in Z /\ s \in Seq(Z) /\ Follows(g, step, start, s, Len(s), Z)
    BY <1>2, <1>8
  <2> HIDE DEF Z, start
  <2>2. g[Len(s)] = Fold(step, start, s)
    BY <2>1, FoldIs
  <2>3. QED
    BY <2>2 DEF start
<1>10. QED
  BY <1>2, <1>7, <1>9 DEF step

\* Of no digits, and of one more.
LEMMA PositionalAppend ==
  ASSUME NEW base \in Int, NEW s \in Seq(Int), NEW d \in Int
  PROVE  /\ Positional(s, base) \in Int /\ Positional(<<>>, base) = 0
         /\ Positional(Append(s, d), base) = Positional(s, base) * base + d
<1> DEFINE step == Shifted(base)
<1>1. /\ Positional(s, base) = Fold(step, 0, s) /\ Steps(step, Int, Int)
      /\ Positional(<<>>, base) = Fold(step, 0, <<>>)
  BY PositionalIsFold, EmptySeq
<1>2. Positional(Append(s, d), base) = Fold(step, 0, Append(s, d))
  BY PositionalIsFold, AppendProperties
<1>3. FoldsOn(step, 0, s, d, Int)
  <2> DEFINE Z == Int
             start == 0
  <2> HIDE DEF step
  <2>1. Steps(step, Z, Z) /\ start \in Z /\ s \in Seq(Z) /\ d \in Z
    BY <1>1
  <2> HIDE DEF Z, start
  <2>2. FoldsOn(step, start, s, d, Z)
    BY <2>1, FoldAppend
  <2>3. QED
    BY <2>2 DEF Z, start
<1>4. Fold(step, 0, <<>>) = 0
  BY <1>1, FoldEmpty
<1>5. \A v \in Int : step[v, d] = v * base + d
  BY DEF Shifted
<1> HIDE DEF step
<1>6. QED
  BY <1>1, <1>2, <1>3, <1>4, <1>5 DEF FoldsOn

\* What a character is worth, and how it is written.
LEMMA Nybles ==
  /\ \A n \in 0..15 : nyble2hexchar(n) \in 48..102 /\ char2nyble(nyble2hexchar(n)) = n
  /\ \A c \in Int : char2nyble(c) \in -1..35
<1>1. ASSUME NEW n \in 0..15 PROVE nyble2hexchar(n) \in 48..102 /\ char2nyble(nyble2hexchar(n)) = n
  <2>1. CASE n < 10
    <3>1. nyble2hexchar(n) = 48 + n
      BY <2>1 DEF nyble2hexchar
    <3>2. 48 + n \in 48..57
      BY <2>1
    <3>3. QED
      BY <3>1, <3>2 DEF char2nyble
  <2>2. CASE ~(n < 10)
    <3>1. nyble2hexchar(n) = 87 + n
      BY <2>2 DEF nyble2hexchar
    <3>2. 87 + n \in 97..122 /\ 87 + n \in 48..102 /\ 87 + n \notin 48..57 /\ 87 + n \notin 65..90
      BY <2>2
    <3>3. QED
      BY <3>1, <3>2 DEF char2nyble
  <2>3. QED
    BY <2>1, <2>2
<1>2. ASSUME NEW c \in Int PROVE char2nyble(c) \in -1..35
  BY DEF char2nyble
<1>3. QED
  BY <1>1, <1>2

\* A number of no digits, and of one more.
LEMMA NumberAppend ==
  ASSUME NEW base \in Int, NEW s \in Seq(Int), NEW c \in Int
  PROVE  /\ Number(s, base) \in Int /\ Number(<<>>, base) = 0
         /\ Number(Append(s, c), base) = Number(s, base) * base + char2nyble(c)
<1> DEFINE v(u) == [k \in DOMAIN u |-> char2nyble(u[k])]
           F == [e \in Int |-> char2nyble(e)]
           a == Append(s, c)
<1>1. F \in [Int -> Int]
  <2>1. ASSUME NEW e \in Int PROVE char2nyble(e) \in Int
    <3>1. char2nyble(e) \in -1..35
      BY Nybles
    <3>2. \A x \in -1..35 : x \in Int
      OBVIOUS
    <3> HIDE DEF F
    <3>3. QED
      BY <3>1, <3>2
  <2>2. QED
    BY <2>1
<1>2. \A u \in Seq(Int) : v(u) \in Seq(Int) /\ Len(v(u)) = Len(u) /\ \A k \in 1..Len(u) : v(u)[k] = char2nyble(u[k])
  <2> SUFFICES ASSUME NEW u \in Seq(Int)
               PROVE  v(u) \in Seq(Int) /\ Len(v(u)) = Len(u) /\ \A k \in 1..Len(u) : v(u)[k] = char2nyble(u[k])
    OBVIOUS
  <2>1. DOMAIN u = 1..Len(u) /\ \A k \in 1..Len(u) : u[k] \in Int
    BY LenProperties, ElementOfSeq
  <2>2. v(u) = Mapped(F, u)
    BY <2>1 DEF Mapped
  <2>3. MapsTo(Mapped(F, u), F, u, Int)
    BY <1>1, MappedElements
  <2> HIDE DEF v
  <2>4. \A k \in 1..Len(u) : F[u[k]] = char2nyble(u[k])
    BY <2>1
  <2> HIDE DEF F
  <2>5. QED
    BY <2>2, <2>3, <2>4 DEF MapsTo
<1>3. a \in Seq(Int) /\ Len(a) = Len(s) + 1 /\ a[Len(s) + 1] = c /\ \A k \in 1..Len(s) : a[k] = s[k]
  BY AppendProperties
<1>4. char2nyble(c) \in Int /\ Len(s) \in Nat
  <2>1. F[c] \in Int /\ Len(s) \in Nat
    BY <1>1, LenProperties
  <2>2. QED
    BY <2>1
<1>5. v(a) = Append(v(s), char2nyble(c))
  <2> DEFINE p == v(a)
             q == v(s)
             r == Append(q, char2nyble(c))
  <2>1. p \in Seq(Int) /\ Len(p) = Len(s) + 1 /\ \A k \in 1..(Len(s) + 1) : p[k] = char2nyble(a[k])
    BY <1>2, <1>3
  <2>2. q \in Seq(Int) /\ Len(q) = Len(s) /\ \A k \in 1..Len(s) : q[k] = char2nyble(s[k])
    BY <1>2
  <2> HIDE DEF p, q, a
  <2>3. r \in Seq(Int) /\ Len(r) = Len(s) + 1 /\ r[Len(s) + 1] = char2nyble(c) /\ \A k \in 1..Len(s) : r[k] = q[k]
    BY <1>4, <2>2, AppendProperties
  <2> HIDE DEF r
  <2>4. \A k \in 1..(Len(s) + 1) : p[k] = r[k]
    <3> TAKE k \in 1..(Len(s) + 1)
    <3>1. CASE k \in 1..Len(s)
      BY <1>3, <2>1, <2>2, <2>3, <3>1
    <3>2. CASE k = Len(s) + 1
      BY <1>3, <2>1, <2>3, <3>2
    <3>3. QED
      BY <1>4, <3>1, <3>2
  <2>5. p = r
    BY <2>1, <2>3, <2>4, SeqEqual
  <2>6. QED
    BY <2>5 DEF p, q, r
<1>6. v(<<>>) = <<>>
  OBVIOUS
<1>7. \A u : Number(u, base) = Positional(v(u), base)
  BY DEF Number
<1> HIDE DEF v, a
<1>8. v(s) \in Seq(Int)
  BY <1>2
<1>9. /\ Positional(v(s), base) \in Int /\ Positional(<<>>, base) = 0
      /\ Positional(Append(v(s), char2nyble(c)), base) = Positional(v(s), base) * base + char2nyble(c)
  BY <1>4, <1>8, PositionalAppend
<1>10. QED
  BY <1>5, <1>6, <1>7, <1>9 DEF a

\* Where the digits end.
LEMMA DigitsEndIs ==
  ASSUME NEW s \in Str, NEW base, NEW i \in 1..Len(s) + 1, NEW j \in i..Len(s) + 1,
         j <= Len(s) => ~Digit(s[j], base), \A k \in i..(j - 1) : Digit(s[k], base)
  PROVE  DigitsEnd(s, i, base) = j
<1> DEFINE Ends(m) == (m <= Len(s) => ~Digit(s[m], base)) /\ \A k \in i..(m - 1) : Digit(s[k], base)
           e == CHOOSE m \in i..Len(s) + 1 : Ends(m)
<1>1. e \in i..Len(s) + 1 /\ Ends(e)
  OBVIOUS
<1>2. DigitsEnd(s, i, base) = e
  BY Zenon DEF DigitsEnd
<1> HIDE DEF e
<1>3. Len(s) \in Nat
  BY LenProperties DEF Str
<1>4. ~(e < j)
  BY <1>1, <1>3
<1>5. ~(j < e)
  BY <1>1, <1>3
<1>6. QED
  BY <1>1, <1>2, <1>3, <1>4, <1>5

\* They end somewhere.
LEMMA DigitsEndThere ==
  ASSUME NEW s \in Str, NEW base, NEW i \in 1..Len(s) + 1
  PROVE  /\ DigitsEnd(s, i, base) \in i..Len(s) + 1
         /\ \A k \in i..(DigitsEnd(s, i, base) - 1) : Digit(s[k], base)
         /\ DigitsEnd(s, i, base) <= Len(s) => ~Digit(s[DigitsEnd(s, i, base)], base)
<1> DEFINE K == {k \in i..Len(s) + 1 : k <= Len(s) => ~Digit(s[k], base)}
<1>1. Len(s) \in Nat
  BY LenProperties DEF Str
<1>2. K \subseteq Nat /\ Len(s) + 1 \in K
  BY <1>1
<1>3. PICK m \in K : \A k \in K : m <= k
  BY <1>2, Smallest
<1>4. \A k \in i..(m - 1) : Digit(s[k], base)
  BY <1>1, <1>3
<1>5. m \in i..Len(s) + 1 /\ (m <= Len(s) => ~Digit(s[m], base))
  BY <1>3
<1>6. DigitsEnd(s, i, base) = m
  BY <1>4, <1>5, DigitsEndIs
<1>7. QED
  BY <1>4, <1>5, <1>6

-----------------------------------------------------------------------------
(* Chunks. *)

\* n more.
LEMMA QuotientStep ==
  \A m \in Nat, n \in Nat \ {0} : (m + n) \div n = m \div n + 1
  OBVIOUS

\* How many chunks there are.
Count(s, n) == (Len(s) + n - 1) \div n
\* None of nothing, one of what fits, and one more of more.
LEMMA Counts ==
  ASSUME NEW n \in Nat \ {0}
  PROVE  /\ (0 + n - 1) \div n = 0
         /\ \A m \in 1..n : (m + n - 1) \div n = 1
         /\ \A m \in Nat : (m + n + n - 1) \div n = (m + n - 1) \div n + 1 /\ (m + n - 1) \div n \in Nat
                           /\ ((m + n - 1) \div n) * n >= m /\ (m > 0 => ((m + n - 1) \div n - 1) * n < m)
  OBVIOUS
\* The smaller one of two.
LEMMA MinIs ==
  ASSUME NEW a \in Int, NEW b \in Int
  PROVE  Min({a, b}) = IF a <= b THEN a ELSE b
<1> DEFINE m == IF a <= b THEN a ELSE b
<1>1. m \in {a, b} /\ \A y \in {a, b} : m <= y
  OBVIOUS
<1>2. \A x \in {a, b} : (\A y \in {a, b} : x <= y) => x = m
  OBVIOUS
<1> HIDE DEF m
<1>3. Min({a, b}) = m
  BY <1>1, <1>2 DEF Min
<1>4. QED
  BY <1>3 DEF m

\* The larger one of two.
LEMMA MaxIs ==
  ASSUME NEW a \in Int, NEW b \in Int
  PROVE  Max({a, b}) = IF a <= b THEN b ELSE a
<1> DEFINE m == IF a <= b THEN b ELSE a
<1>1. m \in {a, b} /\ \A y \in {a, b} : m >= y
  OBVIOUS
<1>2. \A x \in {a, b} : (\A y \in {a, b} : x >= y) => x = m
  OBVIOUS
<1> HIDE DEF m
<1>3. Max({a, b}) = m
  BY <1>1, <1>2 DEF Max
<1>4. QED
  BY <1>3 DEF m

\* The chunks in their order.
LEMMA ChunksAre ==
  ASSUME NEW S, NEW s \in Seq(S), NEW n \in Nat \ {0}
  PROVE  /\ Chunks(s, n) \in Seq(Seq(S)) /\ Len(Chunks(s, n)) = Count(s, n) /\ Count(s, n) \in Nat
         /\ \A k \in 1..Count(s, n) : Chunks(s, n)[k] = SubSeq(s, (k - 1) * n + 1, Min({k * n, Len(s)}))
<1> DEFINE m == Count(s, n)
           x(k) == SubSeq(s, (k - 1) * n + 1, Min({k * n, Len(s)}))
           c == [k \in 1..m |-> x(k)]
<1>1. Len(s) \in Nat /\ m \in Nat
  BY LenProperties, Counts DEF Count
<1>2. Chunks(s, n) = c
  BY DEF Chunks, Count
<1>3. ASSUME NEW k \in 1..m PROVE x(k) \in Seq(S)
  <2> DEFINE b == Min({k * n, Len(s)})
             a == (k - 1) * n + 1
  <2>0. k * n \in Int /\ a \in Nat /\ a >= 1
    BY <1>1
  <2>1. b \in Int /\ b <= Len(s)
    BY <1>1, <2>0, MinIs
  <2> HIDE DEF a, b
  <2>2. \A i \in a..b : s[i] \in S
    BY <1>1, <2>0, <2>1, ElementOfSeq
  <2>3. SubSeq(s, a, b) \in Seq(S)
    BY <2>0, <2>1, <2>2, SubSeqProperties
  <2>4. QED
    BY <2>3 DEF a, b
<1> HIDE DEF m, x
<1>4. c \in Seq(Seq(S)) /\ Len(c) = m /\ \A k \in 1..m : c[k] = x(k)
  BY <1>1, <1>3
<1>5. QED
  BY <1>1, <1>2, <1>4 DEF m, x

\* None of nothing, itself of what fits.
LEMMA ChunksShort ==
  ASSUME NEW S, NEW s \in Seq(S), NEW n \in Nat \ {0}, Len(s) <= n
  PROVE  Chunks(s, n) = IF s = <<>> THEN <<>> ELSE <<s>>
<1> DEFINE c == Chunks(s, n)
<1>1. /\ c \in Seq(Seq(S)) /\ Len(c) = Count(s, n)
      /\ \A k \in 1..Count(s, n) : c[k] = SubSeq(s, (k - 1) * n + 1, Min({k * n, Len(s)}))
  BY ChunksAre
<1> HIDE DEF c
<1>2. Len(s) \in Nat
  BY LenProperties
<1>3. CASE s = <<>>
  <2>1. Len(c) = 0
    BY <1>1, <1>3, Counts DEF Count
  <2>2. c = <<>>
    BY <1>1, <2>1, EmptySeq
  <2>3. QED
    BY <1>3, <2>2 DEF c
<1>4. CASE s # <<>>
  <2>1. Len(s) \in 1..n
    BY <1>2, <1>4, EmptySeq
  <2>2. Len(c) = 1 /\ Count(s, n) = 1
    BY <1>1, <2>1, Counts DEF Count
  <2>3. c[1] = SubSeq(s, (1 - 1) * n + 1, Min({1 * n, Len(s)}))
    <3>1. 1 \in 1..Count(s, n)
      BY <2>2
    <3>2. QED
      BY <1>1, <3>1
  <2>4. (1 - 1) * n + 1 = 1 /\ Min({1 * n, Len(s)}) = Len(s)
    <3>1. 1 * n = n
      OBVIOUS
    <3>2. QED
      BY <1>2, <3>1, MinIs
  <2>5. c[1] = s
    BY <2>3, <2>4, SuffixEnds DEF Suffix
  <2> DEFINE d == <<s>>
  <2>6. d \in Seq(Seq(S)) /\ Len(d) = 1 /\ d[1] = s
    BY One
  <2> HIDE DEF d
  <2>7. \A k \in 1..1 : c[k] = d[k]
    BY <2>5, <2>6
  <2>8. c = d
    BY <1>1, <2>2, <2>6, <2>7, SeqEqual
  <2>9. QED
    BY <1>4, <2>8 DEF c, d
<1>5. QED
  BY <1>3, <1>4

\* One that is full comes first.
LEMMA ChunksMore ==
  ASSUME NEW S, NEW n \in Nat \ {0}, NEW a \in Seq(S), Len(a) = n, NEW t \in Seq(S)
  PROVE  Chunks(a \o t, n) = <<a>> \o Chunks(t, n)
<1> DEFINE s == a \o t
           c == Chunks(s, n)
           d == Chunks(t, n)
           e == <<a>> \o d
<1>1. s \in Seq(S) /\ Len(s) = Len(t) + n /\ Len(t) \in Nat
  <2>1. Len(a) \in Nat /\ Len(t) \in Nat
    BY LenProperties
  <2>2. s \in Seq(S) /\ Len(s) = Len(a) + Len(t)
    BY ConcatProperties
  <2> HIDE DEF s
  <2>3. QED
    BY <2>1, <2>2
<1>p. SubSeq(s, 1, n) = a
  BY PrefixOfJoin
<1> HIDE DEF s
<1>2. /\ c \in Seq(Seq(S)) /\ Len(c) = Count(s, n)
      /\ \A k \in 1..Count(s, n) : c[k] = SubSeq(s, (k - 1) * n + 1, Min({k * n, Len(s)}))
  BY <1>1, ChunksAre
<1>3. /\ d \in Seq(Seq(S)) /\ Len(d) = Count(t, n) /\ Count(t, n) \in Nat
      /\ \A k \in 1..Count(t, n) : d[k] = SubSeq(t, (k - 1) * n + 1, Min({k * n, Len(t)}))
  BY ChunksAre
<1> HIDE DEF c, d
<1>4. Count(s, n) = Count(t, n) + 1
  BY <1>1, Counts DEF Count
<1>5. e \in Seq(Seq(S)) /\ Len(e) = Count(t, n) + 1 /\ e[1] = a /\ \A i \in 1..Count(t, n) : e[i + 1] = d[i]
  BY <1>3, ConsElements
<1> HIDE DEF e
<1>6. c[1] = e[1]
  <2>1. c[1] = SubSeq(s, (1 - 1) * n + 1, Min({1 * n, Len(s)}))
    <3>1. 1 \in 1..Count(s, n)
      BY <1>3, <1>4
    <3>2. QED
      BY <1>2, <3>1
  <2>2. (1 - 1) * n + 1 = 1 /\ 1 * n = n
    OBVIOUS
  <2>3. Min({n, Len(s)}) = n
    BY <1>1, MinIs
  <2>4. QED
    BY <1>5, <1>p, <2>1, <2>2, <2>3
<1>7. ASSUME NEW i \in 1..Count(t, n) PROVE c[i + 1] = e[i + 1]
  <2> DEFINE p == (i - 1) * n + 1
             q == Min({i * n, Len(t)})
             k == i + 1
  <2>0. k \in 1..Count(s, n)
    BY <1>3, <1>4
  <2>1. c[k] = SubSeq(s, (k - 1) * n + 1, Min({k * n, Len(s)}))
    BY <1>2, <2>0
  <2>2. (k - 1) * n + 1 = n + p /\ k * n = n + i * n /\ i * n \in Int
    OBVIOUS
  <2>3. Min({k * n, Len(s)}) = n + q
    <3> DEFINE x == i * n
    <3>1. x \in Int /\ k * n = n + x
      BY <2>2
    <3> HIDE DEF x, k
    <3>4. Len(s) = n + Len(t)
      BY <1>1
    <3>5. n + Min({x, Len(t)}) = Min({n + x, n + Len(t)})
      <4> DEFINE y == Len(t)
      <4>1. y \in Nat
        BY <1>1
      <4> HIDE DEF y
      <4>2. Min({n + x, n + y}) = IF n + x <= n + y THEN n + x ELSE n + y
        BY <3>1, <4>1, MinIs
      <4>3. Min({x, y}) = IF x <= y THEN x ELSE y
        BY <3>1, <4>1, MinIs
      <4>4. n + Min({x, y}) = Min({n + x, n + y})
        <5>1. CASE x <= y
          BY <3>1, <4>1, <4>2, <4>3, <5>1
        <5>2. CASE ~(x <= y)
          BY <3>1, <4>1, <4>2, <4>3, <5>2
        <5>3. QED
          BY <5>1, <5>2
      <4>5. QED
        BY <4>4 DEF y
    <3>6. QED
      BY <3>1, <3>4, <3>5 DEF x
  <2>4. (i - 1) * n < Len(t) /\ (i - 1) * n \in Nat
    <3>1. CASE Len(t) = 0
      <4>1. Count(t, n) = 0
        BY <3>1, Counts DEF Count
      <4>2. QED
        BY <4>1
    <3>2. CASE Len(t) # 0
      <4>1. (Count(t, n) - 1) * n < Len(t)
        BY <1>1, <3>2, Counts DEF Count
      <4>2. i - 1 \in Nat /\ i - 1 <= Count(t, n) - 1
        BY <1>3
      <4>3. (i - 1) * n <= (Count(t, n) - 1) * n /\ (i - 1) * n \in Nat
        <5> DEFINE x == i - 1
                   y == Count(t, n) - 1
        <5>1. x \in Nat /\ y \in Nat /\ x <= y
          BY <1>3, <4>2
        <5> HIDE DEF x, y
        <5>2. x * n <= y * n /\ x * n \in Nat
          BY <5>1
        <5>3. QED
          BY <5>2 DEF x, y
      <4>4. QED
        BY <1>1, <1>3, <4>1, <4>3
    <3>3. QED
      BY <3>1, <3>2
  <2>5. p \in 1..Len(t) + 1 /\ q \in (p - 1)..Len(t)
    <3>1. i * n = (i - 1) * n + n
      OBVIOUS
    <3>2. q = IF i * n <= Len(t) THEN i * n ELSE Len(t)
      BY <1>1, <2>2, MinIs
    <3>3. QED
      BY <1>1, <2>4, <3>1, <3>2
  <2>6. d[i] = SubSeq(t, p, q)
    BY <1>3
  <2>7. e[k] = d[i]
    BY <1>5
  <2> HIDE DEF p, q, k
  <2>8. SubSeq(s, n + p, n + q) = SubSeq(t, p, q)
    <3> DEFINE x == n + p
               y == n + q
    <3>1. x = Len(a) + p /\ y = Len(a) + q
      OBVIOUS
    <3> HIDE DEF x, y
    <3>2. SamePart(a, t, x, y, p, q)
      BY ONLY a \in Seq(S), t \in Seq(S), <2>5, <3>1, PartOfJoin
    <3>3. QED
      BY <3>2 DEF s, x, y, SamePart
  <2>9. c[k] = e[k]
    BY <2>1, <2>2, <2>3, <2>6, <2>7, <2>8
  <2>10. QED
    BY <2>9 DEF k
<1>8. \A k \in 1..(Count(t, n) + 1) : c[k] = e[k]
  <2> TAKE k \in 1..(Count(t, n) + 1)
  <2>1. CASE k = 1
    BY <1>6, <2>1
  <2>2. CASE k # 1
    <3> DEFINE i == k - 1
    <3>1. i \in 1..Count(t, n) /\ i + 1 = k
      BY <1>3, <2>2
    <3> HIDE DEF i
    <3>2. c[i + 1] = e[i + 1]
      BY <1>7, <3>1
    <3>3. QED
      BY <3>1, <3>2
  <2>3. QED
    BY <2>1, <2>2
<1>9. c = e
  BY <1>2, <1>4, <1>5, <1>8, SeqEqual
<1>10. QED
  BY <1>9 DEF c, d, e, s

-----------------------------------------------------------------------------
(* base64. *)

\* A number of four digits.
LEMMA PositionalFour ==
  ASSUME NEW base \in Int, NEW s \in Seq(Int), Len(s) = 4
  PROVE  Positional(s, base) = ((s[1] * base + s[2]) * base + s[3]) * base + s[4]
<1> DEFINE p(k) == Positional(SubSeq(s, 1, k), base)
<1>1. ASSUME NEW k \in 1..4, NEW j, j = k - 1
      PROVE  p(k) = p(j) * base + s[k] /\ p(j) \in Int /\ s[k] \in Int
  <2> DEFINE t == SubSeq(s, 1, j)
  <2>1. SubSeq(s, 1, k) = SubSeq(s, 1, k - 1) \o <<s[k]>>
    BY SubSeqRecursiveSecond
  <2>2. t \in Seq(Int) /\ s[k] \in Int
    <3>1. j \in 0..Len(s) /\ k \in 1..Len(s)
      BY <1>1
    <3>2. SubSeq(s, 1, j) \in Seq(Int)
      BY <3>1, CutIsWhole
    <3>3. QED
      BY <3>1, <3>2, ElementOfSeq
  <2>3. SubSeq(s, 1, k) = t \o <<s[k]>>
    BY <1>1, <2>1
  <2> HIDE DEF t
  <2>4. t \o <<s[k]>> = Append(t, s[k])
    BY <2>2, AppendIsConcat
  <2>5. /\ Positional(t, base) \in Int
        /\ Positional(Append(t, s[k]), base) = Positional(t, base) * base + s[k]
    BY <2>2, PositionalAppend
  <2>6. p(k) = Positional(Append(t, s[k]), base)
    BY <2>3, <2>4
  <2>7. p(j) = Positional(t, base)
    BY DEF t
  <2> HIDE DEF p
  <2>8. QED
    BY <2>2, <2>5, <2>6, <2>7
<1>2. p(0) = 0
  <2>1. SubSeq(s, 1, 0) = <<>>
    BY SubSeqEmpty
  <2>2. Positional(<<>>, base) = 0
    BY EmptySeq, PositionalAppend
  <2>3. QED
    BY <2>1, <2>2
<1>3. Positional(s, base) = p(4)
  BY SuffixEnds DEF Suffix
<1> HIDE DEF p
<1>4. p(1) = p(0) * base + s[1] /\ s[1] \in Int
  BY <1>1
<1>5. p(2) = p(1) * base + s[2] /\ s[2] \in Int
  BY <1>1
<1>6. p(3) = p(2) * base + s[3]
  BY <1>1
<1>7. p(4) = p(3) * base + s[4]
  BY <1>1
<1>8. 0 * base + s[1] = s[1]
  BY <1>4
<1>9. QED
  BY <1>2, <1>3, <1>4, <1>5, <1>6, <1>7, <1>8

Digit64 == 0..63
Quad == {c \in Seq(Digit64) : Len(c) \in 1..4}
Bytes(c) ==
  LET v == Positional(c \o [k \in 1..(4 - Len(c)) |-> 0], 64)
  IN <<v \div 65536, (v \div 256) % 256, v % 256>>
DecChunk == [c \in Quad |-> SubSeq(Bytes(c), 1, Len(c) - 1)]

\* The digit at a place, 0 where there is none.
At(c, i) == IF i <= Len(c) THEN c[i] ELSE 0

\* The bytes are those of the number that the digits are.
LEMMA BytesAre ==
  ASSUME NEW c \in Quad,
         NEW v, v = ((At(c, 1) * 64 + At(c, 2)) * 64 + At(c, 3)) * 64 + At(c, 4)
  PROVE  /\ v \in Int /\ Bytes(c) = <<v \div 65536, (v \div 256) % 256, v % 256>>
         /\ Bytes(c) \in Seq(Int) /\ Len(Bytes(c)) = 3
<1> DEFINE n == Len(c)
           m == 4 - n
           z == [k \in 1..m |-> 0]
           w == c \o z
<1>1. c \in Seq(Int) /\ n \in 1..4
  <2>1. Digit64 \subseteq Int
    BY DEF Digit64
  <2>2. QED
    BY <2>1, SeqMonotonic DEF Quad
<1>a. Bytes(c) = LET u == Positional(w, 64) IN <<u \div 65536, (u \div 256) % 256, u % 256>>
  BY DEF Bytes
<1>b. \A k \in 1..4 : At(c, k) = IF k <= n THEN c[k] ELSE 0
  BY DEF At
<1>c. n = Len(c)
  OBVIOUS
<1> HIDE DEF n
<1>d. m \in Nat /\ n + m = 4
  BY <1>1
<1> HIDE DEF m
<1>2. z \in Seq(Int) /\ Len(z) = m /\ \A k \in 1..m : z[k] = 0
  <2>1. z \in [1..m -> Int]
    OBVIOUS
  <2>2. QED
    BY <1>d, <2>1
<1> HIDE DEF z
<1>3. /\ w \in Seq(Int) /\ Len(w) = 4
      /\ \A k \in 1..n + m : w[k] = IF k <= n THEN c[k] ELSE z[k - n]
  <2>1. /\ w \in Seq(Int) /\ Len(w) = Len(c) + Len(z)
        /\ \A k \in 1..Len(c) + Len(z) : w[k] = IF k <= Len(c) THEN c[k] ELSE z[k - Len(c)]
    BY <1>1, <1>2, ConcatProperties
  <2> HIDE DEF w
  <2>2. QED
    BY <1>2, <1>c, <1>d, <2>1
<1> HIDE DEF w
<1>4. ASSUME NEW k \in 1..4 PROVE w[k] = At(c, k)
  <2>1. w[k] = IF k <= n THEN c[k] ELSE z[k - n]
    BY <1>3, <1>d
  <2>2. k <= n \/ k - n \in 1..m
    BY <1>1, <1>d
  <2>3. QED
    BY <1>2, <1>b, <2>1, <2>2
<1>5. Positional(w, 64) = ((w[1] * 64 + w[2]) * 64 + w[3]) * 64 + w[4]
  BY <1>3, PositionalFour
<1>6. Positional(w, 64) = v
  <2>1. w[1] = At(c, 1) /\ w[2] = At(c, 2) /\ w[3] = At(c, 3) /\ w[4] = At(c, 4)
    BY <1>4
  <2>2. QED
    BY <1>5, <2>1
<1>7. v \in Int
  <2>1. \A k \in 1..4 : w[k] \in Int
    BY <1>3, ElementOfSeq
  <2>2. w[1] \in Int /\ w[2] \in Int /\ w[3] \in Int /\ w[4] \in Int
    BY <2>1
  <2>3. QED
    BY <1>5, <1>6, <2>2
<1>8. Bytes(c) = <<v \div 65536, (v \div 256) % 256, v % 256>>
  BY <1>6, <1>a
<1>9. QED
  BY <1>7, <1>8

\* The digits of three bytes, and the bytes of these digits.
LEMMA SixBits ==
  ASSUME NEW x \in Char, NEW y \in Char, NEW z \in Char
  PROVE  /\ x \div 4 \in Digit64 /\ (x % 4) * 16 + (y \div 16) \in Digit64
         /\ (y % 16) * 4 + (z \div 64) \in Digit64 /\ z % 64 \in Digit64
         /\ ((((x \div 4) * 64) + ((x % 4) * 16 + (y \div 16))) * 64 + ((y % 16) * 4 + (z \div 64))) * 64 + (z % 64)
              = x * 65536 + y * 256 + z
<1>1. x \in 0..255 /\ y \in 0..255 /\ z \in 0..255
  BY DEF Char
<1>2. x \div 4 \in 0..63 /\ x % 4 \in 0..3 /\ x = (x \div 4) * 4 + (x % 4)
  BY <1>1
<1>3. y \div 16 \in 0..15 /\ y % 16 \in 0..15 /\ y = (y \div 16) * 16 + (y % 16)
  BY <1>1
<1>4. z \div 64 \in 0..3 /\ z % 64 \in 0..63 /\ z = (z \div 64) * 64 + (z % 64)
  BY <1>1
<1>5. \A a \in Int, b \in Int, c \in Int, d \in Int, e \in Int, f \in Int :
        ((a * 64 + (b * 16 + c)) * 64 + (d * 4 + e)) * 64 + f = (a * 4 + b) * 65536 + (c * 16 + d) * 256 + (e * 64 + f)
  OBVIOUS
<1>6. (x % 4) * 16 + (y \div 16) \in Digit64
  BY <1>2, <1>3 DEF Digit64
<1>7. (y % 16) * 4 + (z \div 64) \in Digit64
  BY <1>3, <1>4 DEF Digit64
<1>8. x \div 4 \in Digit64 /\ z % 64 \in Digit64
  BY <1>2, <1>4 DEF Digit64
<1> DEFINE a == x \div 4 b == x % 4 c == y \div 16 d == y % 16 e == z \div 64 f == z % 64
<1>9. a \in Int /\ b \in Int /\ c \in Int /\ d \in Int /\ e \in Int /\ f \in Int
  BY <1>2, <1>3, <1>4
<1>10. x = a * 4 + b /\ y = c * 16 + d /\ z = e * 64 + f
  BY <1>2, <1>3, <1>4
<1> HIDE DEF a, b, c, d, e, f
<1>11. ((a * 64 + (b * 16 + c)) * 64 + (d * 4 + e)) * 64 + f = x * 65536 + y * 256 + z
  BY <1>5, <1>9, <1>10
<1>12. QED
  BY <1>6, <1>7, <1>8, <1>11 DEF a, b, c, d, e, f
\* The bytes of the number they make.
LEMMA BackToBytes ==
  ASSUME NEW x \in Char, NEW y \in Char, NEW z \in Char, NEW v, v = x * 65536 + y * 256 + z
  PROVE  v \div 65536 = x /\ (v \div 256) % 256 = y /\ v % 256 = z
<1>1. x \in 0..255 /\ y \in 0..255 /\ z \in 0..255
  BY DEF Char
<1>2. v \div 65536 = x
  BY <1>1
<1>3. v \div 256 = x * 256 + y /\ v % 256 = z
  BY <1>1
<1>4. (x * 256 + y) % 256 = y
  BY <1>1
<1>5. QED
  BY <1>2, <1>3, <1>4

\* The pieces that s is cut into.
Pieces(S, n) == {c \in Seq(S) : Len(c) \in 1..n}
\* No chunk is empty or longer than n.
LEMMA ChunksType ==
  ASSUME NEW S, NEW n \in Nat \ {0}, NEW s \in Seq(S)
  PROVE  Chunks(s, n) \in Seq(Pieces(S, n))
<1> DEFINE T == Pieces(S, n)
           P == {t \in Seq(S) : Chunks(t, n) \in Seq(T)}
<1>1. ASSUME NEW t \in Seq(S), Len(t) < n PROVE t \in P
  <2>1. Len(t) \in Nat /\ Len(t) <= n
    BY <1>1, LenProperties
  <2>2. Chunks(t, n) = IF t = <<>> THEN <<>> ELSE <<t>>
    BY <2>1, ChunksShort
  <2>3. CASE t = <<>>
    BY <2>2, <2>3, EmptySeq
  <2>4. CASE t # <<>>
    <3>1. Len(t) # 0
      BY <2>4, EmptySeq
    <3>2. t \in T
      BY <2>1, <3>1 DEF Pieces
    <3>3. <<t>> \in Seq(T)
      BY <3>2
    <3>4. QED
      BY <2>2, <2>4, <3>3
  <2>5. QED
    BY <2>3, <2>4
<1>2. ASSUME NEW a \in Seq(S), NEW t \in P, Len(a) = n PROVE a \o t \in P
  <2>1. a \in T
    BY <1>2 DEF Pieces
  <2>2. Chunks(a \o t, n) = <<a>> \o Chunks(t, n) /\ a \o t \in Seq(S)
    BY <1>2, ChunksMore, ConcatProperties
  <2>3. <<a>> \in Seq(T) /\ Chunks(t, n) \in Seq(T)
    BY <2>1
  <2> HIDE DEF T
  <2>4. <<a>> \o Chunks(t, n) \in Seq(T)
    BY <2>3, ConcatProperties
  <2>5. QED
    BY <2>2, <2>4
<1>3. P \subseteq Seq(S)
  OBVIOUS
<1> HIDE DEF P
<1>4. P = Seq(S)
  BY <1>1, <1>2, <1>3, BlockInduction
<1>5. QED
  BY <1>4 DEF P

Triple == Pieces(Char, 3)
EncChunk == [c \in Triple |-> base64_encode_chunk(c)]
\* The digits d and padding p of a chunk.
Codes(c, d, p) ==
  /\ d \in Quad /\ p \in Seq({64}) /\ EncChunk[c] = d \o p /\ Len(d) + Len(p) = 4
  /\ DecChunk[d] = c /\ (Len(c) = 3 => Len(d) = 4 /\ p = <<>>)
\* Of three bytes.
LEMMA ThreeCoded ==
  ASSUME NEW x \in Char, NEW y \in Char, NEW z \in Char
  PROVE  \E d \in Quad, p \in Seq({64}) : Codes(<<x, y, z>>, d, p)
<1> DEFINE c == <<x, y, z>>
           d1 == x \div 4
           d2 == (x % 4) * 16 + (y \div 16)
           d3 == (y % 16) * 4 + (z \div 64)
           d4 == z % 64
           d == <<d1, d2, d3, d4>>
           v == x * 65536 + y * 256 + z
<1>1. d1 \in Digit64 /\ d2 \in Digit64 /\ d3 \in Digit64 /\ d4 \in Digit64
  BY SixBits
<1>2. ((d1 * 64 + d2) * 64 + d3) * 64 + d4 = v
  BY SixBits
<1>3. v \div 65536 = x /\ (v \div 256) % 256 = y /\ v % 256 = z
  BY BackToBytes
<1>4. c \in Triple /\ Len(c) = 3
  BY DEF Triple, Pieces
<1>5. base64_encode_chunk(c) = d
  BY DEF base64_encode_chunk
<1> HIDE DEF d1, d2, d3, d4, v
<1>6. d \in Quad /\ Len(d) = 4 /\ At(d, 1) = d1 /\ At(d, 2) = d2 /\ At(d, 3) = d3 /\ At(d, 4) = d4
  BY <1>1 DEF Quad, At
<1>7. EncChunk[c] = d
  BY <1>4, <1>5 DEF EncChunk
<1>8. Bytes(d) = c /\ Bytes(d) \in Seq(Int)
  <2>1. /\ Bytes(d) = <<v \div 65536, (v \div 256) % 256, v % 256>> /\ Bytes(d) \in Seq(Int)
    BY <1>2, <1>6, BytesAre
  <2>2. QED
    BY <1>3, <2>1
<1>9. DecChunk[d] = c
  <2>1. DecChunk[d] = SubSeq(Bytes(d), 1, 3)
    BY <1>6 DEF DecChunk
  <2>2. SubSeq(Bytes(d), 1, 3) = Bytes(d)
    BY <1>4, <1>8, SuffixEnds DEF Suffix
  <2>3. QED
    BY <1>8, <2>1, <2>2
<1>10. d \o <<>> = d /\ <<>> \in Seq({64}) /\ Len(<<>>) = 0
  BY <1>6, ConcatEmptySeq, EmptySeq DEF Quad
<1> HIDE DEF d, c
<1>11. Codes(c, d, <<>>)
  BY <1>4, <1>6, <1>7, <1>9, <1>10 DEF Codes
<1>12. QED
  BY <1>6, <1>10, <1>11 DEF c

\* Of two bytes.
LEMMA TwoCoded ==
  ASSUME NEW x \in Char, NEW y \in Char
  PROVE  \E d \in Quad, p \in Seq({64}) : Codes(<<x, y>>, d, p)
<1> DEFINE c == <<x, y>>
           d1 == x \div 4
           d2 == (x % 4) * 16 + (y \div 16)
           d3 == (y % 16) * 4 + (0 \div 64)
           d4 == 0 % 64
           d == <<d1, d2, d3>>
           p == <<64>>
           v == x * 65536 + y * 256 + 0
<1>0. 0 \in Char
  BY DEF Char
<1>1. d1 \in Digit64 /\ d2 \in Digit64 /\ d3 \in Digit64
  BY <1>0, SixBits
<1>2. ((d1 * 64 + d2) * 64 + d3) * 64 + d4 = v
  BY <1>0, SixBits
<1>3. v \div 65536 = x /\ (v \div 256) % 256 = y /\ v % 256 = 0
  BY <1>0, BackToBytes
<1>4. c \in Triple /\ Len(c) = 2 /\ c \in Seq(Char) /\ c[1] = x /\ c[2] = y
  BY DEF Triple, Pieces
<1>5. base64_encode_chunk(c) = <<d1, d2, d3, 64>>
  BY DEF base64_encode_chunk
<1>a. d4 = 0
  OBVIOUS
<1> HIDE DEF d1, d2, d3, d4, v
<1>6. d \in Quad /\ Len(d) = 3 /\ At(d, 1) = d1 /\ At(d, 2) = d2 /\ At(d, 3) = d3 /\ At(d, 4) = 0
  BY <1>1 DEF Quad, At
<1>7. EncChunk[c] = d \o p
  <2>1. <<d1, d2, d3, 64>> = d \o p
    OBVIOUS
  <2>2. QED
    BY <1>4, <1>5, <2>1 DEF EncChunk
<1>8. DecChunk[d] = c
  <2>1. /\ Bytes(d) = <<v \div 65536, (v \div 256) % 256, v % 256>> /\ Bytes(d) \in Seq(Int)
    BY <1>2, <1>6, <1>a, BytesAre
  <2>2. Bytes(d) = <<x, y, 0>>
    BY <1>3, <2>1
  <2>3. DecChunk[d] = SubSeq(Bytes(d), 1, 2)
    BY <1>6 DEF DecChunk
  <2>4. SubSeq(<<x, y, 0>>, 1, 2) = <<x, y>>
    <3> DEFINE b == <<x, y, 0>>
               m == 2
               u == SubSeq(b, 1, m)
    <3>1. b \in Seq(Char) /\ Len(b) = 3 /\ b[1] = x /\ b[2] = y
      BY <1>0
    <3> HIDE DEF b
    <3>2. m \in 0..Len(b) /\ \A k \in 1..m : b[k] \in Char
      BY <3>1, ElementOfSeq
    <3>3. u \in Seq(Char) /\ Len(u) = m
      BY <3>1, <3>2, CutIsWhole
    <3>4. \A k \in 1..m : u[k] = b[k]
      <4> HIDE DEF m
      <4>1. QED
        BY <3>1, <3>2, SubSeqProperties
    <3> HIDE DEF u
    <3>5. u[1] = x /\ u[2] = y
      BY <3>1, <3>4
    <3>6. u = <<x, y>>
      BY <3>3, <3>5
    <3>7. QED
      BY <3>6 DEF u, b
  <2>5. QED
    BY <2>2, <2>3, <2>4
<1>9. p \in Seq({64}) /\ Len(p) = 1
  OBVIOUS
<1> HIDE DEF d, c, p
<1>10. Codes(c, d, p)
  BY <1>4, <1>6, <1>7, <1>8, <1>9 DEF Codes
<1>11. QED
  BY <1>6, <1>9, <1>10 DEF c

\* Of one byte.
LEMMA OneCoded ==
  ASSUME NEW x \in Char
  PROVE  \E d \in Quad, p \in Seq({64}) : Codes(<<x>>, d, p)
<1> DEFINE c == <<x>>
           d1 == x \div 4
           d2 == (x % 4) * 16 + (0 \div 16)
           d3 == (0 % 16) * 4 + (0 \div 64)
           d4 == 0 % 64
           d == <<d1, d2>>
           p == <<64, 64>>
           v == x * 65536 + 0 * 256 + 0
<1>0. 0 \in Char
  BY DEF Char
<1>1. d1 \in Digit64 /\ d2 \in Digit64
  BY <1>0, SixBits
<1>2. ((d1 * 64 + d2) * 64 + d3) * 64 + d4 = v
  BY <1>0, SixBits
<1>3. v \div 65536 = x /\ (v \div 256) % 256 = 0 /\ v % 256 = 0
  BY <1>0, BackToBytes
<1>4. c \in Triple /\ Len(c) = 1 /\ c \in Seq(Char) /\ c[1] = x
  BY DEF Triple, Pieces
<1>5. base64_encode_chunk(c) = <<d1, d2, 64, 64>>
  BY DEF base64_encode_chunk
<1>a. d4 = 0 /\ d3 = 0
  OBVIOUS
<1> HIDE DEF d1, d2, d3, d4, v
<1>6. d \in Quad /\ Len(d) = 2 /\ At(d, 1) = d1 /\ At(d, 2) = d2 /\ At(d, 3) = 0 /\ At(d, 4) = 0
  BY <1>1 DEF Quad, At
<1>7. EncChunk[c] = d \o p
  <2>1. <<d1, d2, 64, 64>> = d \o p
    OBVIOUS
  <2>2. QED
    BY <1>4, <1>5, <2>1 DEF EncChunk
<1>8. DecChunk[d] = c
  <2>1. /\ Bytes(d) = <<v \div 65536, (v \div 256) % 256, v % 256>> /\ Bytes(d) \in Seq(Int)
    BY <1>2, <1>6, <1>a, BytesAre
  <2>2. Bytes(d) = <<x, 0, 0>>
    BY <1>3, <2>1
  <2>3. DecChunk[d] = SubSeq(Bytes(d), 1, 1)
    BY <1>6 DEF DecChunk
  <2>4. SubSeq(<<x, 0, 0>>, 1, 1) = <<x>>
    <3> DEFINE b == <<x, 0, 0>>
               m == 1
               u == SubSeq(b, 1, m)
    <3>1. b \in Seq(Char) /\ Len(b) = 3 /\ b[1] = x /\ b[2] = 0
      BY <1>0
    <3> HIDE DEF b
    <3>2. m \in 0..Len(b) /\ \A k \in 1..m : b[k] \in Char
      BY <3>1, ElementOfSeq
    <3>3. u \in Seq(Char) /\ Len(u) = m
      BY <3>1, <3>2, CutIsWhole
    <3>4. \A k \in 1..m : u[k] = b[k]
      <4> HIDE DEF m
      <4>1. QED
        BY <3>1, <3>2, SubSeqProperties
    <3> HIDE DEF u
    <3>5. u[1] = x
      BY <3>1, <3>4
    <3>6. u = <<x>>
      BY <3>3, <3>5
    <3>7. QED
      BY <3>6 DEF u, b
  <2>5. QED
    BY <2>2, <2>3, <2>4
<1>9. p \in Seq({64}) /\ Len(p) = 2
  OBVIOUS
<1> HIDE DEF d, c, p
<1>10. Codes(c, d, p)
  BY <1>4, <1>6, <1>7, <1>8, <1>9 DEF Codes
<1>11. QED
  BY <1>6, <1>9, <1>10 DEF c

\* Of any chunk.
LEMMA ChunkCoded ==
  ASSUME NEW c \in Triple
  PROVE  \E d \in Quad, p \in Seq({64}) : Codes(c, d, p)
<1>1. c \in Seq(Char) /\ Len(c) \in 1..3 /\ \A k \in 1..Len(c) : c[k] \in Char
  BY ElementOfSeq DEF Triple, Pieces
<1>2. CASE Len(c) = 1
  <2>1. c[1] \in Char /\ c = <<c[1]>>
    BY <1>1, <1>2
  <2>2. QED
    BY <2>1, OneCoded
<1>3. CASE Len(c) = 2
  <2>1. c[1] \in Char /\ c[2] \in Char /\ c = <<c[1], c[2]>>
    BY <1>1, <1>3
  <2>2. QED
    BY <2>1, TwoCoded
<1>4. CASE Len(c) = 3
  <2>1. c[1] \in Char /\ c[2] \in Char /\ c[3] \in Char /\ c = <<c[1], c[2], c[3]>>
    BY <1>1, <1>4
  <2>2. QED
    BY <2>1, ThreeCoded
<1>5. QED
  BY <1>1, <1>2, <1>3, <1>4

\* Lengths of chunks.
LEMMA InRange == (\A n \in 1..4 : n \in Nat /\ n <= 4) /\ \A n \in Nat : n < 3 /\ n # 0 => n \in 1..3
OBVIOUS

Encoded(s) == FlatMap(EncChunk, Chunks(s, 3))
Decoded(d) == FlatMap(DecChunk, Chunks(d, 4))
\* Digits d and padding p that s is encoded as.
Written64(s, d, p) ==
  /\ d \in Seq(Digit64) /\ p \in Seq({64}) /\ Encoded(s) = d \o p /\ (Len(d) + Len(p)) % 4 = 0
  /\ Decoded(d) = s

\* What the chunk functions give.
LEMMA ChunkFunctions ==
  EncChunk \in [Triple -> Seq(Int)] /\ DecChunk \in [Quad -> Seq(Int)] /\ Quad = Pieces(Digit64, 4)
<1>1. ASSUME NEW c \in Triple PROVE EncChunk[c] \in Seq(Int)
  <2>1. PICK d \in Quad, p \in Seq({64}) : Codes(c, d, p)
    BY ChunkCoded
  <2>2. Digit64 \subseteq Int /\ {64} \subseteq Int
    BY DEF Digit64
  <2>3. d \in Seq(Int) /\ p \in Seq(Int)
    BY <2>2, SeqMonotonic DEF Quad
  <2>4. EncChunk[c] = d \o p
    BY <2>1 DEF Codes
  <2>5. QED
    BY <2>3, <2>4, ConcatProperties
<1>2. ASSUME NEW c \in Quad PROVE DecChunk[c] \in Seq(Int)
  <2> DEFINE v == ((At(c, 1) * 64 + At(c, 2)) * 64 + At(c, 3)) * 64 + At(c, 4)
             n == Len(c) - 1
  <2>1. Bytes(c) \in Seq(Int) /\ Len(Bytes(c)) = 3
    <3> HIDE DEF v
    <3>1. v = ((At(c, 1) * 64 + At(c, 2)) * 64 + At(c, 3)) * 64 + At(c, 4)
      BY DEF v
    <3>2. QED
      BY <3>1, BytesAre
  <2>2. n \in 0..3
    BY DEF Quad
  <2>3. DecChunk[c] = SubSeq(Bytes(c), 1, n)
    BY DEF DecChunk
  <2> HIDE DEF n
  <2>4. SubSeq(Bytes(c), 1, n) \in Seq(Int)
    BY <2>1, <2>2, CutIsWhole
  <2>5. QED
    BY <2>3, <2>4
<1>3. EncChunk = [c \in Triple |-> EncChunk[c]] /\ DecChunk = [c \in Quad |-> DecChunk[c]]
  BY DEF EncChunk, DecChunk
<1>4. Quad = Pieces(Digit64, 4)
  BY DEF Quad, Pieces
<1>5. QED
  BY <1>1, <1>2, <1>3, <1>4

\* Every string is.
LEMMA AllWritten ==
  ASSUME NEW s \in Str
  PROVE  \E d \in Seq(Digit64), p \in Seq({64}) : Written64(s, d, p)
<1> DEFINE P == {t \in Str : \E d \in Seq(Digit64), p \in Seq({64}) : Written64(t, d, p)}
<1>a. EncChunk \in [Triple -> Seq(Int)]
  BY ChunkFunctions
<1>b. DecChunk \in [Quad -> Seq(Int)]
  BY ChunkFunctions
<1>c. \A c \in Quad : c \in Seq(Digit64) /\ Len(c) \in 1..4 /\ c # <<>>
  BY EmptySeq DEF Quad
<1> DEFINE three == 3 four == 4
<1>d. three \in Nat \ {0} /\ four \in Nat \ {0}
  OBVIOUS
<1>e. Triple = Pieces(Char, three) /\ Quad = Pieces(Digit64, four)
  BY ChunkFunctions DEF Triple
<1>f. \A t : Encoded(t) = FlatMap(EncChunk, Chunks(t, three)) /\ Decoded(t) = FlatMap(DecChunk, Chunks(t, four))
  BY DEF Encoded, Decoded
<1>g. \A n \in Nat : (n < three <=> n < 3) /\ (n <= four <=> n <= 4) /\ (n = three <=> n = 3) /\ (n = four <=> n = 4)
  OBVIOUS
<1> HIDE DEF three, four
<1>1. ASSUME NEW t \in Seq(Char), Len(t) < three PROVE t \in P
  <2>1. Chunks(t, three) = IF t = <<>> THEN <<>> ELSE <<t>>
    <3>1. Len(t) <= three
      BY <1>1, <1>d, LenProperties
    <3>2. QED
      BY <1>d, <3>1, ChunksShort
  <2>2. CASE t = <<>>
    <3>1. Chunks(<<>>, four) = <<>>
      <4> DEFINE z == <<>>
      <4>1. z \in Seq(Digit64) /\ Len(z) = 0 /\ z = <<>>
        BY EmptySeq
      <4>2. Len(z) <= four
        BY <1>g, <4>1
      <4> HIDE DEF z
      <4>3. Chunks(z, four) = <<>>
        BY <1>d, <4>1, <4>2, ChunksShort
      <4>4. QED
        BY <4>3 DEF z
    <3>2. Encoded(t) = <<>> /\ Decoded(<<>>) = <<>>
      BY <1>f, <2>1, <2>2, <3>1, FlatMapEmpty
    <3>3. <<>> \in Seq(Digit64) /\ <<>> \in Seq({64}) /\ Len(<<>>) = 0 /\ <<>> \o <<>> = <<>>
      BY EmptySeq, ConcatEmptySeq
    <3>4. (Len(<<>>) + Len(<<>>)) % 4 = 0
      BY <3>3
    <3>5. Written64(t, <<>>, <<>>)
      BY <2>2, <3>2, <3>3, <3>4 DEF Written64
    <3>6. QED
      BY <3>3, <3>5 DEF Str
  <2>3. CASE t # <<>>
    <3>1. t \in Triple
      <4>1. Len(t) \in Nat /\ Len(t) # 0
        BY <2>3, LenProperties, EmptySeq
      <4>a. Len(t) < 3
        BY <1>1, <1>g, <4>1
      <4>2. Len(t) \in 1..3
        BY ONLY <4>1, <4>a, InRange
      <4>3. QED
        BY <4>2 DEF Triple, Pieces
    <3>2. PICK d \in Quad, p \in Seq({64}) : Codes(t, d, p)
      BY <3>1, ChunkCoded
    <3>3. Encoded(t) = EncChunk[t]
      <4>1. FlatMap(EncChunk, <<t>>) = EncChunk[t]
        BY <1>a, <3>1, FlatMapOne
      <4>2. QED
        BY <1>f, <2>1, <2>3, <4>1
    <3>4. Chunks(d, four) = <<d>>
      <4>1. d \in Seq(Digit64) /\ d # <<>> /\ Len(d) <= four
        <5>1. d \in Seq(Digit64) /\ Len(d) \in 1..4 /\ d # <<>>
          BY <1>c
        <5>2. Len(d) \in Nat /\ Len(d) <= 4
          BY ONLY <5>1, InRange
        <5>3. QED
          BY <1>g, <5>1, <5>2
      <4>2. QED
        BY <1>d, <4>1, ChunksShort
    <3>5. Decoded(d) = DecChunk[d]
      <4>1. FlatMap(DecChunk, <<d>>) = DecChunk[d]
        BY <1>b, FlatMapOne
      <4>2. QED
        BY <1>f, <3>4, <4>1
    <3>6. 4 % 4 = 0
      OBVIOUS
    <3>7. Written64(t, d, p)
      BY <1>c, <3>2, <3>3, <3>5, <3>6 DEF Codes, Written64
    <3>8. QED
      BY <1>c, <3>7 DEF Str
  <2>4. QED
    BY <2>2, <2>3
<1>2. ASSUME NEW a \in Seq(Char), NEW t \in P, Len(a) = three PROVE a \o t \in P
  <2>0. Len(a) = 3
    BY <1>2 DEF three
  <2>1. a \in Triple
    BY <2>0 DEF Triple, Pieces
  <2>2. PICK e \in Quad, q \in Seq({64}) : Codes(a, e, q)
    BY <2>1, ChunkCoded
  <2>3. PICK d \in Seq(Digit64), p \in Seq({64}) : Written64(t, d, p)
    OBVIOUS
  <2>4. EncChunk[a] = e /\ Len(e) = 4 /\ DecChunk[e] = a /\ e \in Seq(Digit64)
    <3>1. EncChunk[a] = e \o q /\ q = <<>> /\ Len(e) = 4 /\ DecChunk[e] = a
      BY <2>0, <2>2 DEF Codes
    <3>2. QED
      BY <1>c, <3>1, ConcatEmptySeq
  <2>a. e \in Quad
    OBVIOUS
  <2>5. t \in Seq(Char) /\ a \o t \in Str
    BY ConcatProperties DEF Str
  <2>6. Encoded(a \o t) = e \o Encoded(t)
    <3>1. Chunks(a \o t, three) = <<a>> \o Chunks(t, three)
      <4>1. a \in Seq(Char) /\ Len(a) = three /\ t \in Seq(Char)
        BY <1>2, <1>g, <2>4, <2>5
      <4>2. QED
        BY <1>d, <4>1, ChunksMore
    <3> DEFINE x == <<a>>
               y == Chunks(t, three)
    <3>2. y \in Seq(Triple)
      BY <1>d, <1>e, <2>5, ChunksType
    <3>3. FlatMap(EncChunk, x) = e
      <4>1. a \in Triple
        BY <2>1
      <4>2. FlatMap(EncChunk, x) = EncChunk[a]
        BY ONLY <1>a, <4>1, FlatMapOne
      <4>3. QED
        BY <2>4, <4>2
    <3>4. x \in Seq(Triple)
      BY <2>1, <2>4
    <3> HIDE DEF x, y
    <3>5. FlatJoins(EncChunk, x, y)
      BY <1>a, <3>2, <3>4, FlatMapJoin
    <3>6. Encoded(a \o t) = FlatMap(EncChunk, x \o y) /\ Encoded(t) = FlatMap(EncChunk, y)
      BY <1>f, <3>1 DEF x, y
    <3>7. QED
      BY <3>3, <3>5, <3>6 DEF FlatJoins
  <2>7. Decoded(e \o d) = a \o Decoded(d)
    <3>1. Chunks(e \o d, four) = <<e>> \o Chunks(d, four)
      <4>1. e \in Seq(Digit64) /\ Len(e) = four /\ d \in Seq(Digit64)
        BY <1>2, <1>g, <2>4, <2>5
      <4>2. QED
        BY <1>d, <4>1, ChunksMore
    <3> DEFINE x == <<e>>
               y == Chunks(d, four)
    <3>2. y \in Seq(Quad)
      BY <1>d, <1>e, <2>5, ChunksType
    <3>3. FlatMap(DecChunk, x) = a
      <4>1. e \in Quad
        BY <2>a
      <4>2. FlatMap(DecChunk, x) = DecChunk[e]
        BY ONLY <1>b, <4>1, FlatMapOne
      <4>3. QED
        BY <2>4, <4>2
    <3>4. x \in Seq(Quad)
      BY <2>1, <2>4
    <3> HIDE DEF x, y
    <3>5. FlatJoins(DecChunk, x, y)
      BY <1>b, <3>2, <3>4, FlatMapJoin
    <3>6. Decoded(e \o d) = FlatMap(DecChunk, x \o y) /\ Decoded(d) = FlatMap(DecChunk, y)
      BY <1>f, <3>1 DEF x, y
    <3>7. QED
      BY <3>3, <3>5, <3>6 DEF FlatJoins
  <2>8. e \o (d \o p) = (e \o d) \o p
    <3>1. Digit64 \subseteq Int /\ {64} \subseteq Int
      BY DEF Digit64
    <3>2. e \in Seq(Int) /\ d \in Seq(Int) /\ p \in Seq(Int)
      <4>1. e \in Seq(Digit64) /\ d \in Seq(Digit64) /\ p \in Seq({64})
        BY <2>4
      <4>2. QED
        BY <3>1, <4>1, SeqMonotonic
    <3>3. Associates(e, d, p)
      BY <3>2, JoinAssociates
    <3>4. QED
      BY <3>3 DEF Associates
  <2>9. e \o d \in Seq(Digit64) /\ Len(e \o d) = Len(d) + 4
    <3>1. e \in Seq(Digit64) /\ d \in Seq(Digit64) /\ Len(e) = 4 /\ Len(d) \in Nat
      BY <2>4, LenProperties
    <3>2. e \o d \in Seq(Digit64) /\ Len(e \o d) = Len(e) + Len(d)
      BY <3>1, ConcatProperties
    <3>3. QED
      BY <3>1, <3>2
  <2>10. (Len(d) + 4 + Len(p)) % 4 = 0
    <3>1. Len(d) \in Nat /\ Len(p) \in Nat /\ (Len(d) + Len(p)) % 4 = 0
      BY <2>3, LenProperties DEF Written64
    <3>2. QED
      BY <3>1
  <2>11. Written64(a \o t, e \o d, p)
    BY <2>3, <2>6, <2>7, <2>8, <2>9, <2>10 DEF Written64
  <2>12. QED
    BY <2>5, <2>9, <2>11
<1>3. P \subseteq Seq(Char)
  BY DEF Str
<1> HIDE DEF P
<1>4. P = Seq(Char)
  BY <1>1, <1>2, <1>3, <1>d, BlockInduction
<1>5. QED
  BY <1>4 DEF P, Str

\* What is written is what base64_encode makes of the string.
LEMMA EncodedIs ==
  ASSUME NEW s \in Str
  PROVE  base64_encode(s) = Encoded(s)
<1> DEFINE c == Chunks(s, 3)
           three == 3
<1>1. Chunks(s, three) \in Seq(Pieces(Char, three))
  <2>1. three \in Nat \ {0} /\ s \in Seq(Char)
    BY DEF Str
  <2> HIDE DEF three
  <2>2. QED
    BY <2>1, ChunksType
<1>2. c \in Seq(Triple)
  BY <1>1 DEF Triple
<1>3. base64_encode(s) = FlattenSeq([k \in DOMAIN c |-> base64_encode_chunk(c[k])])
  BY DEF base64_encode
<1>4. Encoded(s) = FlattenSeq([k \in DOMAIN c |-> EncChunk[c[k]]])
  BY DEF Encoded, FlatMap, Mapped
<1> HIDE DEF c
<1>5. \A k \in DOMAIN c : EncChunk[c[k]] = base64_encode_chunk(c[k])
  <2>1. \A k \in DOMAIN c : c[k] \in Triple
    BY <1>2
  <2>2. QED
    BY <2>1 DEF EncChunk
<1>6. QED
  BY <1>3, <1>4, <1>5

\* The decoder takes the digits before the padding, all of them.
LEMMA DecodedIs ==
  ASSUME NEW d \in Seq(Digit64), NEW p \in Seq({64})
  PROVE  base64_decode(d \o p) = Decoded(d)
<1> DEFINE t == d \o p
           m == Len(d)
           Ends(n) == (n < Len(t) => t[n + 1] = 64) /\ \A k \in 1..n : t[k] # 64
           end == CHOOSE n \in 0..Len(t) : Ends(n)
           digits == Filter(SubSeq(t, 1, end), LAMBDA c : c < 64)
           c == Chunks(d, 4)
<1>0. d \in Seq(Int) /\ p \in Seq(Int) /\ m \in Nat /\ Len(p) \in Nat
  <2>1. Digit64 \subseteq Int /\ {64} \subseteq Int
    BY DEF Digit64
  <2>2. QED
    BY <2>1, SeqMonotonic, LenProperties
<1>1. /\ t \in Seq(Int) /\ Len(t) = m + Len(p)
      /\ \A k \in 1..m + Len(p) : t[k] = IF k <= m THEN d[k] ELSE p[k - m]
  BY <1>0, ConcatProperties
<1>2. SubSeq(t, 1, m) = d
  BY <1>0, PrefixOfJoin
<1>a. base64_decode(t) = FlattenSeq([k \in DOMAIN Chunks(digits, 4) |->
                   SubSeq(Bytes(Chunks(digits, 4)[k]), 1, Len(Chunks(digits, 4)[k]) - 1)])
  BY DEF base64_decode, Bytes
<1> HIDE DEF t
<1>3. \A k \in 1..m : t[k] \in 0..63
  <2>1. \A k \in 1..m : t[k] = d[k]
    BY <1>0, <1>1
  <2>2. \A k \in 1..m : d[k] \in Digit64
    BY ElementOfSeq
  <2>3. QED
    BY <2>1, <2>2 DEF Digit64
<1>4. m < Len(t) => t[m + 1] = 64
  <2>1. SUFFICES ASSUME m < Len(t) PROVE t[m + 1] = 64
    OBVIOUS
  <2>2. 1 \in 1..Len(p) /\ m + 1 \in 1..m + Len(p) /\ ~(m + 1 <= m) /\ m + 1 - m = 1
    BY <1>0, <1>1, <2>1
  <2>3. t[m + 1] = p[1]
    BY <1>1, <2>2
  <2>4. p[1] \in {64}
    BY <2>2, ElementOfSeq
  <2>5. QED
    BY <2>3, <2>4
<1>5. end = m
  <2>a. m \in 0..Len(t) /\ Len(t) \in Nat
    BY <1>0, <1>1
  <2>b. \A k \in 1..m : t[k] # 64
    <3>1. \A x \in 0..63 : x # 64
      OBVIOUS
    <3>2. QED
      BY <1>3, <3>1
  <2>1. m \in 0..Len(t) /\ Ends(m)
    BY <1>4, <2>a, <2>b
  <2>2. end \in 0..Len(t) /\ Ends(end)
    BY <2>1
  <2> HIDE DEF end
  <2>3. ~(end < m)
    <3>1. SUFFICES ASSUME end < m PROVE FALSE
      OBVIOUS
    <3>2. end + 1 \in 1..m /\ end < Len(t)
      BY <2>2, <2>a, <3>1
    <3>3. QED
      BY <2>2, <2>b, <3>2
  <2>4. ~(end > m)
    <3>1. SUFFICES ASSUME end > m PROVE FALSE
      OBVIOUS
    <3>2. m + 1 \in 1..end /\ m < Len(t)
      BY <1>0, <2>2, <2>a, <3>1
    <3>3. QED
      BY <1>4, <2>2, <3>2
  <2>5. QED
    BY <1>0, <2>2, <2>3, <2>4
<1> HIDE DEF end
<1>6. digits = d
  <2> DEFINE F == [e \in Digit64 |-> <<e>>]
  <2>1. F \in [Digit64 -> Seq(Digit64)] /\ \A e \in Digit64 : F[e] = <<e>>
    OBVIOUS
  <2>2. digits = Filter(d, LAMBDA x : x < 64)
    BY <1>2, <1>5
  <2>3. Filter(d, LAMBDA x : x < 64) = FlattenSeq([k \in DOMAIN d |-> IF d[k] < 64 THEN <<d[k]>> ELSE <<>>])
    BY DEF Filter
  <2>4. \A k \in DOMAIN d : d[k] \in Digit64 /\ d[k] < 64
    <3>1. \A k \in DOMAIN d : d[k] \in Digit64
      OBVIOUS
    <3>2. \A x \in Digit64 : x < 64
      BY DEF Digit64
    <3>3. QED
      BY <3>1, <3>2
  <2>5. FlatMap(F, d) = FlattenSeq([k \in DOMAIN d |-> F[d[k]]])
    BY DEF FlatMap, Mapped
  <2>6. \A k \in DOMAIN d : F[d[k]] = IF d[k] < 64 THEN <<d[k]>> ELSE <<>>
    BY <2>1, <2>4
  <2> HIDE DEF F
  <2>7. FlatMap(F, d) = Filter(d, LAMBDA x : x < 64)
    BY <2>3, <2>5, <2>6
  <2>8. FlatMap(F, d) = d
    BY <2>1, SinglesFlatten
  <2>9. QED
    BY <2>2, <2>7, <2>8
<1> HIDE DEF digits
<1>7. base64_decode(t) = FlattenSeq([k \in DOMAIN c |-> SubSeq(Bytes(c[k]), 1, Len(c[k]) - 1)])
  BY <1>6, <1>a
<1>8. c \in Seq(Quad)
  <2> DEFINE four == 4
  <2>1. four \in Nat \ {0} /\ Quad = Pieces(Digit64, four)
    BY ChunkFunctions
  <2>2. c = Chunks(d, four)
    OBVIOUS
  <2> HIDE DEF four, c
  <2>3. QED
    BY <2>1, <2>2, ChunksType
<1>9. Decoded(d) = FlattenSeq([k \in DOMAIN c |-> DecChunk[c[k]]])
  BY DEF Decoded, FlatMap, Mapped
<1> HIDE DEF c
<1>10. \A k \in DOMAIN c : DecChunk[c[k]] = SubSeq(Bytes(c[k]), 1, Len(c[k]) - 1)
  <2>1. \A k \in DOMAIN c : c[k] \in Quad
    BY <1>8
  <2>2. QED
    BY <2>1 DEF DecChunk
<1>11. base64_decode(t) = Decoded(d)
  BY <1>7, <1>9, <1>10
<1>12. QED
  BY <1>11 DEF t

\* base64_decode gives back what base64_encode was given, and there are four
\* characters for every three bytes or less.
LEMMA Base64Inverts ==
  ASSUME NEW s \in Str
  PROVE  base64_decode(base64_encode(s)) = s /\ Len(base64_encode(s)) % 4 = 0
<1>1. PICK d \in Seq(Digit64), p \in Seq({64}) : Written64(s, d, p)
  BY AllWritten
<1>2. base64_encode(s) = d \o p /\ Decoded(d) = s /\ (Len(d) + Len(p)) % 4 = 0
  BY <1>1, EncodedIs DEF Written64
<1>3. base64_decode(d \o p) = s
  BY <1>2, DecodedIs
<1>4. Len(d \o p) = Len(d) + Len(p)
  <2>1. Digit64 \subseteq Int /\ {64} \subseteq Int
    BY DEF Digit64
  <2>2. d \in Seq(Int) /\ p \in Seq(Int)
    BY <2>1, SeqMonotonic
  <2>3. QED
    BY <2>2, ConcatProperties
<1>5. QED
  BY <1>2, <1>3, <1>4

-----------------------------------------------------------------------------
(* Hexadecimal digits. *)

IsHex(c) == Digit(c, 16)
Hex16 == [c \in Char |-> IF Digit(c, 16) THEN <<c>> ELSE <<>>]
HexOf == [c \in Char |-> HexPair(c)]
High(c) == nyble2hexchar(c \div 16)
Low(c) == nyble2hexchar(c % 16)

\* The two digits of a byte are digits, and their values give the byte.
LEMMA HexPairs ==
  ASSUME NEW c \in Char
  PROVE  /\ HexPair(c) = <<High(c), Low(c)>> /\ High(c) \in Char /\ Low(c) \in Char
         /\ Digit(High(c), 16) /\ Digit(Low(c), 16)
         /\ char2nyble(High(c)) = c \div 16 /\ char2nyble(Low(c)) = c % 16
         /\ c \div 16 \in Int /\ c % 16 \in Int /\ c = (c \div 16) * 16 + (c % 16)
<1>1. c \div 16 \in 0..15 /\ c % 16 \in 0..15 /\ c = (c \div 16) * 16 + (c % 16)
  BY DEF Char
<1>2. ASSUME NEW n \in 0..15
      PROVE  nyble2hexchar(n) \in Char /\ char2nyble(nyble2hexchar(n)) = n /\ Digit(nyble2hexchar(n), 16)
  <2>1. nyble2hexchar(n) \in 48..102 /\ char2nyble(nyble2hexchar(n)) = n
    BY Nybles
  <2>2. n \in 0..16 - 1
    OBVIOUS
  <2>3. \A x \in 48..102 : x \in Char
    BY DEF Char
  <2>4. QED
    BY <2>1, <2>2, <2>3 DEF Digit
<1>3. High(c) \in Char /\ char2nyble(High(c)) = c \div 16 /\ Digit(High(c), 16)
  BY <1>1, <1>2 DEF High
<1>4. Low(c) \in Char /\ char2nyble(Low(c)) = c % 16 /\ Digit(Low(c), 16)
  BY <1>1, <1>2 DEF Low
<1>5. HexPair(c) = <<High(c), Low(c)>>
  BY DEF HexPair, High, Low
<1>6. \A x \in 0..15 : x \in Int
  OBVIOUS
<1>7. QED
  BY <1>1, <1>3, <1>4, <1>5, <1>6

\* What the functions give; separators and zeros are no digits.
LEMMA HexFunctions ==
  /\ HexOf \in [Char -> Seq(Char)] /\ Keeps(Hex16, Char) /\ Hex16 \in [Char -> Seq(Char)]
  /\ \A c \in Char : Len(HexOf[c]) = 2 /\ HexOf[c][1] = High(c) /\ HexOf[c][2] = Low(c)
  /\ \A c \in Char : FlatMap(Hex16, HexOf[c]) = HexOf[c]
  /\ \A c \in {0, Blank, 58} : c \in Char /\ Hex16[c] = <<>>
<1>1. ASSUME NEW c \in Char
      PROVE  /\ HexOf[c] \in Seq(Char) /\ Len(HexOf[c]) = 2 /\ HexOf[c][1] = High(c) /\ HexOf[c][2] = Low(c)
             /\ HexOf[c] = <<High(c), Low(c)>>
  <2>1. HexOf[c] = <<High(c), Low(c)>> /\ High(c) \in Char /\ Low(c) \in Char
    BY HexPairs DEF HexOf
  <2>2. QED
    BY <2>1
<1>2. HexOf \in [Char -> Seq(Char)]
  BY <1>1 DEF HexOf
<1>3. Hex16 \in [Char -> Seq(Char)] /\ \A e \in Char : Hex16[e] = <<e>> \/ Hex16[e] = <<>>
  BY DEF Hex16
<1>4. ASSUME NEW c \in Char PROVE FlatMap(Hex16, HexOf[c]) = HexOf[c]
  <2> DEFINE x == <<High(c)>>
             y == <<Low(c)>>
  <2>1. High(c) \in Char /\ Low(c) \in Char /\ Digit(High(c), 16) /\ Digit(Low(c), 16)
    BY HexPairs
  <2>2. x \in Seq(Char) /\ y \in Seq(Char) /\ x \o y = HexOf[c]
    BY <1>1, <2>1, Pair
  <2>3. FlatMap(Hex16, x) = x
    <3>1. FlatMap(Hex16, x) = Hex16[High(c)]
      BY <1>3, <2>1, FlatMapOne
    <3>2. QED
      BY <2>1, <3>1 DEF Hex16
  <2>4. FlatMap(Hex16, y) = y
    <3>1. FlatMap(Hex16, y) = Hex16[Low(c)]
      BY <1>3, <2>1, FlatMapOne
    <3>2. QED
      BY <2>1, <3>1 DEF Hex16
  <2> HIDE DEF x, y
  <2>5. FlatJoins(Hex16, x, y)
    BY <1>3, <2>2, FlatMapJoin
  <2>6. QED
    BY <2>2, <2>3, <2>4, <2>5 DEF FlatJoins
<1>5. \A c \in {0, Blank, 58} : c \in Char /\ Hex16[c] = <<>>
  <2>1. ASSUME NEW c \in {0, 32, 58} PROVE c \in Char /\ ~Digit(c, 16)
    <3>1. c \in 0..255 /\ c \notin 48..57 /\ c \notin 65..90 /\ c \notin 97..122
      OBVIOUS
    <3>2. char2nyble(c) = -1
      BY <3>1 DEF char2nyble
    <3>3. -1 \notin 0..16 - 1
      OBVIOUS
    <3>4. QED
      BY <3>1, <3>2, <3>3 DEF Char, Digit
  <2>2. QED
    BY <2>1 DEF Hex16, Blank
<1>6. QED
  BY <1>1, <1>2, <1>3, <1>4, <1>5 DEF Keeps

\* What hex2binary looks at.
LEMMA HexFilter ==
  ASSUME NEW s \in Str
  PROVE  Filter(s, LAMBDA c : Digit(c, 16)) = FlatMap(Hex16, s)
<1>1. Filter(s, LAMBDA c : Digit(c, 16)) = FlattenSeq([k \in DOMAIN s |-> IF Digit(s[k], 16) THEN <<s[k]>> ELSE <<>>])
  BY DEF Filter
<1>2. FlatMap(Hex16, s) = FlattenSeq([k \in DOMAIN s |-> Hex16[s[k]]])
  BY DEF FlatMap, Mapped
<1>3. \A k \in DOMAIN s : s[k] \in Char
  BY DEF Str
<1>4. \A k \in DOMAIN s : Hex16[s[k]] = IF Digit(s[k], 16) THEN <<s[k]>> ELSE <<>>
  BY <1>3 DEF Hex16
<1>5. QED
  BY <1>1, <1>2, <1>4

\* A number of two digits and one of four.
LEMMA NumberTwo ==
  ASSUME NEW s \in Seq(Int), Len(s) = 2
  PROVE  Number(s, 16) = char2nyble(s[1]) * 16 + char2nyble(s[2])
<1> DEFINE z == <<>>
           a == s[1]
           b == s[2]
           x == Append(z, a)
<1>0. z \in Seq(Int) /\ a \in Int /\ b \in Int
  BY EmptySeq, ElementOfSeq
<1>1. s = Append(x, b)
  <2>1. s = <<a, b>>
    OBVIOUS
  <2>2. QED
    BY <2>1
<1>2. x \in Seq(Int)
  BY <1>0
<1>3. Number(z, 16) = 0 /\ Number(x, 16) = Number(z, 16) * 16 + char2nyble(a)
  <2>1. z = <<>>
    OBVIOUS
  <2> HIDE DEF a, z
  <2>2. Number(<<>>, 16) = 0
    <3>1. 16 \in Int
      OBVIOUS
    <3>2. QED
      BY ONLY <1>0, <3>1, NumberAppend, Zenon
  <2>3. Number(Append(z, a), 16) = Number(z, 16) * 16 + char2nyble(a)
    BY <1>0, NumberAppend
  <2>4. QED
    BY <2>1, <2>2, <2>3
<1> HIDE DEF a, b, x, z
<1>4. Number(Append(x, b), 16) = Number(x, 16) * 16 + char2nyble(b)
  BY <1>0, <1>2, NumberAppend
<1>5. \A c \in Int : char2nyble(c) \in Int
  <2>1. \A c \in Int : char2nyble(c) \in -1..35
    BY Nybles
  <2>2. \A n \in -1..35 : n \in Int
    OBVIOUS
  <2>3. QED
    BY <2>1, <2>2
<1>6. Number(x, 16) = char2nyble(a)
  BY <1>0, <1>3, <1>5
<1>7. QED
  BY <1>1, <1>4, <1>6 DEF a, b
\* Of four, it is that of two numbers of two.
LEMMA NumberFour ==
  ASSUME NEW s \in Seq(Int), Len(s) = 4
  PROVE  Number(s, 16) = (char2nyble(s[1]) * 16 + char2nyble(s[2])) * 256
                           + (char2nyble(s[3]) * 16 + char2nyble(s[4]))
<1> DEFINE v == [k \in DOMAIN s |-> char2nyble(s[k])]
           base == 16
<1>1. \A k \in 1..4 : s[k] \in Int
  BY ElementOfSeq
<1>2. \A c \in Int : char2nyble(c) \in Int
  <2>1. \A c \in Int : char2nyble(c) \in -1..35
    BY Nybles
  <2>2. \A n \in -1..35 : n \in Int
    OBVIOUS
  <2>3. QED
    BY <2>1, <2>2
<1>3. DOMAIN s = 1..4
  OBVIOUS
<1>4. v \in Seq(Int) /\ Len(v) = 4 /\ \A k \in 1..4 : v[k] = char2nyble(s[k])
  <2>1. v = [k \in 1..4 |-> char2nyble(s[k])]
    BY <1>3
  <2>2. \A k \in 1..4 : char2nyble(s[k]) \in Int
    BY <1>1, <1>2
  <2> HIDE DEF v
  <2> DEFINE n == 4
  <2>3. v \in [1..n -> Int] /\ \A k \in 1..n : v[k] = char2nyble(s[k])
    BY <2>1, <2>2
  <2>4. n \in Nat
    OBVIOUS
  <2>5. v \in Seq(Int) /\ Len(v) = n
    <3> HIDE DEF n
    <3>1. QED
      BY <2>3, <2>4
  <2>6. QED
    BY <2>3, <2>5
<1>5. Number(s, 16) = Positional(v, base)
  BY DEF Number
<1> HIDE DEF v
<1>6. base \in Int /\ base = 16
  OBVIOUS
<1> HIDE DEF base
<1>7. Positional(v, base) = ((v[1] * base + v[2]) * base + v[3]) * base + v[4]
  BY <1>4, <1>6, PositionalFour
<1>8. /\ v[1] = char2nyble(s[1]) /\ v[2] = char2nyble(s[2]) /\ v[3] = char2nyble(s[3]) /\ v[4] = char2nyble(s[4])
      /\ v[1] \in Int /\ v[2] \in Int /\ v[3] \in Int /\ v[4] \in Int
  BY <1>1, <1>2, <1>4
<1>9. \A a \in Int, b \in Int, c \in Int, d \in Int :
        ((a * 16 + b) * 16 + c) * 16 + d = (a * 16 + b) * 256 + (c * 16 + d)
  OBVIOUS
<1>10. Number(s, 16) = ((v[1] * 16 + v[2]) * 16 + v[3]) * 16 + v[4]
  BY <1>5, <1>6, <1>7
<1>11. Number(s, 16) = (v[1] * 16 + v[2]) * 256 + (v[3] * 16 + v[4])
  BY <1>8, <1>9, <1>10
<1>12. QED
  BY <1>8, <1>11

\* s holds the digits of the bytes b, and maybe more characters.
HoldsDigits(s, b) == s \in Str /\ b \in Str /\ FlatMap(Hex16, s) = FlatMap(HexOf, b)
\* The digits of the bytes, at their places.
LEMMA DigitsAt ==
  ASSUME NEW s, NEW b, HoldsDigits(s, b), NEW d, d = FlatMap(HexOf, b)
  PROVE  /\ d \in Seq(Char) /\ Len(d) = 2 * Len(b) /\ Len(d) <= Len(s) /\ Len(b) \in Nat /\ Len(s) \in Nat
         /\ Filter(s, LAMBDA c : Digit(c, 16)) = d
         /\ \A j \in 1..Len(b) : d[2 * j - 1] = High(b[j]) /\ d[2 * j] = Low(b[j])
<1>1. s \in Seq(Char) /\ b \in Seq(Char) /\ FlatMap(Hex16, s) = d
  BY DEF HoldsDigits, Str
<1>2. PairsOf(d, HexOf, b, Char)
  <2>1. HexOf \in [Char -> Seq(Char)]
    BY HexFunctions
  <2>2. \A c \in Char : Len(HexOf[c]) = 2
    BY HexFunctions
  <2>3. PairsOf(FlatMap(HexOf, b), HexOf, b, Char)
    BY <1>1, <2>1, <2>2, PairsAre
  <2>4. QED
    BY <2>3
<1>3. Len(FlatMap(Hex16, s)) <= Len(s)
  BY <1>1, HexFunctions, KeepsShorter
<1>4. Filter(s, LAMBDA c : Digit(c, 16)) = d
  BY <1>1, HexFilter DEF Str
<1>5. \A j \in 1..Len(b) : HexOf[b[j]][1] = High(b[j]) /\ HexOf[b[j]][2] = Low(b[j])
  <2>1. \A j \in 1..Len(b) : b[j] \in Char
    BY <1>1, ElementOfSeq
  <2>2. QED
    BY <2>1, HexFunctions
<1>6. QED
  BY <1>1, <1>2, <1>3, <1>4, <1>5, LenProperties DEF PairsOf

\* hex2binary to bytes gives these bytes.
LEMMA HexToBytes ==
  ASSUME NEW s, NEW b, HoldsDigits(s, b)
  PROVE  hex2binary(s, 1) = b
<1> DEFINE d == FlatMap(HexOf, b)
           digits == Filter(s, LAMBDA c : Digit(c, 16))
           words == Min({Len(digits) \div (2 * 1), (Len(s) \div 2) \div 1})
           x(k) == SubSeq(digits, (k - 1) * 2 * 1 + 1, k * 2 * 1)
<1>0. hex2binary(s, 1) = [k \in 1..words |-> Number(x(k), 16)]
  BY DEF hex2binary
<1>1. d = FlatMap(HexOf, b)
  OBVIOUS
<1> HIDE DEF d
<1>2. /\ d \in Seq(Char) /\ Len(d) = 2 * Len(b) /\ Len(d) <= Len(s) /\ Len(b) \in Nat /\ Len(s) \in Nat
      /\ digits = d
      /\ \A j \in 1..Len(b) : d[2 * j - 1] = High(b[j]) /\ d[2 * j] = Low(b[j])
  BY <1>1, DigitsAt, ZenonT(30)
<1> HIDE DEF digits
<1>3. words = Len(b)
  <2> DEFINE p == Len(digits) \div (2 * 1)
             q == (Len(s) \div 2) \div 1
  <2>1. p = Len(b)
    BY <1>2
  <2>2. q \in Int /\ p \in Int /\ p <= q
    BY <1>2
  <2>3. words = Min({p, q})
    OBVIOUS
  <2> HIDE DEF p, q, words
  <2>4. QED
    BY <2>1, <2>2, <2>3, MinIs
<1> HIDE DEF words
<1>4. ASSUME NEW k \in 1..Len(b) PROVE Number(x(k), 16) = b[k]
  <2> DEFINE i == (k - 1) * 2 * 1 + 1
             j == k * 2 * 1
             y == SubSeq(d, i, j)
  <2>1. i = 2 * k - 1 /\ j = 2 * k /\ i \in 1..Len(d) /\ j \in 1..Len(d) /\ j - i + 1 = 2 /\ i \in Int /\ j \in Int
        /\ i + 1 - 1 = i /\ i + 2 - 1 = j
    BY <1>2
  <2>2. x(k) = y
    BY <1>2
  <2> HIDE DEF i, j
  <2>3. y \in Seq(Char) /\ Len(y) = 2 /\ \A m \in 1..2 : y[m] = d[i + m - 1]
    <3>1. \A m \in i..j : d[m] \in Char
      BY <1>2, <2>1, ElementOfSeq
    <3>2. /\ y \in Seq(Char) /\ Len(y) = IF i <= j THEN j - i + 1 ELSE 0
          /\ \A m \in 1..(j - i + 1) : y[m] = d[i + m - 1]
      BY <2>1, <3>1, SubSeqProperties
    <3> HIDE DEF y
    <3>3. QED
      BY <2>1, <3>2
  <2> HIDE DEF y, x
  <2>4. y[1] = High(b[k]) /\ y[2] = Low(b[k])
    BY <1>2, <2>1, <2>3
  <2>5. b[k] \in Char
    BY ElementOfSeq DEF HoldsDigits, Str
  <2>6. y \in Seq(Int)
    <3>1. Char \subseteq Int
      BY DEF Char
    <3>2. QED
      BY <2>3, <3>1, SeqMonotonic
  <2>7. Number(y, 16) = char2nyble(y[1]) * 16 + char2nyble(y[2])
    BY <2>3, <2>6, NumberTwo
  <2>8. Number(y, 16) = (b[k] \div 16) * 16 + (b[k] % 16)
    BY <2>4, <2>5, <2>7, HexPairs
  <2>9. QED
    BY <2>2, <2>5, <2>8, HexPairs
<1> HIDE DEF x
<1>5. b = [k \in 1..Len(b) |-> b[k]]
  BY DEF HoldsDigits, Str
<1>6. QED
  BY <1>0, <1>3, <1>4, <1>5

\* n words of two bytes, the high byte first.
WordsOf(b, n) == [k \in 1..n |-> b[2 * k - 1] * 256 + b[2 * k]]
\* hex2binary to words of two bytes gives these.
LEMMA HexToWords ==
  ASSUME NEW s, NEW b, HoldsDigits(s, b), NEW n \in Nat, Len(b) = 2 * n
  PROVE  hex2binary(s, 2) = WordsOf(b, n)
<1> DEFINE d == FlatMap(HexOf, b)
           digits == Filter(s, LAMBDA c : Digit(c, 16))
           words == Min({Len(digits) \div (2 * 2), (Len(s) \div 2) \div 2})
           x(k) == SubSeq(digits, (k - 1) * 2 * 2 + 1, k * 2 * 2)
<1>0. hex2binary(s, 2) = [k \in 1..words |-> Number(x(k), 16)]
  BY DEF hex2binary
<1>1. d = FlatMap(HexOf, b)
  OBVIOUS
<1> HIDE DEF d
<1>2. /\ d \in Seq(Char) /\ Len(d) = 2 * Len(b) /\ Len(d) <= Len(s) /\ Len(b) \in Nat /\ Len(s) \in Nat
      /\ digits = d
      /\ \A j \in 1..Len(b) : d[2 * j - 1] = High(b[j]) /\ d[2 * j] = Low(b[j])
  BY <1>1, DigitsAt, ZenonT(30)
<1> HIDE DEF digits
<1>3. words = n
  <2> DEFINE p == Len(digits) \div (2 * 2)
             q == (Len(s) \div 2) \div 2
  <2>1. p = n
    <3>1. Len(digits) = 4 * n
      BY <1>2
    <3>2. \A m \in Nat : (4 * m) \div (2 * 2) = m
      OBVIOUS
    <3>3. QED
      BY <3>1, <3>2
  <2>2. q \in Int /\ p \in Int /\ p <= q
    <3>1. Len(s) >= 4 * n
      BY <1>2
    <3>2. \A l \in Nat, m \in Nat : l >= 4 * m => (l \div 2) \div 2 \in Int /\ m <= (l \div 2) \div 2
      OBVIOUS
    <3>3. QED
      BY <1>2, <2>1, <3>1, <3>2
  <2>3. words = Min({p, q})
    OBVIOUS
  <2> HIDE DEF p, q, words
  <2>4. QED
    BY <2>1, <2>2, <2>3, MinIs
<1> HIDE DEF words
<1>4. ASSUME NEW k \in 1..n PROVE Number(x(k), 16) = b[2 * k - 1] * 256 + b[2 * k]
  <2> DEFINE i == (k - 1) * 2 * 2 + 1
             j == k * 2 * 2
             y == SubSeq(d, i, j)
             f == 2 * k - 1
             g == 2 * k
  <2>1. /\ i \in 1..Len(d) /\ j \in 1..Len(d) /\ j - i + 1 = 4 /\ i \in Int /\ j \in Int
        /\ i + 1 - 1 = 2 * f - 1 /\ i + 2 - 1 = 2 * f /\ i + 3 - 1 = 2 * g - 1 /\ i + 4 - 1 = 2 * g
        /\ f \in 1..Len(b) /\ g \in 1..Len(b)
    BY <1>2
  <2>2. x(k) = y
    BY <1>2
  <2> HIDE DEF i, j, f, g
  <2>3. y \in Seq(Char) /\ Len(y) = 4 /\ \A m \in 1..4 : y[m] = d[i + m - 1]
    <3> DEFINE l == 4
               h == i + l - 1
    <3>1. i \in 1..Len(d) + 1 /\ l \in 0..Len(d) + 1 - i /\ j = h
      BY <1>2, <2>1
    <3> HIDE DEF l
    <3>2. /\ SubSeq(d, i, h) \in Seq(Char) /\ Len(SubSeq(d, i, h)) = l
          /\ \A m \in 1..l : SubSeq(d, i, h)[m] = d[i + m - 1]
      BY <1>2, <3>1, PartOfSuffix
    <3> HIDE DEF h
    <3>3. QED
      BY <3>1, <3>2 DEF l
  <2> HIDE DEF y, x
  <2>4. y[1] = High(b[f]) /\ y[2] = Low(b[f]) /\ y[3] = High(b[g]) /\ y[4] = Low(b[g])
    <3>1. y[1] = d[i + 1 - 1] /\ y[2] = d[i + 2 - 1] /\ y[3] = d[i + 3 - 1] /\ y[4] = d[i + 4 - 1]
      BY <2>3
    <3>2. d[2 * f - 1] = High(b[f]) /\ d[2 * f] = Low(b[f]) /\ d[2 * g - 1] = High(b[g]) /\ d[2 * g] = Low(b[g])
      BY <1>2, <2>1
    <3>3. QED
      BY <2>1, <3>1, <3>2
  <2>5. b[f] \in Char /\ b[g] \in Char
    BY <2>1, ElementOfSeq DEF HoldsDigits, Str
  <2>6. y \in Seq(Int)
    <3>1. Char \subseteq Int
      BY DEF Char
    <3>2. QED
      BY <2>3, <3>1, SeqMonotonic
  <2>7. Number(y, 16) = (char2nyble(y[1]) * 16 + char2nyble(y[2])) * 256 + (char2nyble(y[3]) * 16 + char2nyble(y[4]))
    BY <2>3, <2>6, NumberFour
  <2>8. char2nyble(y[1]) * 16 + char2nyble(y[2]) = b[f]
    BY <2>4, <2>5, HexPairs, ZenonT(30)
  <2>9. char2nyble(y[3]) * 16 + char2nyble(y[4]) = b[g]
    BY <2>4, <2>5, HexPairs
  <2>10. QED
    BY <2>2, <2>7, <2>8, <2>9 DEF f, g
<1> HIDE DEF x
<1>5. QED
  BY <1>0, <1>3, <1>4 DEF WordsOf

\* The digits of a string.
LEMMA DigitsOf ==
  ASSUME NEW s \in Str
  PROVE  HexDigitsOf(s) = FlatMap(HexOf, s) /\ FlatMap(HexOf, s) \in Str /\ HoldsDigits(FlatMap(HexOf, s), s)
<1>1. HexDigitsOf(s) = FlattenSeq([k \in DOMAIN s |-> HexPair(s[k])])
  BY DEF HexDigitsOf
<1>2. FlatMap(HexOf, s) = FlattenSeq([k \in DOMAIN s |-> HexOf[s[k]]])
  BY DEF FlatMap, Mapped
<1>3. \A k \in DOMAIN s : s[k] \in Char
  BY DEF Str
<1>4. \A k \in DOMAIN s : HexOf[s[k]] = HexPair(s[k])
  BY <1>3 DEF HexOf
<1>5. HexOf \in [Char -> Seq(Char)] /\ Hex16 \in [Char -> Seq(Char)]
  BY HexFunctions
<1>6. \A c \in Char : FlatMap(Hex16, HexOf[c]) = HexOf[c]
  BY HexFunctions
<1>7. s \in Seq(Char)
  BY DEF Str
<1>8. FlatMap(Hex16, FlatMap(HexOf, s)) = FlatMap(HexOf, s)
  <2>1. Composes(HexOf, Hex16, HexOf, Char, Char, Char)
    BY <1>5, <1>6 DEF Composes
  <2>2. QED
    BY <1>7, <2>1, FlatMapCompose
<1>9. FlatMap(HexOf, s) \in Seq(Char)
  BY <1>5, <1>7, FlatMapType
<1>10. QED
  BY <1>1, <1>2, <1>4, <1>8, <1>9 DEF HoldsDigits, Str

\* binary2hex holds them, and the zeros after them do not count.
LEMMA BinaryHolds ==
  ASSUME NEW s \in Str
  PROVE  HoldsDigits(binary2hex(s), s)
<1> DEFINE d == FlatMap(HexOf, s)
           z == [k \in 1..Len(s) |-> 0]
<1>1. HexDigitsOf(s) = d /\ d \in Seq(Char) /\ FlatMap(Hex16, d) = d
  BY DigitsOf DEF HoldsDigits, Str
<1>2. z \in Seq({0})
  <2>1. Len(s) \in Nat
    BY LenProperties DEF Str
  <2>2. z \in [1..Len(s) -> {0}]
    OBVIOUS
  <2>3. QED
    BY <2>1, <2>2
<1>3. binary2hex(s) = d \o z
  BY <1>1 DEF binary2hex
<1> HIDE DEF z
<1>4. Hex16 \in [Char -> Seq(Char)] /\ 0 \in Char /\ Hex16[0] = <<>>
  BY HexFunctions
<1>5. FlatMap(Hex16, z) = <<>>
  <2> DEFINE Z == {0}
  <2>1. Z \in SUBSET Char /\ \A e \in Z : Hex16[e] = <<>>
    BY <1>4
  <2>2. z \in Seq(Z)
    BY <1>2
  <2> HIDE DEF Z
  <2>3. QED
    BY <1>4, <2>1, <2>2, FlatMapNone
<1>6. z \in Seq(Char)
  <2>1. {0} \subseteq Char
    BY <1>4
  <2>2. QED
    BY <1>2, <2>1, SeqMonotonic
<1>d. d = FlatMap(HexOf, s)
  OBVIOUS
<1> HIDE DEF d
<1>7. FlatJoins(Hex16, d, z)
  BY <1>1, <1>4, <1>6, FlatMapJoin
<1>8. d \o <<>> = d /\ d \o z \in Seq(Char)
  BY <1>1, <1>6, ConcatEmptySeq, ConcatProperties
<1>9. QED
  BY <1>1, <1>3, <1>5, <1>7, <1>8, <1>d DEF FlatJoins, HoldsDigits, Str

\* Every byte's digits with a separator after them.
Spaced(sep) == [c \in Char |-> Append(HexPair(c), sep)]
\* hexstring holds the digits: the separators do not count, and the one after
\* the last is cut off.
LEMMA SpacedHolds ==
  ASSUME NEW s \in Str, NEW sep \in Char, Hex16[sep] = <<>>
  PROVE  HoldsDigits(hexstring(s, sep), s)
<1> DEFINE F == Spaced(sep)
           full == FlatMap(F, s)
           m == Max({0, 3 * Len(s) - 1})
<1>0. s \in Seq(Char) /\ Len(s) \in Nat /\ sep \in Char /\ Hex16[sep] = <<>>
  BY HexFunctions, LenProperties DEF Str
<1>1. HexOf \in [Char -> Seq(Char)] /\ Hex16 \in [Char -> Seq(Char)]
  BY HexFunctions
<1> DEFINE w == <<sep>>
<1>2. w \in Seq(Char) /\ FlatMap(Hex16, w) = <<>> /\ Len(w) = 1
  <2>1. FlatMap(Hex16, w) = Hex16[sep]
    <3>1. Hex16 \in [Char -> Seq(Char)] /\ sep \in Char
      BY <1>0, <1>1
    <3>2. QED
      BY ONLY <3>1, FlatMapOne
  <2>2. w \in Seq(Char) /\ Len(w) = 1
    BY <1>0
  <2>3. QED
    BY <1>0, <2>1, <2>2
<1> HIDE DEF w
<1>3. ASSUME NEW c \in Char
      PROVE  /\ F[c] = HexOf[c] \o w /\ F[c] \in Seq(Char) /\ Len(F[c]) = 3 /\ FlatMap(Hex16, F[c]) = HexOf[c]
             /\ HexOf[c] \in Seq(Char) /\ FlatMap(Hex16, HexOf[c]) = HexOf[c]
  <2> DEFINE h == HexOf[c]
  <2>1. h \in Seq(Char) /\ Len(h) = 2 /\ FlatMap(Hex16, h) = h
    BY <1>1, HexFunctions
  <2>2. F[c] = Append(h, sep)
    BY DEF Spaced, HexOf
  <2> HIDE DEF h, F
  <2>3. Append(h, sep) = h \o w
    BY <1>0, <2>1, AppendIsConcat DEF w
  <2>4. h \o w \in Seq(Char) /\ Len(h \o w) = 3
    <3>1. h \in Seq(Char) /\ w \in Seq(Char)
      BY <1>2, <2>1
    <3>2. h \o w \in Seq(Char) /\ Len(h \o w) = Len(h) + Len(w)
      BY ONLY <3>1, ConcatProperties
    <3>3. QED
      BY <1>2, <2>1, <3>2
  <2>5. FlatJoins(Hex16, h, w)
    BY <1>1, <1>2, <2>1, FlatMapJoin
  <2>6. FlatMap(Hex16, h \o w) = h
    BY <1>2, <2>1, <2>5, ConcatEmptySeq DEF FlatJoins
  <2>7. QED
    BY <2>1, <2>2, <2>3, <2>4, <2>6 DEF h
<1>4. F \in [Char -> Seq(Char)]
  <2>1. F = [c \in Char |-> F[c]]
    BY DEF Spaced
  <2> HIDE DEF F
  <2>2. QED
    BY <1>3, <2>1
<1>5. hexstring(s, sep) = SubSeq(full, 1, m)
  <2>1. \A k \in DOMAIN s : s[k] \in Char
    BY <1>0
  <2>2. \A k \in DOMAIN s : F[s[k]] = Append(HexPair(s[k]), sep)
    BY <2>1 DEF Spaced
  <2>3. full = FlattenSeq([k \in DOMAIN s |-> F[s[k]]])
    BY DEF FlatMap, Mapped
  <2> HIDE DEF F, full
  <2>4. full = FlattenSeq([k \in DOMAIN s |-> Append(HexPair(s[k]), sep)])
    BY <2>2, <2>3
  <2>5. QED
    BY <2>4 DEF hexstring
<1> HIDE DEF F
<1>6. CASE s = <<>>
  <2>1. full = <<>> /\ FlatMap(HexOf, s) = <<>> /\ FlatMap(Hex16, <<>>) = <<>>
    BY <1>6, FlatMapEmpty
  <2>2. SubSeq(<<>>, 1, m) = <<>>
    <3> DEFINE a == 3 * Len(s) - 1
    <3>1. a = -1 /\ 0 \in Int /\ a \in Int /\ ~(0 <= a)
      BY <1>6, EmptySeq
    <3>2. m = Max({0, a})
      OBVIOUS
    <3> HIDE DEF a, m
    <3>3. m = 0
      BY <3>1, <3>2, MaxIs
    <3>4. QED
      BY <3>3, SubSeqEmpty
  <2>3. <<>> \in Seq(Char)
    BY EmptySeq
  <2>4. QED
    BY <1>0, <1>5, <2>1, <2>2, <2>3 DEF HoldsDigits, Str
<1>7. CASE s # <<>>
  <2>1. PICK r \in Seq(Char), e \in Char : s = r \o <<e>> /\ Len(s) = Len(r) + 1
    BY <1>0, <1>7, FrontAndLast
  <2> DEFINE a == FlatMap(F, r)
             h == HexOf[e]
             x == a \o h
  <2>2. Len(r) \in Nat
    BY LenProperties
  <2>5. a \in Seq(Char) /\ Len(a) = 3 * Len(r)
    <3>1. a \in Seq(Char)
      BY <1>4, FlatMapType
    <3> DEFINE l == 3
    <3>2. l \in Nat /\ \A c \in Char : Len(F[c]) = l
      BY <1>3
    <3>3. Len(a) = l * Len(r)
      <4> HIDE DEF l
      <4>1. F \in [Char -> Seq(Char)] /\ r \in Seq(Char)
        BY <1>4
      <4>2. QED
        BY ONLY <3>2, <4>1, FlatMapLength
    <3>4. QED
      BY <3>1, <3>3
  <2>6. h \in Seq(Char) /\ Len(h) = 2 /\ F[e] = h \o w /\ FlatMap(Hex16, h) = h
    BY <1>3, HexFunctions
  <2>7. FlatMap(Hex16, a) = FlatMap(HexOf, r)
    <3>1. Composes(HexOf, Hex16, F, Char, Char, Char)
      BY <1>1, <1>3, <1>4 DEF Composes
    <3>2. QED
      BY <3>1, FlatMapCompose
  <2>8. full = a \o F[e] /\ FlatMap(HexOf, s) = FlatMap(HexOf, r) \o h
    <3>1. FlatMap(F, s) = FlatMap(F, r) \o F[e]
      BY <1>4, <2>1, FlatMapLast, ZenonT(30)
    <3>2. FlatMap(HexOf, s) = FlatMap(HexOf, r) \o HexOf[e]
      BY <1>1, <2>1, FlatMapLast, ZenonT(30)
    <3>3. QED
      BY <3>1, <3>2
  <2> HIDE DEF a, h, full
  <2>9. x \in Seq(Char) /\ Len(x) = 3 * Len(r) + 2
    <3>1. a \in Seq(Char) /\ h \in Seq(Char)
      BY <2>5, <2>6
    <3>2. x \in Seq(Char) /\ Len(x) = Len(a) + Len(h)
      BY ONLY <3>1, ConcatProperties
    <3>3. QED
      BY <2>2, <2>5, <2>6, <3>2
  <2>10. Associates(a, h, w)
    BY <1>2, <2>5, <2>6, JoinAssociates
  <2>11. FlatJoins(Hex16, a, h)
    BY <1>1, <2>5, <2>6, FlatMapJoin
  <2>12. full = x \o w /\ FlatMap(Hex16, x) = FlatMap(HexOf, s)
    BY <2>6, <2>7, <2>8, <2>10, <2>11 DEF Associates, FlatJoins
  <2> HIDE DEF x
  <2>13. m = Len(x)
    <3> DEFINE l == 3 * Len(s) - 1
    <3>1. l = Len(x) /\ 0 \in Int /\ l \in Int /\ 0 <= l
      BY <2>1, <2>2, <2>9
    <3>2. m = Max({0, l})
      OBVIOUS
    <3> HIDE DEF l, m
    <3>3. QED
      BY <3>1, <3>2, MaxIs
  <2>14. SubSeq(x \o w, 1, Len(x)) = x
    BY <1>2, <2>9, PrefixOfJoin
  <2>15. hexstring(s, sep) = x
    BY <1>5, <2>12, <2>13, <2>14
  <2>16. QED
    BY <1>0, <2>9, <2>12, <2>15 DEF HoldsDigits, Str
<1>8. QED
  BY <1>6, <1>7

\* A line of units, with a separator before each.
UnitText == [c \in Str |-> <<Blank>> \o HexDigitsOf(c)]
UnitDigits == [c \in Str |-> FlatMap(HexOf, c)]
SameText == [c \in Str |-> c]
\* It holds the digits of their bytes, unit after unit.
LEMMA UnitsHold ==
  ASSUME NEW units \in Seq(Str)
  PROVE  HoldsDigits(FlattenSeq([k \in DOMAIN units |-> <<Blank>> \o HexDigitsOf(units[k])]), FlattenSeq(units))
<1> DEFINE t == FlatMap(UnitText, units)
           b == FlatMap(SameText, units)
           w == <<Blank>>
<1>1. HexOf \in [Char -> Seq(Char)] /\ Hex16 \in [Char -> Seq(Char)]
  BY HexFunctions
<1>2. w \in Seq(Char) /\ FlatMap(Hex16, w) = <<>>
  <2>1. Blank \in Char /\ Hex16[Blank] = <<>>
    BY HexFunctions
  <2>2. FlatMap(Hex16, w) = Hex16[Blank]
    BY <1>1, <2>1, FlatMapOne
  <2>3. QED
    BY <2>1, <2>2
<1>w. w = <<Blank>>
  OBVIOUS
<1> HIDE DEF w
<1>3. ASSUME NEW c \in Str
      PROVE  /\ UnitText[c] = w \o FlatMap(HexOf, c) /\ UnitText[c] \in Seq(Char)
             /\ FlatMap(Hex16, UnitText[c]) = FlatMap(HexOf, c) /\ FlatMap(HexOf, c) \in Seq(Char)
  <2> DEFINE h == FlatMap(HexOf, c)
  <2>1. HexDigitsOf(c) = h /\ h \in Seq(Char) /\ FlatMap(Hex16, h) = h
    BY DigitsOf DEF HoldsDigits, Str
  <2>2. UnitText[c] = w \o h
    BY <1>w, <2>1 DEF UnitText
  <2> HIDE DEF h
  <2>3. w \o h \in Seq(Char) /\ <<>> \o h = h
    BY <1>2, <2>1, ConcatProperties, ConcatEmptySeq
  <2>4. FlatJoins(Hex16, w, h)
    BY <1>1, <1>2, <2>1, FlatMapJoin
  <2>5. FlatMap(Hex16, w \o h) = h
    BY <1>2, <2>1, <2>3, <2>4 DEF FlatJoins
  <2>6. QED
    BY <2>1, <2>2, <2>3, <2>5 DEF h
<1>4. UnitText \in [Str -> Seq(Char)]
  <2>1. UnitText = [c \in Str |-> UnitText[c]]
    BY DEF UnitText
  <2>2. QED
    BY <1>3, <2>1
<1>5. UnitDigits \in [Str -> Seq(Char)] /\ \A c \in Str : UnitDigits[c] = FlatMap(HexOf, c)
  BY <1>3 DEF UnitDigits
<1>6. SameText \in [Str -> Seq(Char)] /\ \A c \in Str : SameText[c] = c
  BY DEF SameText, Str
<1>7. Composes(UnitDigits, Hex16, UnitText, Str, Char, Char)
  BY <1>1, <1>3, <1>4, <1>5 DEF Composes
<1>8. Composes(UnitDigits, HexOf, SameText, Str, Char, Char)
  BY <1>1, <1>5, <1>6 DEF Composes
<1>9. FlatMap(Hex16, t) = FlatMap(HexOf, b)
  <2>1. FlatMap(Hex16, t) = FlatMap(UnitDigits, units)
    BY <1>7, FlatMapCompose
  <2>2. FlatMap(HexOf, b) = FlatMap(UnitDigits, units)
    BY <1>8, FlatMapCompose
  <2>3. QED
    BY <2>1, <2>2
<1>10. t \in Seq(Char) /\ b \in Seq(Char)
  <2>1. t \in Seq(Char)
    BY <1>4, FlatMapType
  <2>2. b \in Seq(Char)
    BY <1>6, FlatMapType
  <2>3. QED
    BY <2>1, <2>2
<1>11. \A k \in DOMAIN units : units[k] \in Str
  OBVIOUS
<1>12. t = FlattenSeq([k \in DOMAIN units |-> <<Blank>> \o HexDigitsOf(units[k])])
  <2>1. \A k \in DOMAIN units : UnitText[units[k]] = <<Blank>> \o HexDigitsOf(units[k])
    BY <1>11 DEF UnitText
  <2>2. t = FlattenSeq([k \in DOMAIN units |-> UnitText[units[k]]])
    BY DEF FlatMap, Mapped
  <2> HIDE DEF t
  <2>3. QED
    BY <2>1, <2>2
<1>13. b = FlattenSeq(units)
  <2>1. b = FlattenSeq([k \in DOMAIN units |-> SameText[units[k]]])
    BY DEF FlatMap, Mapped
  <2>2. units = [k \in DOMAIN units |-> units[k]]
    OBVIOUS
  <2> HIDE DEF b
  <2>3. [k \in DOMAIN units |-> SameText[units[k]]] = [k \in DOMAIN units |-> units[k]]
    BY <1>6, <1>11
  <2>4. QED
    BY <2>1, <2>2, <2>3
<1>14. HoldsDigits(t, b)
  BY <1>9, <1>10 DEF HoldsDigits, Str
<1>15. QED
  BY <1>12, <1>13, <1>14

\* A sequence of one and of two, the other way round.
LEMMA ReverseOne ==
  ASSUME NEW s \in Seq(Char), Len(s) = 1
  PROVE  Reverse(s) = <<s[1]>>
<1>1. Reverse(s) = [i \in 1..1 |-> s[(1 - i) + 1]]
  BY DEF Reverse
<1>2. QED
  BY <1>1
\* Both.
LEMMA ReverseTwo ==
  ASSUME NEW s \in Seq(Char), Len(s) = 2
  PROVE  Reverse(s) = <<s[2], s[1]>>
<1> DEFINE n == 2
           r == Reverse(s)
<1>1. r = [i \in 1..n |-> s[(2 - i) + 1]]
  BY DEF Reverse
<1>2. n \in Nat /\ n = 2 /\ 1 \in 1..n /\ 2 \in 1..n /\ \A i \in 1..n : (2 - i) + 1 \in 1..2
  OBVIOUS
<1>3. \A i \in 1..2 : s[i] \in Char
  BY ElementOfSeq
<1> HIDE DEF n, r
<1>4. r \in [1..n -> Char] /\ r[1] = s[2] /\ r[2] = s[1]
  BY <1>1, <1>2, <1>3
<1>5. r \in Seq(Char) /\ Len(r) = n
  BY ONLY <1>2, <1>4, FunctionIsSeq
<1>6. r = <<s[2], s[1]>>
  BY <1>2, <1>4, <1>5
<1>7. QED
  BY <1>6 DEF r

\* The units of one byte are the bytes.
LEMMA SingleUnits ==
  ASSUME NEW s \in Str
  PROVE  hexdumpunits(s, 1) \in Seq(Str) /\ FlattenSeq(hexdumpunits(s, 1)) = s
<1> DEFINE n == Len(s)
           F == [c \in Char |-> <<c>>]
           m == n \div 1
           x(k) == Reverse(SubSeq(s, (k - 1) * 1 + 1, k * 1))
<1>1. s \in Seq(Char) /\ n \in Nat /\ m = n /\ DOMAIN s = 1..n
  BY LenProperties DEF Str
<1>2. hexdumpunits(s, 1) = [k \in 1..m |-> x(k)]
  BY DEF hexdumpunits, Unit
<1>3. ASSUME NEW k \in 1..n PROVE x(k) = F[s[k]]
  <2> DEFINE y == SubSeq(s, k, k)
  <2>1. y = <<s[k]>> /\ s[k] \in Char
    <3>1. k \in 1..Len(s)
      OBVIOUS
    <3>2. s[k] \in Char
      BY <1>1, ElementOfSeq
    <3> DEFINE l == 1
               h == k + l - 1
    <3>3. k \in 1..Len(s) + 1 /\ l \in 0..Len(s) + 1 - k /\ h = k /\ k + 1 - 1 = k
      BY <1>1
    <3> HIDE DEF l
    <3>4. /\ SubSeq(s, k, h) \in Seq(Char) /\ Len(SubSeq(s, k, h)) = l
          /\ \A i \in 1..l : SubSeq(s, k, h)[i] = s[k + i - 1]
      BY <1>1, <3>3, PartOfSuffix
    <3> HIDE DEF h
    <3>5. y \in Seq(Char) /\ Len(y) = 1 /\ y[1] = s[k]
      BY <3>3, <3>4 DEF l
    <3> HIDE DEF y
    <3>6. QED
      BY <3>2, <3>5
  <2>2. (k - 1) * 1 + 1 = k /\ k * 1 = k
    OBVIOUS
  <2>3. y \in Seq(Char) /\ Len(y) = 1 /\ y[1] = s[k]
    BY <2>1
  <2> HIDE DEF y
  <2>4. Reverse(y) = <<s[k]>>
    BY <2>3, ReverseOne
  <2>5. x(k) = Reverse(y)
    BY <2>2 DEF y
  <2>6. QED
    BY <2>1, <2>4, <2>5
<1> HIDE DEF x
<1>4. hexdumpunits(s, 1) = Mapped(F, s)
  <2>1. Mapped(F, s) = [k \in 1..n |-> F[s[k]]]
    BY <1>1 DEF Mapped
  <2> HIDE DEF F, m
  <2>2. QED
    BY <1>1, <1>2, <1>3, <2>1
<1>5. F \in [Char -> Seq(Char)] /\ \A c \in Char : F[c] = <<c>>
  OBVIOUS
<1> HIDE DEF F
<1>6. FlatMap(F, s) = s
  BY <1>1, <1>5, SinglesFlatten
<1>7. Mapped(F, s) \in Seq(Seq(Char))
  BY <1>1, <1>5, MappedElements DEF MapsTo
<1>8. QED
  BY <1>4, <1>6, <1>7 DEF FlatMap, Str

\* The units of two bytes are these, the second byte first.
LEMMA DoubleUnits ==
  ASSUME NEW s \in Str, NEW n, n = Len(s) \div 2
  PROVE  LET b == FlattenSeq(hexdumpunits(s, 2))
         IN /\ hexdumpunits(s, 2) \in Seq(Str) /\ n \in Nat /\ Len(b) = 2 * n
            /\ \A k \in 1..n : b[2 * k - 1] = s[2 * k] /\ b[2 * k] = s[2 * k - 1]
<1> DEFINE S == {c \in Seq(Char) : Len(c) = 2}
           F == [c \in S |-> c]
           x(k) == Reverse(SubSeq(s, (k - 1) * 2 + 1, k * 2))
           units == [k \in 1..n |-> x(k)]
           b == FlatMap(F, units)
<1>1. s \in Seq(Char) /\ Len(s) \in Nat /\ n \in Nat /\ 2 * n <= Len(s)
  BY LenProperties DEF Str
<1>2. hexdumpunits(s, 2) = units
  BY DEF hexdumpunits, Unit
<1>3. ASSUME NEW k \in 1..n PROVE x(k) = <<s[2 * k], s[2 * k - 1]>> /\ x(k) \in S
  <2> DEFINE i == (k - 1) * 2 + 1
             j == k * 2
             y == SubSeq(s, i, j)
  <2>1. i \in 1..Len(s) /\ j \in 1..Len(s) /\ i = 2 * k - 1 /\ j = 2 * k /\ i + 1 - 1 = i /\ i + 2 - 1 = j
    BY <1>1
  <2>2. y \in Seq(Char) /\ Len(y) = 2 /\ y[1] = s[i] /\ y[2] = s[j]
    <3> DEFINE l == 2
               h == i + l - 1
    <3>1. i \in 1..Len(s) + 1 /\ l \in 0..Len(s) + 1 - i /\ j = h
      BY <1>1, <2>1
    <3> HIDE DEF l, i, j
    <3>2. /\ SubSeq(s, i, h) \in Seq(Char) /\ Len(SubSeq(s, i, h)) = l
          /\ \A m \in 1..l : SubSeq(s, i, h)[m] = s[i + m - 1]
      BY <1>1, <3>1, PartOfSuffix
    <3> HIDE DEF h
    <3>3. y \in Seq(Char) /\ Len(y) = 2 /\ \A m \in 1..2 : y[m] = s[i + m - 1]
      BY <3>1, <3>2 DEF l
    <3> HIDE DEF y
    <3>4. y[1] = s[i + 1 - 1] /\ y[2] = s[i + 2 - 1]
      BY <3>3
    <3>5. QED
      BY <2>1, <3>3, <3>4
  <2>3. x(k) = Reverse(y)
    OBVIOUS
  <2>4. s[i] \in Char /\ s[j] \in Char
    BY <1>1, <2>1, ElementOfSeq
  <2> HIDE DEF y, i, j, x
  <2>5. Reverse(y) = <<y[2], y[1]>>
    BY <2>2, ReverseTwo
  <2>6. x(k) = <<s[j], s[i]>>
    BY <2>2, <2>3, <2>5
  <2>7. <<s[j], s[i]>> \in S
    BY <2>4
  <2>8. QED
    BY <2>1, <2>6, <2>7
<1> HIDE DEF x
<1>4. units \in Seq(S) /\ Len(units) = n /\ \A k \in 1..n : units[k] = <<s[2 * k], s[2 * k - 1]>>
  <2>1. units \in [1..n -> S] /\ \A k \in 1..n : units[k] = <<s[2 * k], s[2 * k - 1]>>
    BY <1>3
  <2> HIDE DEF units, S
  <2>2. units \in Seq(S) /\ Len(units) = n
    BY ONLY <1>1, <2>1, FunctionIsSeq
  <2>3. QED
    BY <2>1, <2>2
<1> HIDE DEF units
<1>5. F \in [S -> Seq(Char)] /\ (\A c \in S : Len(F[c]) = 2) /\ \A c \in S : F[c] = c
  OBVIOUS
<1>6. S \subseteq Str
  BY DEF Str
<1>7. FlattenSeq(units) = b
  <2>1. b = FlattenSeq([k \in DOMAIN units |-> F[units[k]]])
    BY DEF FlatMap, Mapped
  <2>2. units = [k \in DOMAIN units |-> units[k]] /\ \A k \in DOMAIN units : units[k] \in S
    BY <1>4
  <2> HIDE DEF b, F, S
  <2>3. [k \in DOMAIN units |-> F[units[k]]] = [k \in DOMAIN units |-> units[k]]
    BY <1>5, <2>2
  <2>4. QED
    BY <2>1, <2>2, <2>3
<1> HIDE DEF S, F
<1>8. PairsOf(b, F, units, Char)
  BY <1>4, <1>5, PairsAre
<1> HIDE DEF b
<1>9. Len(b) = 2 * n /\ \A k \in 1..n : b[2 * k - 1] = F[units[k]][1] /\ b[2 * k] = F[units[k]][2]
  BY <1>4, <1>8 DEF PairsOf
<1>10. ASSUME NEW k \in 1..n PROVE F[units[k]] = <<s[2 * k], s[2 * k - 1]>>
  <2>1. units[k] \in S
    BY <1>4, ElementOfSeq
  <2>2. QED
    BY <1>4, <1>5, <2>1
<1>11. ASSUME NEW k \in 1..n PROVE b[2 * k - 1] = s[2 * k] /\ b[2 * k] = s[2 * k - 1]
  <2>1. b[2 * k - 1] = F[units[k]][1] /\ b[2 * k] = F[units[k]][2]
    BY <1>9
  <2>2. <<s[2 * k], s[2 * k - 1]>>[1] = s[2 * k] /\ <<s[2 * k], s[2 * k - 1]>>[2] = s[2 * k - 1]
    OBVIOUS
  <2>3. QED
    BY <1>10, <2>1, <2>2
<1>12. units \in Seq(Str)
  BY <1>4, <1>6, SeqMonotonic
<1>13. QED
  BY <1>1, <1>2, <1>7, <1>9, <1>11, <1>12

\* Hexadecimal digits are read back, in all forms that they are written in.
LEMMA HexInverts ==
  ASSUME str \in Str
  PROVE  Hexadecimal
<1>1. ASSUME NEW sep \in {Blank, 58} PROVE hex2binary(hexstring(str, sep), 1) = str
  <2>1. sep \in Char /\ Hex16[sep] = <<>>
    BY HexFunctions
  <2>2. HoldsDigits(hexstring(str, sep), str)
    BY <2>1, SpacedHolds
  <2>3. QED
    BY <2>2, HexToBytes
<1>2. hex2binary(binary2hex(str), 1) = str
  BY BinaryHolds, HexToBytes
<1> DEFINE text(u) == FlattenSeq([k \in DOMAIN hexdumpunits(str, u) |->
                        <<Blank>> \o HexDigitsOf(hexdumpunits(str, u)[k])])
<1>3. hex2binary(text(1), 1) = [k \in 1..Len(str) \div 1 |-> str[k]]
  <2> DEFINE units == hexdumpunits(str, 1)
  <2>1. units \in Seq(Str) /\ FlattenSeq(units) = str
    BY SingleUnits
  <2>2. text(1) = FlattenSeq([k \in DOMAIN units |-> <<Blank>> \o HexDigitsOf(units[k])])
    OBVIOUS
  <2> HIDE DEF units, text
  <2>3. HoldsDigits(text(1), str)
    BY <2>1, <2>2, UnitsHold
  <2>4. Len(str) \in Nat /\ str = [k \in 1..Len(str) |-> str[k]]
    BY LenProperties DEF Str
  <2>5. Len(str) \div 1 = Len(str)
    <3>1. \A m \in Nat : m \div 1 = m
      OBVIOUS
    <3>2. QED
      BY <2>4, <3>1
  <2>6. hex2binary(text(1), 1) = str
    BY <2>3, HexToBytes
  <2>7. QED
    BY <2>4, <2>5, <2>6
<1>4. hex2binary(text(2), 2) = [k \in 1..Len(str) \div 2 |-> str[2 * k - 1] + 256 * str[2 * k]]
  <2> DEFINE units == hexdumpunits(str, 2)
             b == FlattenSeq(units)
             n == Len(str) \div 2
  <2>1. /\ units \in Seq(Str) /\ n \in Nat /\ Len(b) = 2 * n
        /\ \A k \in 1..n : b[2 * k - 1] = str[2 * k] /\ b[2 * k] = str[2 * k - 1]
    BY DoubleUnits
  <2>2. text(2) = FlattenSeq([k \in DOMAIN units |-> <<Blank>> \o HexDigitsOf(units[k])])
    OBVIOUS
  <2>a. \A k \in 1..n : str[2 * k - 1] \in Int /\ str[2 * k] \in Int
    <3>1. Len(str) \in Nat /\ str \in Seq(Char)
      BY LenProperties DEF Str
    <3>2. \A k \in 1..n : 2 * k - 1 \in 1..Len(str) /\ 2 * k \in 1..Len(str)
      BY <3>1
    <3>3. \A i \in 1..Len(str) : str[i] \in Char
      BY <3>1, ElementOfSeq
    <3>4. \A x \in Char : x \in Int
      BY DEF Char
    <3>5. \A i \in 1..Len(str) : str[i] \in Int
      BY <3>3, <3>4
    <3> HIDE DEF n
    <3>6. QED
      BY <3>2, <3>5
  <2> HIDE DEF units, text, n
  <2>3. HoldsDigits(text(2), b)
    BY <2>1, <2>2, UnitsHold
  <2> HIDE DEF b
  <2>4. hex2binary(text(2), 2) = [k \in 1..n |-> b[2 * k - 1] * 256 + b[2 * k]]
    <3> DEFINE t == text(2)
    <3>1. HoldsDigits(t, b) /\ n \in Nat /\ Len(b) = 2 * n
      BY <2>1, <2>3
    <3> HIDE DEF t
    <3>2. hex2binary(t, 2) = WordsOf(b, n)
      BY ONLY <3>1, HexToWords
    <3>3. QED
      BY <3>2 DEF t, WordsOf
  <2>5. \A k \in 1..n : b[2 * k - 1] * 256 + b[2 * k] = str[2 * k - 1] + 256 * str[2 * k]
    BY <2>1, <2>a
  <2>6. hex2binary(text(2), 2) = [k \in 1..n |-> str[2 * k - 1] + 256 * str[2 * k]]
    BY <2>4, <2>5
  <2>7. QED
    BY <2>6 DEF n
<1>5. ASSUME NEW u \in {1, 2}
      PROVE  hex2binary(text(u), u) =
               [k \in 1..Len(str) \div u |-> IF u = 1 THEN str[k] ELSE str[2 * k - 1] + 256 * str[2 * k]]
  <2> HIDE DEF text
  <2>1. CASE u = 1
    BY <1>3, <2>1
  <2>2. CASE u = 2
    BY <1>4, <2>2
  <2>3. QED
    BY <2>1, <2>2
<1>6. QED
  BY <1>1, <1>2, <1>5 DEF Hexadecimal

-----------------------------------------------------------------------------
(* Escapes. *)

Octal(t) == Min({DigitsEnd(t, 2, 8), 5})
Single(out, used) == [out |-> <<out>>, used |-> used]
HasEscape(c) == \E e \in Escapes : e[1] = c
IsWritten(c) == \E e \in Written : e[2] = c

\* What a text begins with, case by case.
LEMMA FirstPlain ==
  ASSUME NEW t, t[1] # Backslash
  PROVE  FirstOf(t) = Single(t[1], 1)
BY DEF FirstOf, Single
\* A backslash alone.
LEMMA FirstAlone == FirstOf(<<Backslash>>) = [out |-> <<>>, used |-> 1]
<1>1. <<Backslash>>[1] = Backslash
  OBVIOUS
<1>2. QED
  BY <1>1 DEF FirstOf
\* A letter that stands for a control character.
LEMMA FirstLetter ==
  ASSUME NEW t, t[1] = Backslash, t # <<Backslash>>, HasEscape(t[2])
  PROVE  FirstOf(t) = Single(EscapeOf(t[2]), 2)
<1>1. \A e \in Escapes : e[1] # 120 /\ e[1] \notin 48..50
  BY DEF Escapes
<1>2. t[2] # 120 /\ t[2] \notin 48..50
  BY <1>1 DEF HasEscape
<1>3. QED
  BY <1>2 DEF FirstOf, HasEscape, Single
\* Hexadecimal digits.
LEMMA FirstHex ==
  ASSUME NEW t, t[1] = Backslash, t # <<Backslash>>, ~HasEscape(t[2]), t[2] = 120
  PROVE  FirstOf(t) = Single(Number(SubSeq(t, 3, DigitsEnd(t, 3, 16) - 1), 16) % 256, DigitsEnd(t, 3, 16) - 1)
BY DEF FirstOf, HasEscape, Single
\* Octal digits.
LEMMA FirstOctal ==
  ASSUME NEW t, t[1] = Backslash, t # <<Backslash>>, ~HasEscape(t[2]), t[2] # 120, t[2] \in 48..50
  PROVE  FirstOf(t) = Single(Number(SubSeq(t, 2, Octal(t) - 1), 8) % 256,
                             IF Octal(t) = 5 THEN Min({5, Len(t)}) ELSE Octal(t) - 1)
BY DEF FirstOf, HasEscape, Single, Octal
\* Anything else stands for itself.
LEMMA FirstOther ==
  ASSUME NEW t, t[1] = Backslash, t # <<Backslash>>, ~HasEscape(t[2]), t[2] # 120, t[2] \notin 48..50
  PROVE  FirstOf(t) = Single(t[2], 2)
BY DEF FirstOf, HasEscape, Single

\* What an escape letter stands for.
LEMMA EscapeLetters ==
  /\ \A c : HasEscape(c) => EscapeOf(c) \in Int
  /\ EscapeOf(110) = 10 /\ EscapeOf(114) = 13 /\ EscapeOf(116) = 9
  /\ \A c \in {110, 114, 116} : HasEscape(c)
  /\ \A c \in {34, 92, 120} : ~HasEscape(c)
<1>1. \A e \in Escapes : e[2] \in Int
  BY DEF Escapes
<1>2. \A e \in Escapes : (e[1] = 110 => e[2] = 10) /\ (e[1] = 114 => e[2] = 13) /\ (e[1] = 116 => e[2] = 9)
  BY DEF Escapes
<1>3. \A c \in {110, 114, 116} : HasEscape(c)
  BY DEF Escapes, HasEscape
<1>4. \A c \in {34, 92, 120} : ~HasEscape(c)
  BY DEF Escapes, HasEscape
<1>5. ASSUME NEW c, HasEscape(c)
      PROVE  (CHOOSE e \in Escapes : e[1] = c) \in Escapes /\ (CHOOSE e \in Escapes : e[1] = c)[1] = c
  BY <1>5 DEF HasEscape
<1>6. HasEscape(110) /\ HasEscape(114) /\ HasEscape(116)
  BY <1>3
<1>7. EscapeOf(110) = 10
  BY <1>2, <1>5, <1>6 DEF EscapeOf
<1>8. EscapeOf(114) = 13
  BY <1>2, <1>5, <1>6 DEF EscapeOf
<1>9. EscapeOf(116) = 9
  BY <1>2, <1>5, <1>6 DEF EscapeOf
<1>10. \A c : HasEscape(c) => EscapeOf(c) \in Int
  BY <1>1, <1>5 DEF EscapeOf
<1>11. QED
  BY <1>3, <1>4, <1>7, <1>8, <1>9, <1>10

\* A number is one, whatever its digits.
LEMMA NumberIsInt ==
  ASSUME NEW t \in Str, NEW i \in 1..Len(t) + 1, NEW j \in i..Len(t) + 1, NEW base \in Int
  PROVE  Number(SubSeq(t, i, j - 1), base) \in Int
<1> DEFINE k == j - i
           u == SubSeq(t, i, i + k - 1)
<1>1. t \in Seq(Char) /\ Len(t) \in Nat
  BY LenProperties DEF Str
<1>2. k \in 0..Len(t) + 1 - i /\ i + k - 1 = j - 1
  BY <1>1
<1>3. u \in Seq(Char)
  <2> HIDE DEF k
  <2>1. QED
    BY <1>1, <1>2, PartOfSuffix
<1>4. u = SubSeq(t, i, j - 1)
  BY <1>2
<1> HIDE DEF u
<1>5. u \in Seq(Int)
  <2>1. Char \subseteq Int
    BY DEF Char
  <2>2. QED
    BY <1>3, <2>1, SeqMonotonic
<1>6. 0 \in Int
  OBVIOUS
<1>7. Number(u, base) \in Int
  BY <1>5, <1>6, NumberAppend
<1>8. QED
  BY <1>4, <1>7

\* What a text begins with takes one character at least, and not more than there are.
Begins(t) == FirstOf(t).out \in Seq(Int) /\ FirstOf(t).used \in 1..Len(t)
\* Of a single value.
LEMMA SingleBegins ==
  ASSUME NEW t, NEW c \in Int, NEW n \in 1..Len(t), FirstOf(t) = Single(c, n)
  PROVE  Begins(t)
<1>1. Single(c, n).out = <<c>> /\ Single(c, n).used = n /\ <<c>> \in Seq(Int)
  BY DEF Single
<1>2. QED
  BY <1>1 DEF Begins

\* Of any text that is not empty.
LEMMA AllBegin ==
  ASSUME NEW t \in Str, t # <<>>
  PROVE  Begins(t)
<1> DEFINE n == Len(t)
<1>1. t \in Seq(Char) /\ n \in Nat /\ n # 0
  BY LenProperties, EmptySeq DEF Str
<1>2. \A k \in 1..n : t[k] \in Int
  <2>1. \A k \in 1..n : t[k] \in Char
    BY <1>1, ElementOfSeq
  <2>2. \A x \in Char : x \in Int
    BY DEF Char
  <2>3. QED
    BY <2>1, <2>2
<1>3. CASE t[1] # Backslash
  <2>1. 1 \in 1..n /\ t[1] \in Int
    BY <1>1, <1>2
  <2>2. FirstOf(t) = Single(t[1], 1)
    BY <1>3, FirstPlain
  <2>3. QED
    BY ONLY <2>1, <2>2, SingleBegins
<1>4. CASE t = <<Backslash>>
  <2>1. FirstOf(t) = [out |-> <<>>, used |-> 1]
    BY <1>4, FirstAlone
  <2>2. FirstOf(t).out = <<>> /\ FirstOf(t).used = 1
    BY <2>1
  <2>3. 1 \in 1..n /\ <<>> \in Seq(Int)
    BY <1>1, EmptySeq
  <2>4. QED
    BY <2>2, <2>3 DEF Begins
<1>5. CASE t[1] = Backslash /\ t # <<Backslash>>
  <2>1. n >= 2
    <3>1. n = 1 => t = <<t[1]>>
      BY <1>1
    <3>2. n # 1
      BY <1>5, <3>1
    <3>3. \A m \in Nat : m # 0 /\ m # 1 => m >= 2
      OBVIOUS
    <3>4. QED
      BY <1>1, <3>2, <3>3
  <2>2. 2 \in 1..n /\ 3 \in 1..n + 1 /\ 2 \in 1..n + 1
    BY <1>1, <2>1
  <2>3. CASE HasEscape(t[2])
    <3> DEFINE c == EscapeOf(t[2])
    <3>1. c \in Int
      BY <2>3, EscapeLetters
    <3>2. FirstOf(t) = Single(c, 2)
      BY <1>5, <2>3, FirstLetter
    <3> HIDE DEF c
    <3>3. QED
      BY ONLY <2>2, <3>1, <3>2, SingleBegins
  <2>4. CASE ~HasEscape(t[2]) /\ t[2] = 120
    <3> DEFINE h == DigitsEnd(t, 3, 16)
               m == Number(SubSeq(t, 3, h - 1), 16)
    <3>1. h \in 3..n + 1
      BY <2>2, DigitsEndThere
    <3>2. FirstOf(t) = Single(m % 256, h - 1)
      BY <1>5, <2>4, FirstHex
    <3> HIDE DEF h
    <3>3. m \in Int
      BY <2>2, <3>1, NumberIsInt
    <3> HIDE DEF m
    <3>4. m % 256 \in Int /\ h - 1 \in 1..n
      BY <1>1, <3>1, <3>3
    <3>5. QED
      BY ONLY <3>2, <3>4, SingleBegins
  <2>5. CASE ~HasEscape(t[2]) /\ t[2] # 120 /\ t[2] \in 48..50
    <3> DEFINE h == DigitsEnd(t, 2, 8)
               o == Octal(t)
               m == Number(SubSeq(t, 2, o - 1), 8)
               w == IF o = 5 THEN Min({5, n}) ELSE o - 1
    <3>1. h \in 2..n + 1
      BY <2>2, DigitsEndThere
    <3>2. FirstOf(t) = Single(m % 256, w)
      BY <1>5, <2>5, FirstOctal
    <3>3. o = IF h <= 5 THEN h ELSE 5
      <4>1. h \in Int /\ 5 \in Int
        BY <3>1
      <4>2. o = Min({h, 5})
        BY DEF Octal
      <4> HIDE DEF h, o
      <4>3. QED
        BY <4>1, <4>2, MinIs
    <3> HIDE DEF h, o
    <3>4. o \in 2..n + 1
      BY <1>1, <3>1, <3>3
    <3>5. Min({5, n}) = IF 5 <= n THEN 5 ELSE n
      <4>1. 5 \in Int /\ n \in Int
        BY <1>1
      <4> HIDE DEF n
      <4>2. QED
        BY <4>1, MinIs
    <3>6. m \in Int
      BY <2>2, <3>4, NumberIsInt
    <3>7. w \in 1..n
      BY <1>1, <2>1, <3>4, <3>5
    <3> HIDE DEF m, w
    <3>8. m % 256 \in Int
      BY <3>6
    <3>9. QED
      BY ONLY <3>2, <3>7, <3>8, SingleBegins
  <2>6. CASE ~HasEscape(t[2]) /\ t[2] # 120 /\ t[2] \notin 48..50
    <3>1. FirstOf(t) = Single(t[2], 2)
      BY <1>5, <2>6, FirstOther
    <3>2. t[2] \in Int
      BY <1>2, <2>2
    <3>3. QED
      BY ONLY <2>2, <3>1, <3>2, SingleBegins
  <2>7. QED
    BY <2>3, <2>4, <2>5, <2>6
<1>6. QED
  BY <1>3, <1>4, <1>5

FirstOut == [t \in Str |-> IF t = <<>> THEN <<>> ELSE FirstOf(t).out]
FirstUsed == [t \in Str |-> IF t = <<>> THEN 0 ELSE FirstOf(t).used]
\* They take a text apart.
LEMMA FirstTakes == FirstOut \in [Seq(Char) -> Seq(Int)] /\ Takes(FirstUsed, Char)
<1>1. \A t \in Str : t # <<>> => FirstOf(t).out \in Seq(Int) /\ FirstOf(t).used \in 1..Len(t)
  BY AllBegin DEF Begins
<1>2. <<>> \in Seq(Int)
  BY EmptySeq
<1>3. \A t \in Str : t # <<>> => FirstOf(t).used \in Nat
  <2> SUFFICES ASSUME NEW t \in Str, t # <<>> PROVE FirstOf(t).used \in Nat
    OBVIOUS
  <2>1. FirstOf(t).used \in 1..Len(t) /\ Len(t) \in Nat
    BY <1>1, LenProperties DEF Str
  <2>2. QED
    BY <2>1
<1>4. FirstOut \in [Str -> Seq(Int)]
  BY <1>1, <1>2 DEF FirstOut
<1>5. FirstUsed \in [Str -> Nat]
  BY <1>3 DEF FirstUsed
<1>6. \A t \in Str : t # <<>> => FirstUsed[t] \in 1..Len(t)
  BY <1>1 DEF FirstUsed
<1>7. QED
  BY <1>4, <1>5, <1>6 DEF Takes, Str

\* cstrunescape is what is put together so.
LEMMA UnescapeIsChain ==
  ASSUME NEW s \in Str
  PROVE  cstrunescape(s) = Chain(FirstOut, FirstUsed, s)
<1> DEFINE n == Len(s)
           Body(f, i) == IF i > n THEN <<>> ELSE FirstOf(TailFrom(s, i)).out \o f[i + FirstOf(TailFrom(s, i)).used]
           Is(f) == f = [i \in 1..n + 1 |-> Body(f, i)]
           f == CHOOSE g : Is(g)
<1>1. s \in Seq(Char) /\ n \in Nat
  BY LenProperties DEF Str
<1>2. FirstOut \in [Seq(Char) -> Seq(Int)] /\ Takes(FirstUsed, Char)
  BY FirstTakes
<1>3. ASSUME NEW i \in 1..n
      PROVE  /\ Suffix(s, i) \in Str /\ Suffix(s, i) # <<>> /\ TailFrom(s, i) = Suffix(s, i)
             /\ FirstUsed[Suffix(s, i)] \in Nat /\ i + FirstUsed[Suffix(s, i)] \in (i + 1)..(n + 1)
             /\ FirstOut[Suffix(s, i)] = FirstOf(Suffix(s, i)).out
             /\ FirstUsed[Suffix(s, i)] = FirstOf(Suffix(s, i)).used
  <2>1. /\ Suffix(s, i) \in Seq(Char) /\ Suffix(s, i) # <<>>
        /\ FirstUsed[Suffix(s, i)] \in Nat /\ i + FirstUsed[Suffix(s, i)] \in (i + 1)..(n + 1)
    BY <1>1, <1>2, TakesWithin
  <2>2. TailFrom(s, i) = Suffix(s, i)
    BY DEF TailFrom, Suffix
  <2>3. QED
    BY <2>1, <2>2 DEF FirstOut, FirstUsed, Str
<1>4. PICK g \in [1..n + 1 -> Seq(Int)] : Links(g, FirstOut, FirstUsed, s)
  BY <1>1, <1>2, LinksExist
<1>5. g[n + 1] = <<>> /\ \A i \in 1..n : g[i] = FirstOut[Suffix(s, i)] \o g[i + FirstUsed[Suffix(s, i)]]
  BY <1>4 DEF Links
<1>6. Is(g)
  <2>1. ASSUME NEW i \in 1..n + 1 PROVE g[i] = Body(g, i)
    <3>1. CASE i = n + 1
      <4>1. i > n
        BY <1>1, <3>1
      <4>2. QED
        BY <1>5, <3>1, <4>1
    <3>2. CASE i \in 1..n
      <4>1. ~(i > n)
        BY <1>1, <3>2
      <4>2. QED
        BY <1>3, <1>5, <3>2, <4>1
    <3>3. i = n + 1 \/ i \in 1..n
      BY <1>1
    <3>4. QED
      BY <3>1, <3>2, <3>3
  <2>2. g = [i \in 1..n + 1 |-> g[i]]
    OBVIOUS
  <2> HIDE DEF Body
  <2>3. QED
    BY <2>1, <2>2
<1>7. Is(f)
  <2> HIDE DEF Is
  <2>1. QED
    BY <1>6
<1>8. cstrunescape(s) = f[1]
  BY Zenon DEF cstrunescape
<1> HIDE DEF f
<1>9. \A i \in 1..n + 1 : f[i] = Body(f, i)
  <2> HIDE DEF Body
  <2>1. QED
    BY <1>7
<1>10. Runs(f, FirstOut, FirstUsed, s, Int)
  <2>1. f[n + 1] = <<>>
    <3>1. n + 1 \in 1..n + 1 /\ n + 1 > n
      BY <1>1
    <3>2. QED
      BY <1>9, <3>1
  <2>2. ASSUME NEW i \in 1..n PROVE f[i] = FirstOut[Suffix(s, i)] \o f[i + FirstUsed[Suffix(s, i)]]
    <3>1. i \in 1..n + 1 /\ ~(i > n)
      BY <1>1
    <3>2. f[i] = FirstOf(TailFrom(s, i)).out \o f[i + FirstOf(TailFrom(s, i)).used]
      BY <1>9, <3>1
    <3>3. QED
      BY <1>3, <3>2
  <2>3. QED
    BY <2>1, <2>2 DEF Runs
<1>11. f[1] = Chain(FirstOut, FirstUsed, s)
  <2>1. s \in Seq(Char)
    BY <1>1
  <2>2. QED
    BY ONLY <1>2, <1>10, <2>1, ChainIs
<1>12. QED
  BY <1>8, <1>11

\* A character as cstrescape writes it.
Esc(c) ==
  IF IsWritten(c) THEN <<Backslash, (CHOOSE e \in Written : e[2] = c)[1]>>
  ELSE IF c < Blank THEN <<Backslash, 120>> \o HexPair(c) ELSE <<c>>
EscF == [c \in Char |-> Esc(c)]

\* cstrescape writes one after another.
LEMMA EscapeIsMap ==
  ASSUME NEW s \in Str
  PROVE  cstrescape(s) = FlatMap(EscF, s)
<1>1. cstrescape(s) = FlattenSeq([k \in DOMAIN s |-> Esc(s[k])])
  BY DEF cstrescape, Esc, IsWritten
<1>2. FlatMap(EscF, s) = FlattenSeq([k \in DOMAIN s |-> EscF[s[k]]])
  BY DEF FlatMap, Mapped
<1>3. \A k \in DOMAIN s : EscF[s[k]] = Esc(s[k])
  <2>1. \A k \in DOMAIN s : s[k] \in Char
    BY DEF Str
  <2>2. QED
    BY <2>1 DEF EscF
<1>4. QED
  BY <1>1, <1>2, <1>3

\* The letters that it uses.
LEMMA WrittenLetters ==
  /\ \A c : IsWritten(c) <=> c \in {10, 13, 9, 34, 92}
  /\ Esc(10) = <<92, 110>> /\ Esc(13) = <<92, 114>> /\ Esc(9) = <<92, 116>>
  /\ Esc(34) = <<92, 34>> /\ Esc(92) = <<92, 92>>
<1>1. \A c : IsWritten(c) <=> c \in {10, 13, 9, 34, 92}
  BY DEF IsWritten, Written, Quote, Backslash
<1>2. /\ \A e \in Written : (e[2] = 10 => e[1] = 110) /\ (e[2] = 13 => e[1] = 114) /\ (e[2] = 9 => e[1] = 116)
      /\ \A e \in Written : (e[2] = 34 => e[1] = 34) /\ (e[2] = 92 => e[1] = 92)
  BY DEF Written, Quote, Backslash
<1>3. ASSUME NEW c, IsWritten(c)
      PROVE  /\ (CHOOSE e \in Written : e[2] = c) \in Written /\ (CHOOSE e \in Written : e[2] = c)[2] = c
             /\ Esc(c) = <<92, (CHOOSE e \in Written : e[2] = c)[1]>>
  BY <1>3 DEF IsWritten, Esc, Backslash
<1>4. IsWritten(10) /\ IsWritten(13) /\ IsWritten(9) /\ IsWritten(34) /\ IsWritten(92)
  BY <1>1
<1>5. Esc(10) = <<92, 110>>
  BY <1>2, <1>3, <1>4
<1>6. Esc(13) = <<92, 114>>
  BY <1>2, <1>3, <1>4
<1>7. Esc(9) = <<92, 116>>
  BY <1>2, <1>3, <1>4
<1>8. Esc(34) = <<92, 34>>
  BY <1>2, <1>3, <1>4
<1>9. Esc(92) = <<92, 92>>
  BY <1>2, <1>3, <1>4
<1>10. QED
  BY <1>1, <1>5, <1>6, <1>7, <1>8, <1>9

\* Characters are numbers.
LEMMA CharsAreInts == \A s \in Seq(Char) : s \in Seq(Int)
<1> SUFFICES ASSUME NEW s \in Seq(Char) PROVE s \in Seq(Int)
  OBVIOUS
<1>1. \A i \in 1..Len(s) : s[i] \in Int
  <2>1. \A i \in 1..Len(s) : s[i] \in Char
    BY ElementOfSeq
  <2>2. \A c \in Char : c \in Int
    BY DEF Char
  <2>3. QED
    BY <2>1, <2>2
<1>2. QED
  BY <1>1, ElementsIn

\* A backslash alone is one character.
LEMMA NotAlone == \A t : Len(t) # 1 => t # <<Backslash>>
<1>1. Len(<<Backslash>>) = 1
  OBVIOUS
<1>2. QED
  BY Zenon, <1>1

\* t is a backslash, a letter and r.
WrittenAs(t, w, r) == t = <<92, w>> \o r
FirstTwo(t, w) == t[1] = Backslash /\ t[2] = w /\ t # <<Backslash>>
\* So it begins with these two, whatever follows.
LEMMA TwoFirst ==
  ASSUME NEW w \in Char, NEW r \in Str, NEW t, WrittenAs(t, w, r)
  PROVE  FirstTwo(t, w)
<1> DEFINE h == <<92, w>>
<1>1. r \in Seq(Char) /\ Len(r) \in Nat /\ 92 \in Char
  BY LenProperties DEF Str, Char
<1>2. h \in Seq(Char) /\ Len(h) = 2 /\ h[1] = 92 /\ h[2] = w /\ t = h \o r
  BY <1>1 DEF WrittenAs
<1> HIDE DEF h
<1>3. /\ t \in Seq(Char) /\ Len(t) = Len(h) + Len(r)
      /\ \A k \in 1..Len(h) + Len(r) : t[k] = IF k <= Len(h) THEN h[k] ELSE r[k - Len(h)]
  <2>1. h \in Seq(Char) /\ r \in Seq(Char) /\ t = h \o r
    BY <1>1, <1>2
  <2>2. QED
    BY ONLY <2>1, ConcatProperties
<1>4. 1 \in 1..Len(h) + Len(r) /\ 2 \in 1..Len(h) + Len(r)
  BY <1>1, <1>2
<1>5. t[1] = h[1] /\ t[2] = h[2]
  BY <1>2, <1>3, <1>4
<1>6. t # <<Backslash>>
  <2>1. Len(t) # 1
    BY <1>1, <1>2, <1>3
  <2>2. QED
    BY <2>1, NotAlone
<1>7. QED
  BY <1>2, <1>5, <1>6 DEF Backslash, FirstTwo

\* What is written for c is read as c, before r.
ReadAs(c, r) ==
  EscF[c] \in Seq(Char) /\ EscF[c] # <<>> /\ FirstOf(EscF[c] \o r) = Single(c, Len(EscF[c]))
\* A letter.
LEMMA LetterRead ==
  ASSUME NEW c \in Char, NEW r \in Str, IsWritten(c)
  PROVE  ReadAs(c, r) /\ EscF[c][1] = Backslash
<1>1. ASSUME NEW w \in Char, EscF[c] = <<92, w>>, FirstOf(<<92, w>> \o r) = Single(c, 2)
      PROVE  ReadAs(c, r) /\ EscF[c][1] = Backslash
  <2> DEFINE x == <<92, w>>
  <2>1. 92 \in Char
    BY DEF Char
  <2>2. x \in Seq(Char) /\ Len(x) = 2 /\ x # <<>> /\ x[1] = 92
    BY <2>1
  <2> HIDE DEF x
  <2>3. EscF[c] = x /\ FirstOf(x \o r) = Single(c, 2)
    BY <1>1 DEF x
  <2>4. QED
    BY <2>2, <2>3 DEF ReadAs, Backslash
<1>2. \A w \in {110, 114, 116, 34, 92} : w \in Char
  BY DEF Char
<1>3. EscF[c] = Esc(c)
  BY DEF EscF
<1>4. ASSUME NEW w \in Char, HasEscape(w), EscapeOf(w) = c, NEW t, t = <<92, w>> \o r
      PROVE  FirstOf(t) = Single(c, 2)
  <2>1. t[1] = Backslash /\ t[2] = w /\ t # <<Backslash>>
    <3>1. WrittenAs(t, w, r)
      BY <1>4, Zenon DEF WrittenAs
    <3>2. QED
      BY <3>1, TwoFirst DEF FirstTwo
  <2>2. HasEscape(w)
    BY <1>4
  <2>3. FirstOf(t) = Single(EscapeOf(t[2]), 2)
    BY <2>1, <2>2, FirstLetter
  <2>4. QED
    BY <1>4, <2>1, <2>3
<1>5. ASSUME NEW w \in Char, w = 34 \/ w = 92, w = c, NEW t, t = <<92, w>> \o r
      PROVE  FirstOf(t) = Single(c, 2)
  <2>1. t[1] = Backslash /\ t[2] = w /\ t # <<Backslash>>
    <3>1. WrittenAs(t, w, r)
      BY <1>5, Zenon DEF WrittenAs
    <3>2. QED
      BY <3>1, TwoFirst DEF FirstTwo
  <2>2. ~HasEscape(w) /\ w # 120 /\ w \notin 48..50
    <3>1. ~HasEscape(w)
      BY <1>5, EscapeLetters
    <3>2. QED
      BY <1>5, <3>1
  <2>3. FirstOf(t) = Single(t[2], 2)
    BY <2>1, <2>2, FirstOther
  <2>4. QED
    BY <1>5, <2>1, <2>3
<1>6. CASE c = 10
  <2>1. EscF[c] = <<92, 110>> /\ EscapeOf(110) = c
    BY <1>3, <1>6, WrittenLetters, EscapeLetters
  <2>2. FirstOf(<<92, 110>> \o r) = Single(c, 2)
    <3>1. 110 \in Char /\ HasEscape(110)
      BY <1>2, EscapeLetters
    <3>2. QED
      BY <1>4, <2>1, <3>1
  <2>3. QED
    BY <1>1, <1>2, <2>1, <2>2
<1>7. CASE c = 13
  <2>1. EscF[c] = <<92, 114>> /\ EscapeOf(114) = c
    BY <1>3, <1>7, WrittenLetters, EscapeLetters
  <2>2. FirstOf(<<92, 114>> \o r) = Single(c, 2)
    <3>1. 114 \in Char /\ HasEscape(114)
      BY <1>2, EscapeLetters
    <3>2. QED
      BY <1>4, <2>1, <3>1
  <2>3. QED
    BY <1>1, <1>2, <2>1, <2>2
<1>8. CASE c = 9
  <2>1. EscF[c] = <<92, 116>> /\ EscapeOf(116) = c
    BY <1>3, <1>8, WrittenLetters, EscapeLetters
  <2>2. FirstOf(<<92, 116>> \o r) = Single(c, 2)
    <3>1. 116 \in Char /\ HasEscape(116)
      BY <1>2, EscapeLetters
    <3>2. QED
      BY <1>4, <2>1, <3>1
  <2>3. QED
    BY <1>1, <1>2, <2>1, <2>2
<1>9. CASE c = 34
  <2>1. EscF[c] = <<92, 34>>
    BY <1>3, <1>9, WrittenLetters
  <2>2. FirstOf(<<92, 34>> \o r) = Single(c, 2)
    BY <1>2, <1>5, <1>9
  <2>3. QED
    BY <1>1, <1>2, <2>1, <2>2
<1>10. CASE c = 92
  <2>1. EscF[c] = <<92, 92>>
    BY <1>3, <1>10, WrittenLetters
  <2>2. FirstOf(<<92, 92>> \o r) = Single(c, 2)
    BY <1>2, <1>5, <1>10
  <2>3. QED
    BY <1>1, <1>2, <2>1, <2>2
<1>11. c \in {10, 13, 9, 34, 92}
  BY WrittenLetters
<1>12. QED
  BY <1>6, <1>7, <1>8, <1>9, <1>10, <1>11

\* Nothing that would be taken for a digit comes first.
NoDigitFirst(r) == r = <<>> \/ ~Digit(r[1], 16)
\* What is written in hexadecimal, and what follows it.
HexForm(x, r, c) ==
  /\ x \in Seq(Char) /\ Len(x) = 4 /\ x[1] = Backslash /\ x # <<>>
  /\ x \o r \in Seq(Char) /\ Len(x \o r) = 4 + Len(r)
  /\ (x \o r)[1] = Backslash /\ (x \o r)[2] = 120 /\ (x \o r)[3] = High(c) /\ (x \o r)[4] = Low(c)
  /\ \A k \in 1..Len(r) : (x \o r)[4 + k] = r[k]
\* It has this form.
LEMMA HexText ==
  ASSUME NEW c \in Char, NEW r \in Str, ~IsWritten(c), c < Blank
  PROVE  HexForm(EscF[c], r, c)
<1> DEFINE x == <<Backslash, 120>> \o HexPair(c)
           t == x \o r
           four == 4
<1>1. r \in Seq(Char) /\ Len(r) \in Nat /\ High(c) \in Char /\ Low(c) \in Char /\ 92 \in Char /\ 120 \in Char
  <2>1. r \in Seq(Char) /\ Len(r) \in Nat
    BY LenProperties DEF Str
  <2>2. High(c) \in Char /\ Low(c) \in Char
    BY HexPairs
  <2>3. 92 \in Char /\ 120 \in Char
    BY DEF Char
  <2>4. QED
    BY <2>1, <2>2, <2>3
<1>2. x = <<92, 120>> \o <<High(c), Low(c)>>
  BY HexPairs DEF Backslash
<1>3. /\ x \in Seq(Char) /\ Len(x) = four /\ x[1] = 92 /\ x[2] = 120 /\ x[3] = High(c) /\ x[4] = Low(c)
  <2> DEFINE y == <<92, 120>>
             z == <<High(c), Low(c)>>
             a == High(c)
             b == Low(c)
  <2>1. a \in Char /\ b \in Char
    BY <1>1
  <2> HIDE DEF a, b
  <2>2. <<a, b>> \in Seq(Char) /\ Len(<<a, b>>) = 2 /\ <<a, b>>[1] = a /\ <<a, b>>[2] = b
    BY <2>1
  <2>3. z \in Seq(Char) /\ Len(z) = 2 /\ z[1] = High(c) /\ z[2] = Low(c)
    BY <2>2 DEF a, b
  <2>4. y \in Seq(Char) /\ Len(y) = 2 /\ y[1] = 92 /\ y[2] = 120
    BY <1>1
  <2>5. x = y \o z
    BY <1>2
  <2> HIDE DEF y, z, x
  <2>a. y \in Seq(Char) /\ z \in Seq(Char)
    BY <2>3, <2>4
  <2>6. /\ x \in Seq(Char) /\ Len(x) = Len(y) + Len(z)
        /\ \A k \in 1..Len(y) + Len(z) : x[k] = IF k <= Len(y) THEN y[k] ELSE z[k - Len(y)]
    BY ONLY <2>5, <2>a, ConcatProperties
  <2>7. \A k \in 1..4 : x[k] = IF k <= 2 THEN y[k] ELSE z[k - 2]
    BY <2>3, <2>4, <2>6
  <2>8. x[1] = y[1] /\ x[2] = y[2] /\ x[3] = z[1] /\ x[4] = z[2]
    BY <2>7
  <2>9. QED
    BY <2>3, <2>4, <2>6, <2>8
<1>4. EscF[c] = x
  BY DEF EscF, Esc
<1> HIDE DEF x
<1>5. /\ t \in Seq(Char) /\ Len(t) = four + Len(r)
      /\ \A k \in 1..four + Len(r) : t[k] = IF k <= four THEN x[k] ELSE r[k - four]
  <2>1. x \in Seq(Char) /\ r \in Seq(Char) /\ Len(x) = four
    BY <1>1, <1>3
  <2> HIDE DEF four, t
  <2>2. t = x \o r
    BY DEF t
  <2>3. /\ t \in Seq(Char) /\ Len(t) = Len(x) + Len(r)
        /\ \A k \in 1..Len(x) + Len(r) : t[k] = IF k <= Len(x) THEN x[k] ELSE r[k - Len(x)]
    BY ONLY <2>1, <2>2, ConcatProperties
  <2>4. QED
    BY ONLY <2>1, <2>3
<1>6. t[1] = 92 /\ t[2] = 120 /\ t[3] = High(c) /\ t[4] = Low(c)
  <2>1. four = 4
    OBVIOUS
  <2>2. 1 \in 1..four + Len(r) /\ 2 \in 1..four + Len(r) /\ 3 \in 1..four + Len(r) /\ 4 \in 1..four + Len(r)
    BY <1>1
  <2>3. t[1] = x[1] /\ t[2] = x[2] /\ t[3] = x[3] /\ t[4] = x[4]
    BY <1>5, <2>1, <2>2
  <2>4. QED
    BY <1>3, <2>3
<1>7. x # <<>>
  BY <1>3, EmptySeq
<1>8. \A k \in 1..Len(r) : t[4 + k] = r[k]
  <2> SUFFICES ASSUME NEW k \in 1..Len(r) PROVE t[4 + k] = r[k]
    OBVIOUS
  <2>1. 4 + k \in 1..four + Len(r) /\ ~(4 + k <= four) /\ (4 + k) - four = k
    BY <1>1
  <2>2. QED
    BY <1>5, <2>1
<1>9. Len(x) = 4 /\ Len(t) = 4 + Len(r)
  BY <1>3, <1>5
<1>10. t = x \o r
  OBVIOUS
<1> HIDE DEF t, four
<1>11. QED
  BY <1>3, <1>4, <1>5, <1>6, <1>7, <1>8, <1>9, <1>10 DEF HexForm, Backslash

\* A control character in hexadecimal.
LEMMA HexRead ==
  ASSUME NEW c \in Char, NEW r \in Str, ~IsWritten(c), c < Blank, NoDigitFirst(r)
  PROVE  ReadAs(c, r) /\ EscF[c][1] = Backslash
<1> DEFINE x == EscF[c]
           t == x \o r
<1>0. HexForm(x, r, c)
  BY HexText
<1> HIDE DEF x
<1>1. r \in Seq(Char) /\ Len(r) \in Nat
  BY LenProperties DEF Str
<1>3. x \in Seq(Char) /\ Len(x) = 4 /\ x[1] = Backslash /\ x # <<>>
  BY <1>0 DEF HexForm
<1>5. t \in Seq(Char) /\ Len(t) = 4 + Len(r) /\ \A k \in 1..Len(r) : t[4 + k] = r[k]
  BY <1>0 DEF HexForm
<1>6. t[1] = 92 /\ t[2] = 120 /\ t[3] = High(c) /\ t[4] = Low(c)
  BY <1>0 DEF HexForm, Backslash
<1>7. 5 <= Len(t) => ~Digit(t[5], 16)
  <2> SUFFICES ASSUME 5 <= Len(t) PROVE ~Digit(t[5], 16)
    OBVIOUS
  <2>1. r # <<>> /\ 1 \in 1..Len(r) /\ 4 + 1 = 5
    <3>1. Len(r) # 0
      BY <1>1, <1>5
    <3>2. QED
      BY <1>1, <3>1, EmptySeq
  <2>2. t[5] = r[1]
    BY <1>5, <2>1
  <2>3. QED
    BY <2>1, <2>2 DEF NoDigitFirst
<1> HIDE DEF t
<1>8. DigitsEnd(t, 3, 16) = 5
  <2>1. \A k \in 3..(5 - 1) : k = 3 \/ k = 4
    OBVIOUS
  <2>2. \A k \in 3..(5 - 1) : Digit(t[k], 16)
    BY <1>6, <2>1, HexPairs
  <2>3. t \in Str /\ 3 \in 1..Len(t) + 1 /\ 5 \in 3..Len(t) + 1
    BY <1>1, <1>5 DEF Str
  <2>4. QED
    BY <1>7, <2>2, <2>3, DigitsEndIs
<1>9. Number(SubSeq(t, 3, 5 - 1), 16) = c
  <2> DEFINE u == SubSeq(t, 3, 3 + 2 - 1)
  <2>1. 3 \in 1..Len(t) + 1 /\ 2 \in 0..Len(t) + 1 - 3
    BY <1>1, <1>5
  <2>2. u \in Seq(Char) /\ Len(u) = 2 /\ \A m \in 1..2 : u[m] = t[3 + m - 1]
    BY <1>5, <2>1, PartOfSuffix
  <2> HIDE DEF u
  <2>3. u[1] = t[3] /\ u[2] = t[4]
    BY <2>2
  <2>4. u \in Seq(Int)
    BY <2>2, CharsAreInts
  <2>5. Number(u, 16) = char2nyble(u[1]) * 16 + char2nyble(u[2])
    BY <2>2, <2>4, NumberTwo
  <2>6. SubSeq(t, 3, 5 - 1) = u
    BY DEF u
  <2>7. QED
    <3>1. char2nyble(High(c)) = c \div 16 /\ char2nyble(Low(c)) = c % 16 /\ c = (c \div 16) * 16 + (c % 16)
      BY HexPairs
    <3>2. Number(u, 16) = (c \div 16) * 16 + (c % 16)
      BY <1>6, <2>3, <2>5, <3>1
    <3>3. QED
      BY <2>6, <3>1, <3>2
<1>10. c % 256 = c /\ 5 - 1 = 4
  BY DEF Char
<1>11. FirstOf(t) = Single(c, 4)
  <2>1. t[1] = Backslash /\ t[2] = 120
    BY <1>6 DEF Backslash
  <2>2. t # <<Backslash>>
    <3>1. Len(t) # 1
      BY <1>1, <1>5
    <3>2. QED
      BY <3>1, NotAlone
  <2>3. ~HasEscape(t[2])
    BY <2>1, EscapeLetters
  <2>4. QED
    BY <1>8, <1>9, <1>10, <2>1, <2>2, <2>3, FirstHex
<1>12. t = x \o r
  BY DEF t
<1>13. QED
  BY <1>3, <1>11, <1>12 DEF ReadAs, x

\* Any other character.
LEMMA PlainRead ==
  ASSUME NEW c \in Char, NEW r \in Str, ~IsWritten(c), ~(c < Blank)
  PROVE  ReadAs(c, r) /\ EscF[c][1] = c
<1> DEFINE x == <<c>>
           t == x \o r
<1>1. r \in Seq(Char) /\ x \in Seq(Char) /\ Len(x) = 1 /\ x[1] = c /\ x # <<>>
  BY One DEF Str
<1>2. EscF[c] = x
  BY DEF EscF, Esc
<1>3. t[1] = c
  BY <1>1, ConsElements
<1>4. c # Backslash
  BY WrittenLetters DEF Backslash
<1>5. FirstOf(t) = Single(c, 1)
  BY <1>3, <1>4, FirstPlain
<1>6. QED
  BY <1>1, <1>2, <1>5 DEF ReadAs

\* One of the three.
LEMMA CharRead ==
  ASSUME NEW c \in Char, NEW r \in Str, ~IsWritten(c) /\ c < Blank => NoDigitFirst(r)
  PROVE  ReadAs(c, r) /\ (EscF[c][1] = Backslash \/ EscF[c][1] = c)
<1>1. CASE IsWritten(c)
  BY <1>1, LetterRead
<1>2. CASE ~IsWritten(c) /\ c < Blank
  BY <1>2, HexRead
<1>3. CASE ~IsWritten(c) /\ ~(c < Blank)
  BY <1>3, PlainRead
<1>4. QED
  BY <1>1, <1>2, <1>3

\* What is written is never empty.
LEMMA EscType ==
  /\ EscF \in [Char -> Seq(Char)]
  /\ \A c \in Char : EscF[c] # <<>> /\ (EscF[c][1] = Backslash \/ EscF[c][1] = c)
<1>1. ASSUME NEW c \in Char
      PROVE  EscF[c] \in Seq(Char) /\ EscF[c] # <<>> /\ (EscF[c][1] = Backslash \/ EscF[c][1] = c)
  <2>1. <<>> \in Str /\ NoDigitFirst(<<>>)
    BY EmptySeq DEF Str, NoDigitFirst
  <2>2. ReadAs(c, <<>>) /\ (EscF[c][1] = Backslash \/ EscF[c][1] = c)
    BY <2>1, CharRead
  <2>3. QED
    BY <2>2 DEF ReadAs
<1>2. \A c \in Char : EscF[c] = Esc(c)
  BY DEF EscF
<1>3. EscF \in [Char -> Seq(Char)]
  BY <1>1, <1>2 DEF EscF
<1>4. QED
  BY <1>1, <1>3

\* What is written for e and s.
Begun(e, s, x, r) ==
  /\ FlatMap(EscF, <<e>> \o s) = x \o r /\ x \o r \in Seq(Char) /\ r \in Seq(Char) /\ x \in Seq(Char)
  /\ (x \o r)[1] = x[1] /\ x \o r # <<>> /\ Suffix(x \o r, 1 + Len(x)) = r
\* It begins with what is written for e.
LEMMA EscapedFirst ==
  ASSUME NEW s \in Seq(Char), NEW e \in Char
  PROVE  Begun(e, s, EscF[e], FlatMap(EscF, s))
<1> DEFINE u == <<e>>
           x == EscF[e]
           r == FlatMap(EscF, s)
           t == x \o r
<1>1. EscF \in [Char -> Seq(Char)] /\ u \in Seq(Char) /\ x \in Seq(Char) /\ x # <<>>
  BY EscType, One
<1>2. FlatMap(EscF, u) = x
  BY ONLY <1>1, FlatMapOne
<1>3. r \in Seq(Char)
  BY ONLY <1>1, s \in Seq(Char), FlatMapType
<1> HIDE DEF u
<1>4. FlatJoins(EscF, u, s)
  BY ONLY <1>1, s \in Seq(Char), FlatMapJoin
<1>5. FlatMap(EscF, u \o s) = t
  BY <1>2, <1>4 DEF FlatJoins
<1> HIDE DEF x, r
<1>6. /\ t \in Seq(Char) /\ Len(t) = Len(x) + Len(r)
      /\ \A k \in 1..Len(x) + Len(r) : t[k] = IF k <= Len(x) THEN x[k] ELSE r[k - Len(x)]
  BY <1>1, <1>3, ConcatProperties
<1>7. Len(x) \in Nat /\ Len(r) \in Nat /\ Len(x) # 0
  BY <1>1, <1>3, EmptySeq
<1>8. 1 \in 1..Len(x) + Len(r) /\ 1 <= Len(x) /\ Len(x) + 1 = 1 + Len(x)
  BY <1>7
<1>9. t[1] = x[1]
  BY <1>6, <1>8
<1>10. Suffix(t, Len(x) + 1) = r
  BY <1>1, <1>3, SuffixOfJoin
<1>11. t # <<>>
  <2>1. Len(t) # 0
    BY <1>6, <1>7
  <2>2. QED
    BY <2>1
<1> HIDE DEF t
<1>12. QED
  BY <1>1, <1>3, <1>5, <1>6, <1>8, <1>9, <1>10, <1>11 DEF Begun, u, x, r, t

\* What is written begins with a digit only where s does.
StartsAs(s) == s # <<>> => FlatMap(EscF, s)[1] = Backslash \/ FlatMap(EscF, s)[1] = s[1]
\* It does.
LEMMA AllStart ==
  ASSUME NEW s \in Seq(Char)
  PROVE  StartsAs(s)
<1> DEFINE P == {t \in Seq(Char) : StartsAs(t)}
<1>1. <<>> \in P
  BY EmptySeq DEF StartsAs
<1>2. ASSUME NEW t \in P, NEW e \in Char PROVE <<e>> \o t \in P
  <2>1. t \in Seq(Char)
    OBVIOUS
  <2>2. Begun(e, t, EscF[e], FlatMap(EscF, t))
    BY <2>1, EscapedFirst
  <2>3. EscF[e][1] = Backslash \/ EscF[e][1] = e
    BY EscType
  <2>4. <<e>> \o t \in Seq(Char) /\ (<<e>> \o t)[1] = e
    BY <2>1, ConsElements
  <2>5. FlatMap(EscF, <<e>> \o t)[1] = EscF[e][1]
    BY <2>2 DEF Begun
  <2>6. StartsAs(<<e>> \o t)
    BY <2>3, <2>4, <2>5 DEF StartsAs
  <2>7. QED
    BY <2>4, <2>6
<1>3. P \subseteq Seq(Char)
  OBVIOUS
<1> HIDE DEF P
<1>4. P = Seq(Char)
  BY <1>1, <1>2, <1>3, ConsInduction
<1>5. QED
  BY <1>4 DEF P

\* No control character that is written in hexadecimal is followed by a digit.
Clear(s) == \A k \in 1..Len(s) - 1 : s[k] < Blank /\ ~IsWritten(s[k]) => ~Digit(s[k + 1], 16)
ReadBack(s) == Clear(s) => Chain(FirstOut, FirstUsed, FlatMap(EscF, s)) = s
\* Such a text is read back.
LEMMA AllReadBack ==
  ASSUME NEW s \in Seq(Char)
  PROVE  ReadBack(s)
<1> DEFINE P == {t \in Seq(Char) : ReadBack(t)}
<1>0. FirstOut \in [Seq(Char) -> Seq(Int)] /\ Takes(FirstUsed, Char)
  BY FirstTakes
<1>1. <<>> \in P
  <2>1. <<>> \in Seq(Char) /\ FlatMap(EscF, <<>>) = <<>>
    BY EmptySeq, FlatMapEmpty
  <2>2. Chain(FirstOut, FirstUsed, <<>>) = <<>>
    BY ONLY <1>0, ChainEmpty
  <2>3. QED
    BY <2>1, <2>2 DEF ReadBack
<1>2. ASSUME NEW t \in P, NEW e \in Char PROVE <<e>> \o t \in P
  <2> DEFINE w == <<e>> \o t
             x == EscF[e]
             r == FlatMap(EscF, t)
             u == x \o r
  <2>1. t \in Seq(Char) /\ ReadBack(t) /\ Len(t) \in Nat
    BY LenProperties
  <2>2. w \in Seq(Char) /\ Len(w) = Len(t) + 1 /\ w[1] = e /\ \A i \in 1..Len(t) : w[i + 1] = t[i]
    BY <2>1, ConsElements
  <2>3. Begun(e, t, x, r)
    BY <2>1, EscapedFirst
  <2> SUFFICES ASSUME Clear(w) PROVE Chain(FirstOut, FirstUsed, FlatMap(EscF, w)) = w
    BY <2>2 DEF ReadBack
  <2> HIDE DEF w
  <2>4. Clear(t)
    <3> SUFFICES ASSUME NEW k \in 1..Len(t) - 1, t[k] < Blank /\ ~IsWritten(t[k]) PROVE ~Digit(t[k + 1], 16)
      BY DEF Clear
    <3>1. k \in 1..Len(t) /\ k + 1 \in 1..Len(t) /\ k + 1 \in 1..Len(w) - 1
      BY <2>1, <2>2
    <3>2. w[k + 1] = t[k] /\ w[k + 1 + 1] = t[k + 1]
      BY <2>2, <3>1
    <3>3. QED
      BY <3>1, <3>2 DEF Clear
  <2>5. ~IsWritten(e) /\ e < Blank => NoDigitFirst(r)
    <3> SUFFICES ASSUME ~IsWritten(e) /\ e < Blank, t # <<>> PROVE NoDigitFirst(r)
      BY FlatMapEmpty DEF NoDigitFirst, r
    <3>1. Len(t) # 0
      BY <2>1, EmptySeq
    <3>2. 1 \in 1..Len(w) - 1 /\ 1 \in 1..Len(t)
      BY <2>1, <2>2, <3>1
    <3>3. w[1 + 1] = t[1]
      BY <2>2, <3>2
    <3>4. ~Digit(t[1], 16)
      BY <2>2, <3>2, <3>3 DEF Clear
    <3>5. r[1] = Backslash \/ r[1] = t[1]
      BY <2>1, AllStart DEF StartsAs
    <3>6. ~Digit(Backslash, 16)
      BY DEF Digit, char2nyble, Backslash
    <3>7. QED
      BY <3>4, <3>5, <3>6 DEF NoDigitFirst
  <2>6. ReadAs(e, r)
    <3>1. r \in Str
      BY <2>3 DEF Begun, Str
    <3>2. QED
      BY <2>5, <3>1, CharRead
  <2> HIDE DEF x, r
  <2>7. u \in Seq(Char) /\ u # <<>> /\ FlatMap(EscF, w) = u /\ Suffix(u, 1 + Len(x)) = r
    BY <2>3 DEF Begun, w
  <2>8. FirstOf(u) = Single(e, Len(x))
    BY <2>6 DEF ReadAs, x
  <2> HIDE DEF u
  <2>9. FirstOut[u] = <<e>> /\ FirstUsed[u] = Len(x)
    BY <2>7, <2>8 DEF FirstOut, FirstUsed, Single, Str
  <2>10. Unfolds(FirstOut, FirstUsed, u)
    BY ONLY <1>0, <2>7, ChainUnfolds
  <2>11. Chain(FirstOut, FirstUsed, u) = <<e>> \o Chain(FirstOut, FirstUsed, r)
    BY <2>7, <2>9, <2>10 DEF Unfolds
  <2>12. Chain(FirstOut, FirstUsed, r) = t
    BY <2>1, <2>4 DEF ReadBack, r
  <2>13. QED
    BY <2>7, <2>11, <2>12 DEF w
<1>3. P \subseteq Seq(Char)
  OBVIOUS
<1> HIDE DEF P
<1>4. P = Seq(Char)
  BY <1>1, <1>2, <1>3, ConsInduction
<1>5. QED
  BY <1>4 DEF P

\* A digit behind it is taken as well, and all that follow.
LEMMA HexTakes ==
  ASSUME NEW c \in Char, NEW r \in Str, ~IsWritten(c), c < Blank, ~NoDigitFirst(r)
  PROVE  \E j \in 1..Len(r), v \in Int :
           FirstOf(EscF[c] \o r) = Single(v, 4 + j) /\ \A k \in 1..j : Digit(r[k], 16)
<1> DEFINE x == EscF[c]
           t == x \o r
           d == DigitsEnd(t, 3, 16)
<1>0. HexForm(x, r, c)
  BY HexText
<1> HIDE DEF x
<1>1. r \in Seq(Char) /\ Len(r) \in Nat /\ r # <<>> /\ Digit(r[1], 16) /\ Len(r) # 0
  <2>1. r \in Seq(Char) /\ Len(r) \in Nat /\ r # <<>> /\ Digit(r[1], 16)
    BY LenProperties DEF Str, NoDigitFirst
  <2>2. QED
    BY <2>1, EmptySeq
<1>2. t \in Seq(Char) /\ Len(t) = 4 + Len(r) /\ \A k \in 1..Len(r) : t[4 + k] = r[k]
  BY <1>0 DEF HexForm
<1>3. t[1] = Backslash /\ t[2] = 120 /\ t[3] = High(c) /\ t[4] = Low(c)
  BY <1>0 DEF HexForm
<1>4. Digit(t[3], 16) /\ Digit(t[4], 16)
  BY <1>3, HexPairs
<1>5. Digit(t[5], 16)
  <2>1. 1 \in 1..Len(r) /\ 4 + 1 = 5
    BY <1>1
  <2>2. QED
    BY <1>1, <1>2, <2>1
<1> HIDE DEF t
<1>6. t \in Str /\ 3 \in 1..Len(t) + 1
  BY <1>1, <1>2 DEF Str
<1>7. /\ d \in 3..Len(t) + 1 /\ \A k \in 3..(d - 1) : Digit(t[k], 16)
      /\ d <= Len(t) => ~Digit(t[d], 16)
  BY <1>6, DigitsEndThere
<1> HIDE DEF d
<1>8. d # 3 /\ d # 4 /\ d # 5
  BY <1>1, <1>2, <1>4, <1>5, <1>7
<1>9. d - 5 \in 1..Len(r) /\ 4 + (d - 5) = d - 1
  BY <1>1, <1>2, <1>7, <1>8
<1>10. \A k \in 1..(d - 5) : Digit(r[k], 16)
  <2> SUFFICES ASSUME NEW k \in 1..(d - 5) PROVE Digit(r[k], 16)
    OBVIOUS
  <2>1. k \in 1..Len(r) /\ 4 + k \in 3..(d - 1)
    BY <1>1, <1>7, <1>9
  <2>2. QED
    BY <1>2, <1>7, <2>1
<1>11. Number(SubSeq(t, 3, d - 1), 16) % 256 \in Int
  <2>1. Number(SubSeq(t, 3, d - 1), 16) \in Int
    BY <1>6, <1>7, NumberIsInt
  <2>2. QED
    BY <2>1
<1>12. FirstOf(t) = Single(Number(SubSeq(t, 3, d - 1), 16) % 256, d - 1)
  <2>1. t # <<Backslash>>
    <3>1. Len(t) # 1
      BY <1>1, <1>2
    <3>2. QED
      BY <3>1, NotAlone
  <2>2. ~HasEscape(t[2])
    BY <1>3, EscapeLetters
  <2>3. QED
    BY <1>3, <2>1, <2>2, FirstHex DEF d
<1>13. QED
  <2>1. FirstOf(t) = Single(Number(SubSeq(t, 3, d - 1), 16) % 256, 4 + (d - 5))
    BY <1>9, <1>12
  <2>2. t = EscF[c] \o r
    BY DEF t, x
  <2>3. QED
    BY <1>9, <1>10, <1>11, <2>1, <2>2

\* What is not written after a backslash is written as it is.
LEMMA ItselfOrEscape ==
  ASSUME NEW c \in Char, EscF[c][1] # Backslash
  PROVE  EscF[c] = <<c>>
<1>1. ~IsWritten(c)
  <2>1. IsWritten(c) => EscF[c] = <<Backslash, (CHOOSE e \in Written : e[2] = c)[1]>>
    BY DEF EscF, Esc
  <2>2. QED
    BY <2>1
<1>2. ~(c < Blank)
  <2> SUFFICES ASSUME c < Blank PROVE FALSE
    OBVIOUS
  <2>1. <<>> \in Str
    BY EmptySeq DEF Str
  <2>2. HexForm(EscF[c], <<>>, c)
    BY <1>1, <2>1, HexText
  <2>3. QED
    BY <2>2 DEF HexForm
<1>3. QED
  BY <1>1, <1>2 DEF EscF, Esc

\* Digits at the beginning of what is written for s are the digits of s.
Drops(s) ==
  \A j \in 0..Len(FlatMap(EscF, s)) :
    (\A k \in 1..j : Digit(FlatMap(EscF, s)[k], 16)) =>
      j <= Len(s) /\ Suffix(FlatMap(EscF, s), j + 1) = FlatMap(EscF, Suffix(s, j + 1))
\* They always are.
LEMMA AllDrop ==
  ASSUME NEW s \in Seq(Char)
  PROVE  Drops(s)
<1> DEFINE P == {t \in Seq(Char) : Drops(t)}
<1>1. <<>> \in P
  <2>1. <<>> \in Seq(Char) /\ FlatMap(EscF, <<>>) = <<>> /\ Len(<<>>) = 0
    BY EmptySeq, FlatMapEmpty
  <2>2. Suffix(<<>>, 1) = <<>>
    BY <2>1, SuffixEnds
  <2>3. Drops(<<>>)
    <3> SUFFICES ASSUME NEW j \in 0..0 PROVE j <= 0 /\ Suffix(<<>>, j + 1) = FlatMap(EscF, Suffix(<<>>, j + 1))
      BY <2>1 DEF Drops
    <3>1. j = 0 /\ j + 1 = 1
      OBVIOUS
    <3>2. QED
      BY <2>1, <2>2, <3>1
  <2>4. QED
    BY <2>1, <2>3
<1>2. ASSUME NEW t \in P, NEW e \in Char PROVE <<e>> \o t \in P
  <2> DEFINE w == <<e>> \o t
             x == EscF[e]
             r == FlatMap(EscF, t)
             u == x \o r
  <2>1. t \in Seq(Char) /\ Drops(t) /\ Len(t) \in Nat
    BY LenProperties
  <2>2. w \in Seq(Char) /\ Len(w) = Len(t) + 1
    BY <2>1, ConsElements
  <2>3. Begun(e, t, x, r)
    BY <2>1, EscapedFirst
  <2>a. <<e>> \in Seq(Char) /\ Len(<<e>>) = 1
    BY One
  <2>4. Suffix(w, 2) = t
    <3>1. Suffix(<<e>> \o t, Len(<<e>>) + 1) = t
      BY <2>1, <2>a, SuffixOfJoin
    <3>2. Len(<<e>>) + 1 = 2
      BY <2>a
    <3>3. QED
      BY <3>1, <3>2
  <2>5. FlatMap(EscF, w) = u /\ u \in Seq(Char) /\ r \in Seq(Char) /\ u[1] = x[1] /\ Suffix(u, 1 + Len(x)) = r
    BY <2>3 DEF Begun
  <2>6. x[1] # Backslash => x = <<e>>
    BY ItselfOrEscape
  <2>7. Len(u) \in Nat /\ Len(w) \in Nat /\ Len(r) \in Nat
    BY <2>2, <2>5, LenProperties
  <2>8. ~Digit(Backslash, 16)
    BY DEF Digit, char2nyble, Backslash
  <2>9. x = <<e>> => Len(u) = Len(r) + 1 /\ \A k \in 1..Len(r) : u[k + 1] = r[k]
    BY <2>5, ConsElements
  <2>r. r = FlatMap(EscF, t)
    OBVIOUS
  <2> HIDE DEF u, w, r, x
  <2>10. ASSUME NEW j \in 0..Len(u), \A k \in 1..j : Digit(u[k], 16)
         PROVE  j <= Len(w) /\ Suffix(u, j + 1) = FlatMap(EscF, Suffix(w, j + 1))
    <3>1. CASE j = 0
      <4>1. Suffix(u, 1) = u /\ Suffix(w, 1) = w
        BY <2>2, <2>5, SuffixEnds
      <4>2. j + 1 = 1 /\ j <= Len(w)
        BY <2>7, <3>1
      <4>3. QED
        BY <2>5, <4>1, <4>2
    <3>2. CASE j # 0
      <4>1. j \in Nat /\ 1 \in 1..j
        BY <3>2
      <4>2. x = <<e>>
        BY <2>5, <2>6, <2>8, <2>10, <4>1
      <4>3. Suffix(u, 2) = r
        <5>1. 1 + Len(x) = 2
          BY <2>a, <4>2
        <5>2. QED
          BY <2>5, <5>1
      <4> DEFINE i == j - 1
      <4>4. i \in 0..Len(r) /\ i + 1 = j
        BY <2>7, <2>9, <4>1, <4>2
      <4>5. \A k \in 1..i : Digit(r[k], 16)
        <5> SUFFICES ASSUME NEW k \in 1..i PROVE Digit(r[k], 16)
          OBVIOUS
        <5>1. k \in 1..Len(r) /\ k + 1 \in 1..j
          BY <2>7, <4>4
        <5>2. QED
          BY <2>9, <2>10, <4>2, <5>1
      <4> HIDE DEF i
      <4>6. i <= Len(t) /\ Suffix(r, i + 1) = FlatMap(EscF, Suffix(t, i + 1))
        BY <2>1, <2>r, <4>4, <4>5 DEF Drops
      <4>7. Suffix(u, j + 1) = Suffix(r, j)
        <5>1. 2 \in 1..Len(u) + 1 /\ j \in 1..Len(u) + 2 - 2 /\ 2 + j - 1 = j + 1
          BY <2>7, <2>9, <4>1, <4>2
        <5>2. Suffix(Suffix(u, 2), j) = Suffix(u, 2 + j - 1)
          BY <2>5, <5>1, SuffixOfSuffix
        <5>3. QED
          BY <4>3, <5>1, <5>2
      <4>8. Suffix(w, j + 1) = Suffix(t, j)
        <5>1. 2 \in 1..Len(w) + 1 /\ j \in 1..Len(w) + 2 - 2 /\ 2 + j - 1 = j + 1
          BY <2>1, <2>2, <4>1, <4>4, <4>6
        <5>2. Suffix(Suffix(w, 2), j) = Suffix(w, 2 + j - 1)
          BY <2>2, <5>1, SuffixOfSuffix
        <5>3. QED
          BY <2>4, <5>1, <5>2
      <4>9. j <= Len(w)
        BY <2>1, <2>2, <4>1, <4>4, <4>6
      <4>10. QED
        BY <4>4, <4>6, <4>7, <4>8, <4>9
    <3>3. QED
      BY <3>1, <3>2
  <2>11. Drops(w)
    BY <2>5, <2>10 DEF Drops
  <2>12. QED
    BY <2>2, <2>11 DEF w
<1>3. P \subseteq Seq(Char)
  OBVIOUS
<1> HIDE DEF P
<1>4. P = Seq(Char)
  BY <1>1, <1>2, <1>3, ConsInduction
<1>5. QED
  BY <1>4 DEF P

\* The first of a sequence.
LEMMA FirstPart ==
  ASSUME NEW s \in Seq(Char), 1 \in 1..Len(s)
  PROVE  SubSeq(s, 1, 1) = <<s[1]>>
<1> DEFINE x == SubSeq(s, 1, 1)
           c == s[1]
<1>1. Len(s) \in Nat /\ 1 \in 0..Len(s) /\ c \in Char /\ 1 \in 1..Len(s) + 1
  BY LenProperties, ElementOfSeq
<1>2. x \in Seq(Char) /\ Len(x) = 1
  BY <1>1, CutIsWhole
<1>3. x[1] = c
  BY <1>1
<1> HIDE DEF x, c
<1>4. <<c>> \in Seq(Char) /\ Len(<<c>>) = 1 /\ <<c>>[1] = c
  BY <1>1, One
<1>5. x = <<c>>
  BY <1>2, <1>3, <1>4
<1>6. QED
  BY <1>5 DEF x, c
\* A digit is written as it is.
LEMMA DigitPlain ==
  ASSUME NEW c \in Char, Digit(c, 16)
  PROVE  EscF[c][1] = c
<1>1. c \notin {10, 13, 9, 34, 92} /\ ~(c < 32)
  BY DEF Digit, char2nyble, Char
<1>2. ~IsWritten(c) /\ ~(c < Blank)
  BY <1>1, WrittenLetters DEF Blank
<1>3. EscF[c] = <<c>>
  BY <1>2 DEF EscF, Esc
<1>4. QED
  BY <1>3
\* Something is written for every character.
LEMMA EscapedNotEmpty ==
  ASSUME NEW s \in Seq(Char), s # <<>>
  PROVE  FlatMap(EscF, s) # <<>> /\ FlatMap(EscF, s)[1] = EscF[s[1]][1] /\ s[1] \in Char
<1> DEFINE e == s[1]
           t == Suffix(s, 2)
<1>1. Len(s) \in Nat /\ Len(s) # 0
  BY EmptySeq, LenProperties
<1>2. 1 \in 1..Len(s) /\ 2 \in 1..Len(s) + 1 /\ 1 \in 0..Len(s) /\ 1 + 1 = 2
  BY <1>1
<1>3. e \in Char /\ t \in Seq(Char)
  BY <1>2, ElementOfSeq, SuffixElements
<1>4. SubSeq(s, 1, 1) \o Suffix(s, 1 + 1) = s
  BY <1>2, CutIsWhole DEF Suffix
<1>5. SubSeq(s, 1, 1) = <<e>>
  BY <1>2, FirstPart
<1>6. s = <<e>> \o t
  BY <1>2, <1>4, <1>5
<1> HIDE DEF e, t
<1>7. Begun(e, t, EscF[e], FlatMap(EscF, t))
  BY <1>3, EscapedFirst
<1>8. FlatMap(EscF, s) # <<>> /\ FlatMap(EscF, s)[1] = EscF[e][1]
  BY <1>6, <1>7 DEF Begun
<1>9. QED
  BY <1>3, <1>8 DEF e

\* What is read back is never longer, and shorter where a digit was taken.
ReadLength(s) == Len(Chain(FirstOut, FirstUsed, FlatMap(EscF, s)))
Shrinks(s) == ReadLength(s) \in Nat /\ ReadLength(s) <= Len(s) /\ (~Clear(s) => ReadLength(s) < Len(s))
\* One value and what is read of a later part.
LEMMA OneAnd ==
  ASSUME NEW u \in Seq(Char), u # <<>>, NEW v \in Int, NEW n \in Nat, FirstOf(u) = Single(v, n)
  PROVE  Len(Chain(FirstOut, FirstUsed, u)) = 1 + Len(Chain(FirstOut, FirstUsed, Suffix(u, 1 + n)))
         /\ Len(Chain(FirstOut, FirstUsed, Suffix(u, 1 + n))) \in Nat
<1>1. FirstOut \in [Seq(Char) -> Seq(Int)] /\ Takes(FirstUsed, Char)
  BY FirstTakes
<1>2. FirstOut[u] = <<v>> /\ FirstUsed[u] = n
  BY DEF FirstOut, FirstUsed, Single, Str
<1>3. Unfolds(FirstOut, FirstUsed, u)
  BY ONLY <1>1, u \in Seq(Char), ChainUnfolds
<1> DEFINE rest == Chain(FirstOut, FirstUsed, Suffix(u, 1 + n))
<1>4. Chain(FirstOut, FirstUsed, u) = <<v>> \o rest
  BY <1>2, <1>3 DEF Unfolds
<1>5. 1 + n \in 1..Len(u) + 1
  <2>1. FirstUsed[u] \in 1..Len(u) /\ Len(u) \in Nat
    BY <1>1, LenProperties DEF Takes
  <2>2. QED
    BY <1>2, <2>1
<1>6. Suffix(u, 1 + n) \in Seq(Char)
  BY <1>5, SuffixElements
<1>7. rest \in Seq(Int)
  BY ONLY <1>1, <1>6, ChainType
<1> HIDE DEF rest
<1>8. Len(<<v>> \o rest) = Len(rest) + 1 /\ Len(rest) \in Nat
  BY <1>7, ConsElements, LenProperties
<1>9. Len(<<v>> \o rest) = 1 + Len(rest)
  BY <1>8
<1>10. QED
  BY <1>4, <1>8, <1>9 DEF rest
\* By induction over the length.
LEMMA AllShrink ==
  ASSUME NEW s \in Seq(Char)
  PROVE  Shrinks(s)
<1> DEFINE P == {n \in Nat : \A t \in Seq(Char) : Len(t) <= n => Shrinks(t)}
<1>1. ASSUME NEW t \in Seq(Char), Len(t) = 0 PROVE Shrinks(t)
  <2>1. t = <<>>
    BY <1>1, EmptySeq
  <2>2. FlatMap(EscF, <<>>) = <<>> /\ Len(<<>>) = 0
    BY EmptySeq, FlatMapEmpty
  <2>3. Chain(FirstOut, FirstUsed, <<>>) = <<>>
    <3>1. FirstOut \in [Seq(Char) -> Seq(Int)] /\ Takes(FirstUsed, Char)
      BY FirstTakes
    <3>2. QED
      BY ONLY <3>1, ChainEmpty
  <2>4. ReadLength(t) = 0
    BY <2>1, <2>2, <2>3 DEF ReadLength
  <2>5. Clear(t)
    BY <1>1 DEF Clear
  <2>6. QED
    BY <1>1, <2>4, <2>5 DEF Shrinks
<1>2. 0 \in P
  <2>1. ASSUME NEW t \in Seq(Char), Len(t) <= 0 PROVE Shrinks(t)
    <3>1. Len(t) = 0
      BY <2>1, LenProperties
    <3>2. QED
      BY <1>1, <3>1
  <2>2. QED
    BY <2>1
<1>3. ASSUME NEW n \in P, NEW w \in Seq(Char), Len(w) = n + 1 PROVE Shrinks(w)
  <2> DEFINE e == w[1]
             t == Suffix(w, 2)
             x == EscF[e]
             r == FlatMap(EscF, t)
             u == x \o r
  <2>0. n \in Nat /\ \A v \in Seq(Char) : Len(v) <= n => Shrinks(v)
    OBVIOUS
  <2>1. e \in Char /\ t \in Seq(Char) /\ Len(t) = n /\ w = <<e>> \o t
    <3>1. 1 \in 1..Len(w) /\ 2 \in 1..Len(w) + 1 /\ Len(w) + 1 - 2 = n
      BY <1>3, <2>0
    <3>2. e \in Char
      BY <3>1, ElementOfSeq
    <3>3. t \in Seq(Char) /\ Len(t) = n
      BY <3>1, SuffixElements
    <3>4. w = <<e>> \o t
      <4>1. 1 \in 0..Len(w) /\ 1 + 1 = 2
        BY <3>1
      <4>2. SubSeq(w, 1, 1) \o Suffix(w, 1 + 1) = w
        BY <4>1, CutIsWhole DEF Suffix
      <4>3. SubSeq(w, 1, 1) = <<e>>
        BY <3>1, FirstPart
      <4>4. QED
        BY <4>1, <4>2, <4>3
    <3>5. QED
      BY <3>2, <3>3, <3>4
  <2> HIDE DEF e, t
  <2>2. \A i \in 1..Len(t) : w[i + 1] = t[i]
    BY <2>1, ConsElements
  <2>3. w[1] = e
    BY DEF e
  <2>4. Begun(e, t, x, r)
    BY <2>1, EscapedFirst
  <2>5. FlatMap(EscF, w) = u /\ u \in Seq(Char) /\ r \in Seq(Char) /\ u # <<>> /\ Suffix(u, 1 + Len(x)) = r
    BY <2>1, <2>4 DEF Begun
  <2>6. x \in Seq(Char) /\ Len(x) \in Nat /\ r \in Str /\ Len(r) \in Nat
    BY <2>4, LenProperties DEF Begun, Str
  <2>7. Shrinks(t)
    BY <2>0, <2>1
  <2>8. CASE ~IsWritten(e) /\ e < Blank => NoDigitFirst(r)
    <3>1. FirstOf(u) = Single(e, Len(x))
      BY <2>1, <2>6, <2>8, CharRead DEF ReadAs
    <3>2. e \in Int
      BY <2>1 DEF Char
    <3> HIDE DEF u, x
    <3>3. Len(Chain(FirstOut, FirstUsed, u)) = 1 + Len(Chain(FirstOut, FirstUsed, r))
      BY <2>5, <2>6, <3>1, <3>2, OneAnd
    <3>4. ReadLength(w) = 1 + ReadLength(t)
      BY <2>5, <3>3 DEF ReadLength, r
    <3>5. ~Clear(w) => ~Clear(t)
      <4> SUFFICES ASSUME Clear(t), NEW k \in 1..Len(w) - 1, w[k] < Blank /\ ~IsWritten(w[k])
                   PROVE ~Digit(w[k + 1], 16)
        BY DEF Clear
      <4>0. k \in Nat /\ 1 <= k /\ k <= Len(t) /\ Len(t) \in Nat
        BY <1>3, <2>0, <2>1
      <4>1. CASE k = 1
        <5>1. NoDigitFirst(r)
          BY <2>3, <2>8, <4>1
        <5>2. t # <<>> /\ 1 \in 1..Len(t)
          <6>1. Len(t) # 0
            BY <4>0
          <6>2. QED
            BY <4>0, <6>1, EmptySeq
        <5>4. r # <<>> /\ r[1] = EscF[t[1]][1] /\ t[1] \in Char
          BY <2>1, <5>2, EscapedNotEmpty DEF r
        <5>5. ~Digit(r[1], 16)
          BY <5>1, <5>4 DEF NoDigitFirst
        <5>6. w[k + 1] = t[1]
          BY <2>2, <4>1, <5>2
        <5>7. QED
          BY <5>4, <5>5, <5>6, DigitPlain
      <4>2. CASE k # 1
        <5> DEFINE m == k - 1
        <5>1. m \in 1..Len(t) - 1 /\ m \in 1..Len(t) /\ m + 1 \in 1..Len(t) /\ m + 1 = k /\ m + 1 + 1 = k + 1
          BY <4>0, <4>2, <1>3, <2>1, <2>0
        <5> HIDE DEF m
        <5>2. w[k] = t[m] /\ w[k + 1] = t[m + 1]
          BY <2>2, <5>1
        <5>3. QED
          BY <5>1, <5>2 DEF Clear
      <4>3. QED
        BY <4>1, <4>2
    <3>6. QED
      BY <1>3, <2>0, <2>1, <2>7, <3>4, <3>5 DEF Shrinks
  <2>9. CASE ~IsWritten(e) /\ e < Blank /\ ~NoDigitFirst(r)
    <3>1. PICK j \in 1..Len(r), v \in Int :
            FirstOf(u) = Single(v, 4 + j) /\ \A k \in 1..j : Digit(r[k], 16)
      BY <2>1, <2>6, <2>9, HexTakes
    <3>2. Len(x) = 4
      BY <2>1, <2>6, <2>9, HexText DEF HexForm
    <3>3. j \in 0..Len(r) /\ j \in Nat /\ 1 <= j /\ 4 + j \in Nat
      BY <2>6
    <3>4. j <= Len(t) /\ Suffix(r, j + 1) = FlatMap(EscF, Suffix(t, j + 1))
      BY <2>1, <3>1, <3>3, AllDrop DEF Drops, r
    <3>u. Len(u) = Len(x) + Len(r)
      BY <2>6, ConcatProperties DEF Str
    <3> HIDE DEF u, x, r
    <3>5. Suffix(u, 1 + (4 + j)) = Suffix(r, j + 1)
      <4>1. 5 \in 1..Len(u) + 1 /\ j + 1 \in 1..Len(u) + 2 - 5 /\ 5 + (j + 1) - 1 = 1 + (4 + j) /\ 1 + Len(x) = 5
        BY <2>6, <3>2, <3>3, <3>u
      <4>2. Suffix(Suffix(u, 5), j + 1) = Suffix(u, 5 + (j + 1) - 1)
        BY <2>5, <4>1, SuffixOfSuffix
      <4>3. QED
        BY <2>5, <4>1, <4>2
    <3> DEFINE y == Suffix(t, j + 1)
    <3>6. y \in Seq(Char) /\ Len(y) = n - j
      <4>1. j + 1 \in 1..Len(t) + 1 /\ Len(t) + 1 - (j + 1) = n - j
        BY <2>0, <2>1, <3>3, <3>4
      <4>2. QED
        BY <2>1, <4>1, SuffixElements
    <3> HIDE DEF y
    <3>7. Shrinks(y)
      <4>1. Len(y) <= n
        BY <2>0, <3>3, <3>6
      <4>2. QED
        BY <2>0, <3>6, <4>1
    <3>8. /\ Len(Chain(FirstOut, FirstUsed, u)) = 1 + Len(Chain(FirstOut, FirstUsed, Suffix(u, 1 + (4 + j))))
      BY <2>5, <3>1, <3>3, OneAnd
    <3>9. ReadLength(w) = 1 + ReadLength(y)
      BY <2>5, <3>4, <3>5, <3>8 DEF ReadLength, y
    <3>10. ReadLength(w) \in Nat /\ ReadLength(w) < Len(w)
      BY <1>3, <2>0, <3>3, <3>6, <3>7, <3>9 DEF Shrinks
    <3>11. ReadLength(w) <= Len(w)
      BY <1>3, <2>0, <3>10
    <3>12. QED
      BY <3>10, <3>11 DEF Shrinks
  <2>10. QED
    BY <2>8, <2>9
<1>4. ASSUME NEW n \in P PROVE n + 1 \in P
  <2>1. n \in Nat /\ \A v \in Seq(Char) : Len(v) <= n => Shrinks(v)
    OBVIOUS
  <2>2. ASSUME NEW t \in Seq(Char), Len(t) <= n + 1 PROVE Shrinks(t)
    <3>1. Len(t) <= n \/ Len(t) = n + 1
      BY <2>1, <2>2, LenProperties
    <3>2. QED
      BY <1>3, <2>1, <3>1
  <2>3. n + 1 \in Nat
    BY <2>1
  <2>4. QED
    BY <2>2, <2>3
<1>5. P \subseteq Nat
  OBVIOUS
<1> HIDE DEF P
<1>6. P = Nat
  BY <1>2, <1>4, <1>5, NatSetInduction
<1>7. Len(s) \in Nat /\ Len(s) <= Len(s)
  BY LenProperties
<1>8. QED
  BY <1>6, <1>7 DEF P

\* cstrescape and cstrunescape.
LEMMA UnescapeInverts ==
  ASSUME str \in Str
  PROVE  Unescape
<1>1. str \in Seq(Char) /\ cstrescape(str) = FlatMap(EscF, str)
  BY EscapeIsMap DEF Str
<1>2. FlatMap(EscF, str) \in Seq(Char)
  BY <1>1, EscType, FlatMapType
<1>3. cstrunescape(FlatMap(EscF, str)) = Chain(FirstOut, FirstUsed, FlatMap(EscF, str))
  BY <1>2, UnescapeIsChain DEF Str
<1>4. ReadBack(str)
  BY <1>1, AllReadBack
<1>5. Clear(str) => cstrunescape(cstrescape(str)) = str
  BY <1>1, <1>3, <1>4 DEF ReadBack
<1>6. ASSUME ~Clear(str) PROVE cstrunescape(cstrescape(str)) # str
  <2>1. ReadLength(str) \in Nat /\ ReadLength(str) < Len(str)
    BY <1>1, <1>6, AllShrink DEF Shrinks
  <2>2. Len(cstrunescape(cstrescape(str))) = ReadLength(str)
    BY <1>1, <1>3 DEF ReadLength
  <2>3. Len(str) \in Nat
    BY <1>1, LenProperties
  <2>4. QED
    BY <2>1, <2>2, <2>3
<1>7. Unescape <=> (cstrunescape(cstrescape(str)) = str <=> Clear(str))
  BY Zenon DEF Unescape, Clear, IsWritten
<1>8. QED
  BY <1>5, <1>6, <1>7

-----------------------------------------------------------------------------
(* Numbers that are read. *)

Bases == {2, 8, 10, 16}

\* The digit of a value.
LEMMA DigitOf ==
  ASSUME NEW base \in Bases, NEW v \in 0..base - 1
  PROVE  /\ nyble2hexchar(v) \in Char /\ Digit(nyble2hexchar(v), base) /\ char2nyble(nyble2hexchar(v)) = v
         /\ (v # 0 => nyble2hexchar(v) # 48)
<1>1. base \in Int /\ v \in Int /\ v >= 0 /\ v < 16 /\ v < base
  BY DEF Bases
<1>2. CASE v < 10
  <2>1. nyble2hexchar(v) = 48 + v
    BY <1>2 DEF nyble2hexchar
  <2>2. 48 + v \in 48..57
    BY <1>1, <1>2
  <2>3. char2nyble(48 + v) = v
    BY <1>1, <2>2 DEF char2nyble
  <2>4. QED
    BY <1>1, <1>2, <2>1, <2>3 DEF Digit, Char
<1>3. CASE ~(v < 10)
  <2>1. nyble2hexchar(v) = 87 + v
    BY <1>3 DEF nyble2hexchar
  <2>2. 87 + v \in 97..122 /\ 87 + v \notin 48..57 /\ 87 + v \notin 65..90
    BY <1>1, <1>3
  <2>3. char2nyble(87 + v) = v
    BY <1>1, <2>2 DEF char2nyble
  <2>4. QED
    BY <1>1, <1>3, <2>1, <2>3 DEF Digit, Char
<1>4. QED
  BY <1>2, <1>3

\* A value without its last digit is smaller.
LEMMA LessDigits ==
  ASSUME NEW base \in Bases, NEW v \in Nat, ~(v < base)
  PROVE  /\ v \div base \in Nat /\ v \div base < v /\ v \div base # 0 /\ v % base \in 0..base - 1
         /\ v = (v \div base) * base + (v % base)
<1>1. CASE base = 2
  BY <1>1
<1>2. CASE base = 8
  BY <1>2
<1>3. CASE base = 10
  BY <1>3
<1>4. CASE base = 16
  BY <1>4
<1>5. QED
  BY <1>1, <1>2, <1>3, <1>4 DEF Bases

\* The digits of v.
Writes(d, v, base) ==
  /\ d \in Seq(Char) /\ d # <<>> /\ \A k \in 1..Len(d) : Digit(d[k], base)
  /\ Number(d, base) = v /\ (v # 0 => d[1] # 48)

\* One digit.
LEMMA WritesOne ==
  ASSUME NEW base \in Bases, NEW v \in 0..base - 1
  PROVE  Writes(<<nyble2hexchar(v)>>, v, base)
<1> DEFINE c == nyble2hexchar(v)
           z == <<>>
<1>1. c \in Char /\ Digit(c, base) /\ char2nyble(c) = v /\ (v # 0 => c # 48)
  BY DigitOf
<1>2. base \in Int /\ v \in Int /\ c \in Int
  BY <1>1 DEF Bases, Char
<1> HIDE DEF c
<1>3. <<c>> \in Seq(Char) /\ Len(<<c>>) = 1 /\ <<c>>[1] = c /\ <<c>> # <<>> /\ <<c>> = Append(z, c) /\ z \in Seq(Int)
  BY <1>1
<1> HIDE DEF z
<1>4. Number(Append(z, c), base) = Number(z, base) * base + char2nyble(c)
  BY <1>2, <1>3, NumberAppend
<1>5. Number(z, base) = 0
  BY <1>2, <1>3, NumberAppend DEF z
<1>6. Number(<<c>>, base) = v
  <2> DEFINE o == <<c>>
  <2>1. o = Append(z, c)
    BY <1>3
  <2> HIDE DEF o
  <2>2. Number(o, base) = 0 * base + v
    BY ONLY <1>1, <1>4, <1>5, <2>1
  <2>3. 0 * base + v = v
    BY <1>2
  <2>4. QED
    BY <2>2, <2>3 DEF o
<1>7. QED
  BY <1>1, <1>3, <1>6 DEF Writes, c

\* One digit more.
LEMMA WritesMore ==
  ASSUME NEW base \in Bases, NEW v \in Nat, ~(v < base), NEW d, Writes(d, v \div base, base)
  PROVE  Writes(Append(d, nyble2hexchar(v % base)), v, base)
<1> DEFINE c == nyble2hexchar(v % base)
           e == Append(d, c)
           q == v \div base
           m == v % base
<1>1. q \in Nat /\ q # 0 /\ m \in 0..base - 1 /\ v = q * base + m
  BY LessDigits
<1>2. c \in Char /\ Digit(c, base) /\ char2nyble(c) = m
  BY <1>1, DigitOf
<1>3. d \in Seq(Char) /\ d # <<>> /\ (\A k \in 1..Len(d) : Digit(d[k], base)) /\ Number(d, base) = q /\ d[1] # 48
  BY <1>1 DEF Writes
<1> HIDE DEF c, q, m
<1>4. base \in Int /\ c \in Int
  BY <1>2 DEF Bases, Char
<1>5. d \in Seq(Int)
  BY <1>3, CharsAreInts
<1>6. Number(e, base) = Number(d, base) * base + char2nyble(c)
  BY <1>4, <1>5, NumberAppend
<1>7. /\ e \in Seq(Char) /\ Len(e) = Len(d) + 1 /\ Len(d) \in Nat /\ Len(d) # 0
      /\ (\A i \in 1..Len(d) : e[i] = d[i]) /\ e[Len(d) + 1] = c
  BY <1>2, <1>3, AppendProperties, LenProperties, EmptySeq
<1> HIDE DEF e
<1>8. e # <<>>
  <2>1. Len(e) # 0
    BY <1>7
  <2>2. QED
    BY <2>1
<1>9. \A k \in 1..Len(e) : Digit(e[k], base)
  <2> SUFFICES ASSUME NEW k \in 1..Len(e) PROVE Digit(e[k], base)
    OBVIOUS
  <2>1. k \in 1..Len(d) \/ k = Len(d) + 1
    BY <1>7
  <2>2. QED
    BY <1>2, <1>3, <1>7, <2>1
<1>10. e[1] # 48
  <2>1. 1 \in 1..Len(d)
    BY <1>7
  <2>2. QED
    BY <1>3, <1>7, <2>1
<1>11. Number(e, base) = v
  BY <1>1, <1>2, <1>3, <1>6
<1>12. QED
  BY <1>7, <1>8, <1>9, <1>10, <1>11 DEF Writes, e, c, m

\* The function that Digits is defined with, up to a value.
DigitsFor(f, m, base) ==
  \A v \in 0..m : f[v] = IF v < base THEN <<nyble2hexchar(v)>> ELSE Append(f[v \div base], nyble2hexchar(v % base))

\* There is one.
LEMMA DigitsExist ==
  ASSUME NEW base \in Bases, NEW n \in Nat
  PROVE  \E f : f = [v \in 0..n |-> IF v < base THEN <<nyble2hexchar(v)>>
                                     ELSE Append(f[v \div base], nyble2hexchar(v % base))]
<1> DEFINE Some(m) == \E f : DigitsFor(f, m, base)
           P == {m \in Nat : Some(m)}
           y(f, v) == IF v < base THEN <<nyble2hexchar(v)>> ELSE Append(f[v \div base], nyble2hexchar(v % base))
<1>1. base \in Nat /\ base > 0 /\ 0 \in Nat
  BY DEF Bases
<1>2. 0 \in P
  <2> DEFINE f == [v \in 0..0 |-> <<nyble2hexchar(v)>>]
  <2>1. \A v \in 0..0 : v < base /\ f[v] = <<nyble2hexchar(v)>>
    BY <1>1
  <2> HIDE DEF f
  <2>2. DigitsFor(f, 0, base)
    BY <2>1 DEF DigitsFor
  <2>3. QED
    BY <2>2
<1>3. ASSUME NEW m \in P PROVE m + 1 \in P
  <2>1. m \in Nat
    OBVIOUS
  <2>2. PICK f : DigitsFor(f, m, base)
    OBVIOUS
  <2> DEFINE k == m + 1
             g == [v \in 0..k |-> IF v = k THEN y(f, k) ELSE f[v]]
  <2>3. ASSUME NEW v \in 0..k PROVE v \in Nat /\ g[v] = y(f, v) /\ y(g, v) = y(f, v)
    <3>1. v \in Nat /\ (v = k \/ v \in 0..m)
      BY <2>1
    <3>2. g[v] = y(f, v)
      <4>1. v # k => f[v] = y(f, v)
        BY <2>2, <3>1 DEF DigitsFor
      <4>2. QED
        BY <4>1
    <3>3. CASE v < base
      BY <3>1, <3>2, <3>3
    <3>4. CASE ~(v < base)
      <4>1. v \div base \in Nat /\ v \div base < v
        BY <3>1, <3>4, LessDigits
      <4>2. v \div base \in 0..k /\ v \div base # k
        BY <2>1, <3>1, <4>1
      <4>3. g[v \div base] = f[v \div base]
        BY <4>2
      <4> HIDE DEF g
      <4>4. QED
        BY <3>1, <3>2, <4>3
    <3>5. QED
      BY <3>3, <3>4
  <2> HIDE DEF g, y
  <2>4. \A v \in 0..k : g[v] = y(g, v)
    BY <2>3
  <2>5. DigitsFor(g, k, base)
    BY <2>4 DEF DigitsFor, y
  <2>6. QED
    BY <2>1, <2>5
<1>4. P \subseteq Nat
  OBVIOUS
<1> HIDE DEF P
<1>5. P = Nat
  BY <1>2, <1>3, <1>4, NatSetInduction
<1>6. PICK f : DigitsFor(f, n, base)
  BY <1>5 DEF P
<1> DEFINE g == [v \in 0..n |-> f[v]]
<1>7. ASSUME NEW v \in 0..n PROVE g[v] = y(g, v)
  <2>1. f[v] = y(f, v) /\ v \in Nat /\ g[v] = f[v]
    BY <1>6 DEF DigitsFor
  <2>2. CASE v < base
    BY <2>1, <2>2
  <2>3. CASE ~(v < base)
    <3>1. v \div base \in Nat /\ v \div base < v
      BY <2>1, <2>3, LessDigits
    <3>2. v \div base \in 0..n
      BY <2>1, <3>1
    <3>3. g[v \div base] = f[v \div base]
      BY <3>2
    <3> HIDE DEF g
    <3>4. QED
      BY <2>1, <2>3, <3>3
  <2>4. QED
    BY <2>2, <2>3
<1>8. g = [v \in 0..n |-> g[v]]
  OBVIOUS
<1> HIDE DEF g
<1>9. g = [v \in 0..n |-> y(g, v)]
  <2> HIDE DEF y
  <2>1. QED
    BY <1>7, <1>8
<1>10. QED
  BY <1>9

\* Digits are the digits.
LEMMA DigitsWrite ==
  ASSUME NEW base \in Bases, NEW n \in Nat
  PROVE  Writes(Digits(n, base), n, base)
<1> DEFINE y(f, v) == IF v < base THEN <<nyble2hexchar(v)>> ELSE Append(f[v \div base], nyble2hexchar(v % base))
           Is(f) == f = [v \in 0..n |-> y(f, v)]
           g == CHOOSE f : Is(f)
<1>1. Is(g)
  <2>1. \E f : Is(f)
    BY DigitsExist
  <2> HIDE DEF Is
  <2>2. QED
    BY <2>1
<1>2. Digits(n, base) = g[n]
  BY Zenon DEF Digits
<1> HIDE DEF g
<1> DEFINE P == {m \in Nat : \A v \in 0..m : v <= n => Writes(g[v], v, base)}
<1>3. ASSUME NEW v \in 0..n, \A u \in 0..n : u < v => Writes(g[u], u, base)
      PROVE  Writes(g[v], v, base)
  <2>1. v \in Nat /\ g[v] = y(g, v)
    <3> HIDE DEF y
    <3>1. QED
      BY <1>1
  <2>2. CASE v < base
    <3>1. v \in 0..base - 1
      BY <2>1, <2>2 DEF Bases
    <3>2. QED
      BY <2>1, <2>2, <3>1, WritesOne
  <2>3. CASE ~(v < base)
    <3>1. v \div base \in Nat /\ v \div base < v
      BY <2>1, <2>3, LessDigits
    <3>2. v \div base \in 0..n
      BY <2>1, <3>1
    <3>3. Writes(g[v \div base], v \div base, base)
      BY <1>3, <3>1, <3>2
    <3>4. QED
      BY <2>1, <2>3, <3>3, WritesMore
  <2>4. QED
    BY <2>2, <2>3
<1>4. 0 \in P
  <2>1. ASSUME NEW v \in 0..0 PROVE Writes(g[v], v, base)
    <3>1. v \in 0..n /\ \A u \in 0..n : ~(u < v)
      OBVIOUS
    <3>2. QED
      BY <1>3, <3>1
  <2>2. QED
    BY <2>1
<1>5. ASSUME NEW m \in P PROVE m + 1 \in P
  <2>1. m \in Nat /\ \A v \in 0..m : v <= n => Writes(g[v], v, base)
    OBVIOUS
  <2>2. ASSUME NEW v \in 0..m + 1, v <= n PROVE Writes(g[v], v, base)
    <3>1. v \in 0..n /\ \A u \in 0..n : u < v => u \in 0..m /\ u <= n
      BY <2>1, <2>2
    <3>2. \A u \in 0..n : u < v => Writes(g[u], u, base)
      BY <2>1, <3>1
    <3>3. QED
      BY <1>3, <3>1, <3>2
  <2>3. m + 1 \in Nat
    BY <2>1
  <2>4. QED
    BY <2>2, <2>3
<1>6. P \subseteq Nat
  OBVIOUS
<1> HIDE DEF P
<1>7. n \in P
  BY <1>4, <1>5, <1>6, NatSetInduction
<1>8. n \in 0..n /\ n <= n
  OBVIOUS
<1>9. QED
  BY <1>2, <1>7, <1>8 DEF P

\* What comes after a number, and a number among other characters.
Rest == <<Blank, 49>>
\* A number d from i on in t.
StandsAt(t, i, d, base) ==
  /\ t \in Str /\ i \in 1..Len(t) /\ Len(d) \in Nat /\ i + Len(d) <= Len(t)
  /\ DigitsEnd(t, i, base) = i + Len(d) /\ SubSeq(t, i, i + Len(d) - 1) = d /\ t[i] = d[1]
\* After p.
Placed(t, p, d) == t = p \o (d \o Rest)
StartsWith(t, p) == \A k \in 1..Len(p) : t[k] = p[k]
\* It is where the characters before it end.
LEMMA NumberStands ==
  ASSUME NEW base \in Bases, NEW v, NEW d, Writes(d, v, base), NEW p \in Str, NEW t, Placed(t, p, d)
  PROVE  StandsAt(t, Len(p) + 1, d, base) /\ StartsWith(t, p)
<1> DEFINE r == Rest
           u == d \o r
           i == Len(p) + 1
<1>0. t = p \o u
  BY DEF Placed
<1>1. r \in Seq(Char) /\ Len(r) = 2 /\ r[1] = 32
  BY DEF Rest, Blank, Char
<1> HIDE DEF r
<1>2. d \in Seq(Char) /\ Len(d) \in Nat /\ Len(d) # 0 /\ \A k \in 1..Len(d) : Digit(d[k], base)
  BY LenProperties, EmptySeq DEF Writes
<1>3. p \in Seq(Char) /\ Len(p) \in Nat
  BY LenProperties DEF Str
<1>4. /\ u \in Seq(Char) /\ Len(u) = Len(d) + 2
      /\ \A k \in 1..Len(d) + 2 : u[k] = IF k <= Len(d) THEN d[k] ELSE r[k - Len(d)]
  <2>1. d \in Seq(Char) /\ r \in Seq(Char) /\ u = d \o r
    BY <1>1, <1>2
  <2> HIDE DEF u
  <2>2. /\ u \in Seq(Char) /\ Len(u) = Len(d) + Len(r)
        /\ \A k \in 1..Len(d) + Len(r) : u[k] = IF k <= Len(d) THEN d[k] ELSE r[k - Len(d)]
    BY ONLY <2>1, ConcatProperties
  <2>3. QED
    BY <1>1, <2>2
<1>5. SubSeq(u, 1, Len(d)) = d
  BY <1>1, <1>2, PrefixOfJoin
<1>6. u[Len(d) + 1] = 32 /\ \A k \in 1..Len(d) : u[k] = d[k]
  <2>1. Len(d) + 1 \in 1..Len(d) + 2 /\ ~(Len(d) + 1 <= Len(d)) /\ (Len(d) + 1) - Len(d) = 1
    BY <1>2
  <2>2. u[Len(d) + 1] = r[1]
    BY <1>4, <2>1
  <2>3. \A k \in 1..Len(d) : k \in 1..Len(d) + 2 /\ k <= Len(d)
    BY <1>2
  <2>4. QED
    BY <1>1, <1>4, <2>2, <2>3
<1> HIDE DEF u
<1>7. /\ t \in Seq(Char) /\ Len(t) = Len(p) + Len(u)
      /\ \A k \in 1..Len(p) + Len(u) : t[k] = IF k <= Len(p) THEN p[k] ELSE u[k - Len(p)]
  <2>1. p \in Seq(Char) /\ u \in Seq(Char) /\ t = p \o u
    BY <1>0, <1>3, <1>4
  <2>2. QED
    BY ONLY <2>1, ConcatProperties
<1>8. SubSeq(t, i, i + Len(d) - 1) = d
  <2>1. 1 \in 1..Len(u) + 1 /\ Len(d) \in (1 - 1)..Len(u) /\ i = Len(p) + 1 /\ i + Len(d) - 1 = Len(p) + Len(d)
    BY <1>2, <1>3, <1>4
  <2> HIDE DEF i
  <2>2. SamePart(p, u, i, i + Len(d) - 1, 1, Len(d))
    BY <1>3, <1>4, <2>1, PartOfJoin
  <2>3. QED
    BY <1>0, <1>5, <2>2 DEF SamePart
<1>9. \A m \in 1..Len(u) : t[Len(p) + m] = u[m]
  <2> SUFFICES ASSUME NEW m \in 1..Len(u) PROVE t[Len(p) + m] = u[m]
    OBVIOUS
  <2>1. Len(p) + m \in 1..Len(p) + Len(u) /\ ~(Len(p) + m <= Len(p)) /\ (Len(p) + m) - Len(p) = m
    BY <1>0, <1>3, <1>4
  <2>2. QED
    BY <1>7, <2>1
<1>10. \A k \in 1..Len(p) : t[k] = p[k]
  <2>1. \A k \in 1..Len(p) : k \in 1..Len(p) + Len(u) /\ k <= Len(p)
    BY <1>2, <1>3, <1>4
  <2>2. QED
    BY <1>7, <2>1
<1>11. ~Digit(t[i + Len(d)], base)
  <2>1. Len(d) + 1 \in 1..Len(u) /\ Len(p) + (Len(d) + 1) = i + Len(d)
    BY <1>2, <1>3, <1>4
  <2>2. t[i + Len(d)] = 32
    BY <1>6, <1>9, <2>1
  <2>3. ~Digit(32, base)
    BY DEF Digit, char2nyble, Bases
  <2>4. QED
    BY <2>2, <2>3
<1>12. \A k \in i..(i + Len(d) - 1) : Digit(t[k], base)
  <2> SUFFICES ASSUME NEW k \in i..(i + Len(d) - 1) PROVE Digit(t[k], base)
    OBVIOUS
  <2> DEFINE m == k - Len(p)
  <2>1. m \in 1..Len(d) /\ m \in 1..Len(u) /\ k = Len(p) + m
    BY <1>2, <1>3, <1>4
  <2> HIDE DEF m
  <2>2. t[k] = d[m]
    BY <1>6, <1>9, <2>1
  <2>3. QED
    BY <1>2, <2>1, <2>2
<1>13. i \in 1..Len(t) /\ i + Len(d) <= Len(t) /\ i \in 1..Len(t) + 1 /\ i + Len(d) \in i..Len(t) + 1
  BY <1>2, <1>3, <1>4, <1>7
<1>14. t[i] = d[1]
  <2>1. 1 \in 1..Len(u) /\ 1 \in 1..Len(d) /\ i = Len(p) + 1
    BY <1>2, <1>4
  <2> HIDE DEF i
  <2>2. QED
    BY <1>6, <1>9, <2>1
<1>15. t \in Str
  BY <1>7 DEF Str
<1> HIDE DEF i
<1>16. DigitsEnd(t, i, base) = i + Len(d)
  BY <1>11, <1>12, <1>13, <1>15, DigitsEndIs
<1>17. StandsAt(t, i, d, base)
  BY <1>2, <1>8, <1>13, <1>14, <1>15, <1>16 DEF StandsAt
<1>18. QED
  BY <1>10, <1>17 DEF i, StartsWith

\* And is read there.
LEMMA NumberRead ==
  ASSUME NEW base \in Bases, NEW v, NEW d, Writes(d, v, base), NEW t, NEW i, StandsAt(t, i, d, base)
  PROVE  /\ NumberAt(t, i, base) = [val |-> v, end |-> i + Len(d)]
         /\ Number(SubSeq(t, i, DigitsEnd(t, i, base) - 1), base) = v /\ DigitsEnd(t, i, base) = i + Len(d)
<1> DEFINE e == DigitsEnd(t, i, base)
<1>1. /\ e = i + Len(d) /\ SubSeq(t, i, i + Len(d) - 1) = d /\ Number(d, base) = v
      /\ i \in 1..Len(t) /\ Len(d) \in Nat
  BY DEF StandsAt, Writes
<1>2. NumberAt(t, i, base) = [val |-> Number(SubSeq(t, i, e - 1), base), end |-> e]
  BY Zenon DEF NumberAt
<1> HIDE DEF e
<1>3. SubSeq(t, i, e - 1) = d
  <2>1. e - 1 = i + Len(d) - 1
    BY ONLY <1>1
  <2>2. QED
    BY ONLY <1>1, <2>1
<1>4. NumberAt(t, i, base) = [val |-> v, end |-> i + Len(d)]
  BY ONLY <1>1, <1>2, <1>3
<1>5. QED
  BY <1>1, <1>3, <1>4 DEF e

\* Where the spaces end.
LEMMA SkipSpaceIs ==
  ASSUME NEW s \in Str, NEW j \in 1..Len(s), ~isspace(s[j]), \A k \in 1..(j - 1) : isspace(s[k])
  PROVE  SkipSpace(s) = j
<1> DEFINE Ends(m) == (m <= Len(s) => ~isspace(s[m])) /\ \A k \in 1..(m - 1) : isspace(s[k])
           e == CHOOSE m \in 1..Len(s) + 1 : Ends(m)
<1>1. Len(s) \in Nat /\ j \in 1..Len(s) + 1
  BY LenProperties DEF Str
<1>2. e \in 1..Len(s) + 1 /\ Ends(e)
  BY <1>1
<1>3. SkipSpace(s) = e
  BY Zenon DEF SkipSpace
<1> HIDE DEF e
<1>4. ~(e < j)
  BY <1>1, <1>2
<1>5. ~(j < e)
  BY <1>1, <1>2
<1>6. QED
  BY <1>1, <1>2, <1>3, <1>4, <1>5

\* A digit is no space, no minus, no backslash.
LEMMA DigitsAreNone ==
  ASSUME NEW base \in Bases, NEW c \in Char, Digit(c, base)
  PROVE  ~isspace(c) /\ c # Minus
<1>1. c \in 48..57 \/ c \in 65..90 \/ c \in 97..122
  <2>1. char2nyble(c) # -1
    BY DEF Digit, Bases
  <2>2. QED
    BY <2>1 DEF char2nyble
<1>2. QED
  BY <1>1 DEF isspace, Minus, Blank

\* Unsigned, after spaces.
LEMMA UintRead ==
  ASSUME NEW base \in Bases, NEW v, NEW d, Writes(d, v, base)
  PROVE  parseuint(<<Blank, 9>> \o (d \o Rest), base) = v
<1> DEFINE p == <<Blank, 9>>
           t == p \o (d \o Rest)
<1>1. p \in Str /\ Len(p) = 2 /\ p[1] = 32 /\ p[2] = 9
  BY DEF Str, Char, Blank
<1> HIDE DEF t
<1>0. Placed(t, p, d)
  BY Zenon DEF Placed, t
<1> HIDE DEF p
<1>2. StandsAt(t, 3, d, base) /\ t[1] = 32 /\ t[2] = 9
  <2>1. StandsAt(t, Len(p) + 1, d, base) /\ StartsWith(t, p)
    BY <1>0, <1>1, NumberStands
  <2>2. Len(p) + 1 = 3 /\ 1 \in 1..Len(p) /\ 2 \in 1..Len(p)
    BY <1>1
  <2>3. QED
    BY <1>1, <2>1, <2>2 DEF StartsWith
<1>3. SkipSpace(t) = 3
  <2>1. t \in Str /\ 3 \in 1..Len(t) /\ t[3] = d[1]
    BY <1>2 DEF StandsAt
  <2>2. ~isspace(t[3])
    <3>1. d \in Seq(Char) /\ Len(d) # 0 /\ Len(d) \in Nat
      BY EmptySeq, LenProperties DEF Writes
    <3>2. 1 \in 1..Len(d) /\ d[1] \in Char
      BY <3>1, ElementOfSeq
    <3>3. Digit(d[1], base)
      BY <3>2 DEF Writes
    <3>4. QED
      BY <2>1, <3>2, <3>3, DigitsAreNone
  <2>3. \A k \in 1..(3 - 1) : k = 1 \/ k = 2
    OBVIOUS
  <2>4. isspace(32) /\ isspace(9)
    BY DEF isspace, Blank
  <2>5. QED
    BY <1>2, <2>1, <2>2, <2>3, <2>4, SkipSpaceIs
<1>4. parseuint(t, base) = v
  <2>1. parseuint(t, base) = Number(SubSeq(t, 3, DigitsEnd(t, 3, base) - 1), base)
    BY <1>3 DEF parseuint
  <2>2. QED
    BY <1>2, <2>1, NumberRead
<1>5. QED
  BY <1>4 DEF t, p

\* With a minus before it.
LEMMA IntRead ==
  ASSUME NEW base \in Bases, NEW v, NEW d, Writes(d, v, base)
  PROVE  parseint(<<Blank, Minus>> \o (d \o Rest), base) = [val |-> -v, end |-> Len(d) + 1 + 2]
<1> DEFINE p == <<Blank, Minus>>
           t == p \o (d \o Rest)
<1>1. p \in Str /\ Len(p) = 2 /\ p[1] = 32 /\ p[2] = 45
  BY DEF Str, Char, Blank, Minus
<1> HIDE DEF t
<1>0. Placed(t, p, d)
  BY Zenon DEF Placed, t
<1> HIDE DEF p
<1>2. StandsAt(t, 3, d, base) /\ t[1] = 32 /\ t[2] = 45
  <2>1. StandsAt(t, Len(p) + 1, d, base) /\ StartsWith(t, p)
    BY <1>0, <1>1, NumberStands
  <2>2. Len(p) + 1 = 3 /\ 1 \in 1..Len(p) /\ 2 \in 1..Len(p)
    BY <1>1
  <2>3. QED
    BY <1>1, <2>1, <2>2 DEF StartsWith
<1>3. Len(t) \in Nat /\ 2 \in 1..Len(t) /\ 2 <= Len(t) /\ t \in Str
  BY <1>2, LenProperties DEF StandsAt, Str
<1>4. SkipSpace(t) = 2
  <2>1. ~isspace(t[2])
    BY <1>2 DEF isspace, Blank
  <2>2. \A k \in 1..(2 - 1) : k = 1
    OBVIOUS
  <2>3. isspace(t[1])
    BY <1>2 DEF isspace, Blank
  <2>4. QED
    BY <1>3, <2>1, <2>2, <2>3, SkipSpaceIs
<1>5. parseint(t, base) = [val |-> -v, end |-> 3 + Len(d)]
  <2> DEFINE i == SkipSpace(t)
  <2>1. i <= Len(t) /\ t[i] = Minus /\ i + 1 = 3
    BY <1>2, <1>3, <1>4 DEF Minus
  <2> HIDE DEF i
  <2>2. parseint(t, base) = [val |-> -Number(SubSeq(t, i + 1, DigitsEnd(t, i + 1, base) - 1), base),
                             end |-> DigitsEnd(t, i + 1, base)]
    BY ONLY <2>1 DEF parseint, i
  <2>3. /\ Number(SubSeq(t, 3, DigitsEnd(t, 3, base) - 1), base) = v
        /\ DigitsEnd(t, 3, base) = 3 + Len(d)
    BY <1>2, NumberRead
  <2>4. QED
    BY ONLY <2>1, <2>2, <2>3
<1>6. Len(d) \in Nat
  BY <1>2 DEF StandsAt
<1>7. 3 + Len(d) = Len(d) + 1 + 2
  BY <1>6
<1>8. QED
  BY <1>5, <1>7 DEF t, p

\* What the second character says.
LEMMA BaseMarkIs ==
  ASSUME NEW s \in Str, 2 <= Len(s), BaseOf(s[2]) # 0
  PROVE  BaseMark(s) = 2
<1> DEFINE top == Max({2, Len(s) + 1})
           Ends(m) == (m <= Len(s) => BaseOf(s[m]) # 0) /\ \A k \in 2..(m - 1) : BaseOf(s[k]) = 0
           e == CHOOSE m \in 2..top : Ends(m)
<1>1. Len(s) \in Nat
  BY LenProperties DEF Str
<1>2. top = Len(s) + 1
  <2>1. 2 \in Int /\ Len(s) + 1 \in Int /\ 2 <= Len(s) + 1
    BY <1>1
  <2>2. QED
    BY <2>1, MaxIs
<1>3. 2 \in 2..top /\ Ends(2)
  BY <1>1, <1>2
<1>4. BaseMark(s) = e
  BY Zenon DEF BaseMark
<1>5. e \in 2..top /\ Ends(e)
  BY <1>3
<1> HIDE DEF e, top
<1>6. ~(2 < e)
  BY <1>1, <1>2, <1>5
<1>7. QED
  BY <1>1, <1>2, <1>4, <1>5, <1>6

\* The characters that say it.
LEMMA BaseOfThese ==
  BaseOf(120) = 16 /\ BaseOf(98) = 2 /\ \A c \in Char : Digit(c, 8) => BaseOf(c) = 8
<1>1. \A c \in Char : Digit(c, 8) => c # 120 /\ c # 98
  BY DEF Digit, char2nyble, Char
<1>2. \A c \in Char : Digit(c, 8) => ~(char2nyble(c) >= 8 /\ c \notin {98, 120})
  BY DEF Digit
<1>3. ~Digit(120, 8) /\ ~Digit(98, 8)
  BY DEF Digit, char2nyble
<1>4. BaseOf(120) = 16
  BY <1>3 DEF BaseOf
<1>5. BaseOf(98) = 2
  BY <1>3 DEF BaseOf
<1>6. ASSUME NEW c \in Char, Digit(c, 8) PROVE BaseOf(c) = 8
  BY <1>1, <1>2, <1>6 DEF BaseOf
<1>7. QED
  BY <1>4, <1>5, <1>6

\* In a base that is given.
LEMMA BaseGiven ==
  ASSUME NEW base \in Bases, NEW t
  PROVE  parseunsigned(t, base) = NumberAt(t, 1, base)
<1>1. base # 0
  BY DEF Bases
<1>2. QED
  BY <1>1 DEF parseunsigned

\* In base 10, without a prefix.
LEMMA BaseTen ==
  ASSUME NEW t, t # <<>>, char2nyble(t[1]) \in 1..9
  PROVE  parseunsigned(t, 0) = NumberAt(t, 1, 10)
<1> DEFINE first == char2nyble(IF t = <<>> THEN 48 ELSE t[1])
<1>1. first = char2nyble(t[1])
  OBVIOUS
<1>2. first \in 1..9 /\ ~(first < 0 \/ first > 9) /\ first # 0
  BY <1>1
<1>3. QED
  BY <1>2 DEF parseunsigned

\* With a prefix.
LEMMA BaseMarked ==
  ASSUME NEW t \in Str, 2 <= Len(t), t[1] = 48, NEW b \in {2, 8, 16}, BaseOf(t[2]) = b
  PROVE  parseunsigned(t, 0) = NumberAt(t, IF b = 8 THEN 2 ELSE 3, b)
<1> DEFINE first == char2nyble(IF t = <<>> THEN 48 ELSE t[1])
<1>1. t # <<>> /\ Len(t) \in Nat
  <2>1. Len(<<>>) = 0 /\ Len(t) \in Nat
    BY LenProperties, EmptySeq DEF Str
  <2>2. QED
    BY <2>1
<1>2. char2nyble(48) = 0
  BY DEF char2nyble
<1>3. first = 0
  BY <1>1, <1>2
<1>4. ~(first < 0 \/ first > 9) /\ first \notin 1..9
  BY <1>3
<1>5. BaseMark(t) = 2
  BY BaseMarkIs
<1>6. ~(BaseMark(t) > Len(t)) /\ b # -1
  BY <1>1, <1>5
<1>7. parseunsigned(t, 0) = NumberAt(t, IF b = 8 THEN BaseMark(t) ELSE BaseMark(t) + 1, b)
  BY <1>3, <1>4, <1>5, <1>6 DEF parseunsigned
<1>8. QED
  BY <1>5, <1>7

\* Nothing before.
LEMMA NothingBefore == ASSUME NEW s \in Str PROVE <<>> \o s = s
BY ConcatEmptySeq DEF Str

\* The first digit.
LEMMA FirstDigit ==
  ASSUME NEW base \in Bases, NEW v, NEW d, Writes(d, v, base)
  PROVE  d[1] \in Char /\ Digit(d[1], base) /\ d \o Rest \in Str /\ Len(d) \in Nat
<1>1. d \in Seq(Char) /\ Len(d) # 0 /\ Len(d) \in Nat
  BY EmptySeq, LenProperties DEF Writes
<1>2. 1 \in 1..Len(d) /\ d[1] \in Char
  BY <1>1, ElementOfSeq
<1>3. Digit(d[1], base)
  BY <1>2 DEF Writes
<1>4. Rest \in Seq(Char)
  BY DEF Rest, Blank, Char
<1>5. d \o Rest \in Seq(Char)
  BY <1>1, <1>4, ConcatProperties
<1>6. QED
  BY <1>1, <1>2, <1>3, <1>5 DEF Str

\* The number, and where it ends.
LEMMA UnsignedRead ==
  ASSUME NEW base \in Bases, NEW v, NEW d, Writes(d, v, base)
  PROVE  parseunsigned(d \o Rest, base) = [val |-> v, end |-> Len(d) + 1]
<1> DEFINE p == <<>>
           t == p \o (d \o Rest)
<1>1. p \in Str /\ Len(p) + 1 = 1
  BY EmptySeq DEF Str
<1>2. t = d \o Rest
  BY FirstDigit, NothingBefore
<1> HIDE DEF t
<1>0. Placed(t, p, d)
  BY Zenon DEF Placed, t
<1> HIDE DEF p
<1>3. StandsAt(t, 1, d, base)
  <2>1. StandsAt(t, Len(p) + 1, d, base)
    BY <1>0, <1>1, NumberStands
  <2>2. QED
    BY <1>1, <2>1
<1>4. NumberAt(t, 1, base) = [val |-> v, end |-> 1 + Len(d)]
  BY <1>3, NumberRead
<1>5. 1 + Len(d) = Len(d) + 1
  BY FirstDigit
<1>6. QED
  BY <1>2, <1>4, <1>5, BaseGiven

\* With the base told by the prefix.
PrefixGives(base, d, v) ==
  parseunsigned(Prefix(base) \o (d \o Rest), 0) = [val |-> v, end |-> Len(d) + 1 + Len(Prefix(base))]
\* A prefix of two characters.
LEMMA TwoPrefix ==
  ASSUME NEW base \in Bases, NEW v, NEW d, Writes(d, v, base), NEW x \in Char, BaseOf(x) = base, base # 8, base # 10,
         Prefix(base) = <<48, x>>
  PROVE  PrefixGives(base, d, v)
<1> DEFINE p == Prefix(base)
           t == p \o (d \o Rest)
<1>1. p \in Str /\ Len(p) = 2 /\ p[1] = 48 /\ p[2] = x
  BY DEF Str, Char
<1> HIDE DEF t
<1>0. Placed(t, p, d)
  BY Zenon DEF Placed, t
<1> HIDE DEF p
<1>2. StandsAt(t, 3, d, base) /\ t[1] = 48 /\ t[2] = x
  <2>1. StandsAt(t, Len(p) + 1, d, base) /\ StartsWith(t, p)
    BY <1>0, <1>1, NumberStands, ZenonT(30)
  <2>2. Len(p) + 1 = 3 /\ 1 \in 1..Len(p) /\ 2 \in 1..Len(p)
    BY <1>1
  <2>3. QED
    BY <1>1, <2>1, <2>2 DEF StartsWith
<1>3. t \in Str /\ 2 <= Len(t) /\ base \in {2, 8, 16}
  BY <1>2, LenProperties DEF StandsAt, Str, Bases
<1>4. parseunsigned(t, 0) = NumberAt(t, IF base = 8 THEN 2 ELSE 3, base)
  BY <1>2, <1>3, BaseMarked
<1>5. NumberAt(t, 3, base) = [val |-> v, end |-> 3 + Len(d)]
  BY <1>2, NumberRead
<1>6. 3 + Len(d) = Len(d) + 1 + Len(p)
  BY <1>1, FirstDigit
<1>7. QED
  BY <1>4, <1>5, <1>6 DEF PrefixGives, t, p

\* A zero.
LEMMA ZeroPrefix ==
  ASSUME NEW v, NEW d, Writes(d, v, 8)
  PROVE  PrefixGives(8, d, v)
<1> DEFINE base == 8
           p == Prefix(base)
           t == p \o (d \o Rest)
<1>0. base \in Bases /\ Writes(d, v, base)
  BY DEF Bases
<1>1. p \in Str /\ Len(p) = 1 /\ p[1] = 48
  <2>1. Prefix(8) = <<48>> /\ 48 \in Char
    BY DEF Prefix, Char
  <2>2. <<48>> \in Seq(Char) /\ Len(<<48>>) = 1 /\ <<48>>[1] = 48
    BY <2>1, One
  <2>3. QED
    BY <2>1, <2>2, Zenon DEF Str
<1>2. d[1] \in Char /\ Digit(d[1], 8) /\ Len(d) \in Nat
  BY <1>0, FirstDigit
<1> HIDE DEF t
<1>z. Placed(t, p, d)
  BY Zenon DEF Placed, t
<1> HIDE DEF p
<1>3. StandsAt(t, 2, d, base) /\ t[1] = 48 /\ t[2] = d[1]
  <2> HIDE DEF base
  <2>1. StandsAt(t, Len(p) + 1, d, base) /\ StartsWith(t, p)
    BY <1>0, <1>z, <1>1, NumberStands, ZenonT(30)
  <2>2. Len(p) + 1 = 2 /\ 1 \in 1..Len(p)
    BY <1>1
  <2>3. QED
    BY <1>1, <2>1, <2>2 DEF StandsAt, StartsWith
<1>4. t \in Str /\ 2 <= Len(t)
  BY <1>3, LenProperties DEF StandsAt, Str
<1>5. BaseOf(t[2]) = 8
  BY <1>2, <1>3, BaseOfThese
<1>6. parseunsigned(t, 0) = NumberAt(t, 2, 8)
  BY <1>3, <1>4, <1>5, BaseMarked
<1>7. NumberAt(t, 2, base) = [val |-> v, end |-> 2 + Len(d)]
  <2> HIDE DEF base
  <2>1. QED
    BY <1>0, <1>3, NumberRead
<1>8. 2 + Len(d) = Len(d) + 1 + Len(p)
  BY <1>1, <1>2
<1>9. QED
  BY <1>6, <1>7, <1>8 DEF PrefixGives, t, p

\* None.
LEMMA NoPrefix ==
  ASSUME NEW v, v # 0, NEW d, Writes(d, v, 10)
  PROVE  PrefixGives(10, d, v)
<1> DEFINE base == 10
           p == <<>>
           t == p \o (d \o Rest)
<1>0. base \in Bases /\ Writes(d, v, base)
  BY DEF Bases
<1>1. p \in Str /\ Len(p) = 0 /\ Prefix(10) = p
  BY EmptySeq DEF Str, Prefix
<1>2. d[1] \in Char /\ Digit(d[1], 10) /\ Len(d) \in Nat /\ d[1] # 48
  <2>1. d[1] \in Char /\ Digit(d[1], 10) /\ Len(d) \in Nat
    BY <1>0, FirstDigit
  <2>2. QED
    BY <2>1 DEF Writes
<1> HIDE DEF t
<1>z. Placed(t, p, d)
  BY Zenon DEF Placed, t
<1> HIDE DEF p
<1>3. StandsAt(t, 1, d, base)
  <2> HIDE DEF base
  <2>1. StandsAt(t, Len(p) + 1, d, base)
    BY <1>0, <1>z, <1>1, NumberStands
  <2>2. Len(p) + 1 = 1
    BY <1>1
  <2>3. QED
    BY <2>1, <2>2
<1>4. t \in Str /\ t # <<>> /\ t[1] = d[1]
  <2>1. t \in Str /\ 1 \in 1..Len(t) /\ t[1] = d[1]
    BY <1>3 DEF StandsAt
  <2>2. Len(<<>>) = 0
    BY EmptySeq
  <2>3. QED
    BY <2>1, <2>2
<1>5. char2nyble(d[1]) \in 1..9
  <2>1. \A c \in Char : Digit(c, 10) => c \in 48..57
    BY DEF Digit, char2nyble, Char
  <2>2. \A c \in 48..57 : c # 48 => char2nyble(c) \in 1..9
    BY DEF char2nyble
  <2>3. QED
    BY <1>2, <2>1, <2>2
<1>6. parseunsigned(t, 0) = NumberAt(t, 1, 10)
  BY <1>4, <1>5, BaseTen
<1>7. NumberAt(t, 1, base) = [val |-> v, end |-> 1 + Len(d)]
  <2> HIDE DEF base
  <2>1. QED
    BY <1>0, <1>3, NumberRead
<1>8. 1 + Len(d) = Len(d) + 1 + Len(p)
  BY <1>1, <1>2
<1>9. QED
  BY <1>1, <1>6, <1>7, <1>8 DEF PrefixGives, t, p

\* In every base.
LEMMA PrefixRead ==
  ASSUME NEW base \in Bases, NEW v, v # 0, NEW d, Writes(d, v, base)
  PROVE  PrefixGives(base, d, v) /\ Prefix(base) \in Str
<1>1. CASE base = 2
  <2>1. Prefix(2) = <<48, 98>> /\ 98 \in Char /\ 48 \in Char
    BY DEF Prefix, Char
  <2>2. BaseOf(98) = 2
    BY BaseOfThese
  <2>3. Prefix(base) \in Str
    <3>1. <<48, 98>> \in Seq(Char)
      BY <2>1
    <3>2. QED
      BY <1>1, <2>1, <3>1, Zenon DEF Str
  <2>4. QED
    BY <1>1, <2>1, <2>2, <2>3, TwoPrefix
<1>2. CASE base = 16
  <2>1. Prefix(16) = <<48, 120>> /\ 120 \in Char /\ 48 \in Char
    BY DEF Prefix, Char
  <2>2. BaseOf(120) = 16
    BY BaseOfThese
  <2>3. Prefix(base) \in Str
    <3>1. <<48, 120>> \in Seq(Char)
      BY <2>1
    <3>2. QED
      BY <1>2, <2>1, <3>1, Zenon DEF Str
  <2>4. QED
    BY <1>2, <2>1, <2>2, <2>3, TwoPrefix
<1>3. CASE base = 8
  <2>1. Prefix(8) = <<48>> /\ 48 \in Char
    BY DEF Prefix, Char
  <2>2. Prefix(base) \in Str
    <3>1. <<48>> \in Seq(Char)
      BY <2>1
    <3>2. QED
      BY <1>3, <2>1, <3>1, Zenon DEF Str
  <2>3. QED
    BY <1>3, <2>2, ZeroPrefix
<1>4. CASE base = 10
  <2>1. Prefix(10) = <<>>
    BY DEF Prefix
  <2>2. Prefix(base) \in Str
    BY <1>4, <2>1, EmptySeq DEF Str
  <2>3. QED
    BY <1>4, <2>2, NoPrefix
<1>5. QED
  BY <1>1, <1>2, <1>3, <1>4 DEF Bases

\* A minus before all that.
LEMMA SignedRead ==
  ASSUME NEW base \in Bases, NEW v, v # 0, NEW d, Writes(d, v, base)
  PROVE  parsesigned(<<Minus>> \o Prefix(base) \o (d \o Rest), 0)
           = [val |-> -v, end |-> Len(d) + 1 + 1 + Len(Prefix(base))]
<1> DEFINE w == <<Minus>>
           p == Prefix(base)
           r == d \o Rest
           u == p \o r
           t == w \o p \o r
<1>1. w \in Seq(Char) /\ Len(w) = 1 /\ w[1] = Minus
  BY DEF Minus, Char
<1>2. PrefixGives(base, d, v) /\ p \in Seq(Char) /\ r \in Seq(Char) /\ Len(d) \in Nat /\ Len(p) \in Nat
  BY PrefixRead, FirstDigit, LenProperties DEF Str
<1>3. parseunsigned(u, 0) = [val |-> v, end |-> Len(d) + 1 + Len(p)]
  BY <1>2 DEF PrefixGives
<1> HIDE DEF w, p, r
<1>4. t = w \o u
  <2>1. Associates(w, p, r)
    BY ONLY <1>1, <1>2, JoinAssociates
  <2>2. QED
    BY <2>1, Zenon DEF Associates, t, u
<1>5. u \in Seq(Char)
  BY <1>2, ConcatProperties
<1> HIDE DEF u, t
<1>6. t[1] = Minus /\ TailFrom(t, 2) = u
  <2>1. Minus \in Char
    BY DEF Minus, Char
  <2>2. (<<Minus>> \o u)[1] = Minus /\ Suffix(<<Minus>> \o u, 2) = u
    BY <1>5, <2>1, ConsElements
  <2>3. QED
    BY <1>4, <2>2 DEF w, Suffix, TailFrom
<1>7. /\ Len(d) + 1 + Len(p) # 1 \/ (Len(d) = 0 /\ Len(p) = 0)
      /\ (Len(d) + 1 + Len(p)) + 2 - 1 = Len(d) + 1 + 1 + Len(p)
  BY <1>2
<1>8. Len(d) # 0
  BY EmptySeq DEF Writes
<1>9. parsesigned(t, 0) = [val |-> -v, end |-> Len(d) + 1 + 1 + Len(p)]
  BY <1>3, <1>6, <1>7, <1>8 DEF parsesigned
<1>10. QED
  BY <1>9 DEF t, w, p, r

\* All of them.
LEMMA NumbersRead ==
  ASSUME str \in Str
  PROVE  Numbers
<1>1. Value \in Nat
  <2>1. \A k \in 1..Len(str) : str[k] \in Char
    BY ElementOfSeq DEF Str
  <2>2. CASE Len(str) < 2
    BY <2>2 DEF Value
  <2>3. CASE ~(Len(str) < 2)
    <3>1. 1 \in 1..Len(str) /\ 2 \in 1..Len(str)
      BY <2>3, LenProperties DEF Str
    <3>2. str[1] \in Nat /\ str[2] \in Nat
      <4>1. str[1] \in Char /\ str[2] \in Char
        BY <2>1, <3>1
      <4>2. \A c \in Char : c \in Nat
        BY DEF Char
      <4>3. QED
        BY <4>1, <4>2
    <3>3. QED
      BY <2>3, <3>2 DEF Value
  <2>4. QED
    BY <2>2, <2>3
<1>2. ASSUME NEW base \in Bases, NEW d, d = Digits(Value, base)
      PROVE  /\ parseuint(<<Blank, 9>> \o (d \o Rest), base) = Value
             /\ parseint(<<Blank, Minus>> \o (d \o Rest), base) = [val |-> -Value, end |-> Len(d) + 1 + 2]
             /\ parseunsigned(d \o Rest, base) = [val |-> Value, end |-> Len(d) + 1]
             /\ Value # 0 =>
                  /\ parseunsigned(Prefix(base) \o (d \o Rest), 0)
                       = [val |-> Value, end |-> Len(d) + 1 + Len(Prefix(base))]
                  /\ parsesigned(<<Minus>> \o Prefix(base) \o (d \o Rest), 0)
                       = [val |-> -Value, end |-> Len(d) + 1 + 1 + Len(Prefix(base))]
  <2>1. Writes(d, Value, base)
    BY <1>1, <1>2, DigitsWrite
  <2>2. QED
    BY <2>1, UintRead, IntRead, UnsignedRead, PrefixRead, SignedRead DEF PrefixGives
<1>3. QED
  BY <1>2, ZenonT(30) DEF Numbers, Rest, Bases

-----------------------------------------------------------------------------
(* Lists of words. *)

\* The state of SplitString between two characters.
St(l, c, q, n) == [list |-> l, current |-> c, quoted |-> q, literal |-> n]
States == [list : Seq(Str), current : Str, quoted : BOOLEAN, literal : Nat]
Start == St(<<>>, <<>>, FALSE, 0)
\* What a character does, in every state.
Moved(l, c, q, n, e, wide) ==
  IF n > 0 THEN St(l, Append(c, e), q, n - 1)
  ELSE IF e = Backslash THEN St(l, c, q, IF q /\ wide THEN 2 ELSE 1)
  ELSE IF e = Quote THEN (IF q THEN St(Append(l, c), <<>>, FALSE, 0) ELSE St(l, c, TRUE, 0))
  ELSE IF ~q /\ e \in Separators THEN (IF c = <<>> THEN St(l, c, q, n) ELSE St(Append(l, c), <<>>, q, n))
  ELSE St(l, Append(c, e), q, n)

\* The parts of a state.
LEMMA StateParts ==
  ASSUME NEW l, NEW c, NEW q, NEW n
  PROVE  /\ St(l, c, q, n).list = l /\ St(l, c, q, n).current = c
         /\ St(l, c, q, n).quoted = q /\ St(l, c, q, n).literal = n
BY DEF St
\* Changing one of them.
LEMMA SetList ==
  ASSUME NEW l, NEW c, NEW q, NEW n, NEW x
  PROVE  [St(l, c, q, n) EXCEPT !.list = x] = St(x, c, q, n)
BY DEF St
\* Changing the word.
LEMMA SetCurrent ==
  ASSUME NEW l, NEW c, NEW q, NEW n, NEW x
  PROVE  [St(l, c, q, n) EXCEPT !.current = x] = St(l, x, q, n)
BY DEF St
\* Changing whether it is quoted.
LEMMA SetQuoted ==
  ASSUME NEW l, NEW c, NEW q, NEW n, NEW x
  PROVE  [St(l, c, q, n) EXCEPT !.quoted = x] = St(l, c, x, n)
BY DEF St
\* Changing the count.
LEMMA SetLiteral ==
  ASSUME NEW l, NEW c, NEW q, NEW n, NEW x
  PROVE  [St(l, c, q, n) EXCEPT !.literal = x] = St(l, c, q, x)
BY DEF St

\* The word and the count at once.
Taken(p, x, y) == [p EXCEPT !.current = x, !.literal = y]
\* That changes these two.
LEMMA SetTaken ==
  ASSUME NEW l, NEW c, NEW q, NEW n, NEW x, NEW y
  PROVE  Taken(St(l, c, q, n), x, y) = St(l, x, q, y)
<1> DEFINE p == St(l, c, q, n)
           r == St(l, x, q, n)
<1>1. [p EXCEPT !.current = x] = r
  BY SetCurrent
<1>2. [r EXCEPT !.literal = y] = St(l, x, q, y)
  BY SetLiteral
<1> HIDE DEF p, r
<1>3. Taken(p, x, y) = [r EXCEPT !.literal = y]
  BY <1>1 DEF Taken
<1>4. QED
  BY <1>2, <1>3 DEF p

\* Push ends the word.
LEMMA PushEnds ==
  ASSUME NEW l, NEW c, NEW q, NEW n
  PROVE  Push(St(l, c, q, n)) = St(Append(l, c), <<>>, q, n)
<1> DEFINE x == Append(l, c)
<1> HIDE DEF x
<1> DEFINE p == St(l, c, q, n)
           r == St(x, c, q, n)
<1>1. [p EXCEPT !.list = x] = r
  BY SetList
<1>2. [r EXCEPT !.current = <<>>] = St(x, <<>>, q, n)
  BY SetCurrent
<1>3. p.list = l /\ p.current = c
  BY StateParts
<1> HIDE DEF p, r
<1>4. Append(p.list, p.current) = x
  BY <1>3 DEF x
<1>5. Push(p) = [r EXCEPT !.current = <<>>]
  BY <1>1, <1>4 DEF Push
<1>6. QED
  BY <1>2, <1>5 DEF p, x

\* That is what SplitStep does.
LEMMA StepMoves ==
  ASSUME NEW l, NEW c, NEW q \in BOOLEAN, NEW n \in Nat, NEW e \in Char, NEW wide \in BOOLEAN
  PROVE  SplitStep(St(l, c, q, n), e, TRUE, wide) = Moved(l, c, q, n, e, wide)
<1> DEFINE p == St(l, c, q, n)
           m == Moved(l, c, q, n, e, wide)
           k == IF q /\ wide THEN 2 ELSE 1
<1>1. p.list = l /\ p.current = c /\ p.quoted = q /\ p.literal = n
  BY StateParts
<1>2. Quote # Backslash /\ Quote \notin Separators /\ Backslash \notin Separators
  BY DEF Quote, Backslash, Separators, Blank
<1>3. CASE n > 0
  <2>1. m = St(l, Append(c, e), q, n - 1)
    BY <1>3 DEF Moved
  <2>2. Taken(p, Append(c, e), n - 1) = St(l, Append(c, e), q, n - 1)
    BY SetTaken
  <2> HIDE DEF p, m
  <2>3. SplitStep(p, e, TRUE, wide) = Taken(p, Append(c, e), n - 1)
    BY <1>1, <1>3 DEF SplitStep, Taken
  <2>4. QED
    BY <2>1, <2>2, <2>3 DEF p, m
<1>4. CASE n = 0 /\ e = Backslash
  <2> HIDE DEF k
  <2>1. m = St(l, c, q, k)
    BY <1>4 DEF Moved, k
  <2>2. [p EXCEPT !.literal = k] = St(l, c, q, k)
    BY SetLiteral
  <2> HIDE DEF p, m
  <2>3. SplitStep(p, e, TRUE, wide) = [p EXCEPT !.literal = k]
    BY <1>1, <1>2, <1>4 DEF SplitStep, k
  <2>4. QED
    BY <2>1, <2>2, <2>3, Zenon DEF p, m
<1>5. CASE n = 0 /\ e = Quote
  <2>1. m = IF q THEN St(Append(l, c), <<>>, FALSE, 0) ELSE St(l, c, TRUE, 0)
    BY <1>2, <1>5 DEF Moved
  <2>2. ASSUME q PROVE [Push(p) EXCEPT !.quoted = ~@] = St(Append(l, c), <<>>, FALSE, 0)
    <3> DEFINE x == Append(l, c)
    <3>1. Push(p) = St(x, <<>>, q, n)
      BY PushEnds
    <3> HIDE DEF x
    <3> DEFINE r == St(x, <<>>, q, n)
    <3> DEFINE no == FALSE
    <3> HIDE DEF no
    <3>2. [r EXCEPT !.quoted = no] = St(x, <<>>, no, n)
      BY SetQuoted
    <3>3. r.quoted = q
      BY StateParts
    <3> HIDE DEF r, p
    <3>4. [r EXCEPT !.quoted = ~@] = [r EXCEPT !.quoted = no]
      BY <2>2, <3>3 DEF no
    <3>5. [Push(p) EXCEPT !.quoted = ~@] = [r EXCEPT !.quoted = no]
      BY <3>1, <3>4 DEF r
    <3>6. QED
      BY <1>5, <3>2, <3>5 DEF x, no
  <2>3. ASSUME ~q PROVE [p EXCEPT !.quoted = ~@] = St(l, c, TRUE, 0)
    <3> DEFINE yes == TRUE
    <3> HIDE DEF yes
    <3>1. [p EXCEPT !.quoted = yes] = St(l, c, yes, n)
      BY SetQuoted
    <3> HIDE DEF p
    <3>2. [p EXCEPT !.quoted = ~@] = [p EXCEPT !.quoted = yes]
      BY <1>1, <2>3 DEF yes
    <3>3. QED
      BY <1>5, <3>1, <3>2 DEF yes
  <2> HIDE DEF p, m
  <2>4. SplitStep(p, e, TRUE, wide) = [IF p.quoted THEN Push(p) ELSE p EXCEPT !.quoted = ~@]
    BY <1>1, <1>2, <1>5 DEF SplitStep
  <2>5. CASE q
    <3>1. SplitStep(p, e, TRUE, wide) = [Push(p) EXCEPT !.quoted = ~@]
      BY <1>1, <2>4, <2>5
    <3>2. QED
      BY <2>1, <2>2, <2>5, <3>1 DEF p, m
  <2>6. CASE ~q
    <3>1. SplitStep(p, e, TRUE, wide) = [p EXCEPT !.quoted = ~@]
      BY <1>1, <2>4, <2>6
    <3>2. QED
      BY <2>1, <2>3, <2>6, <3>1 DEF p, m
  <2>7. QED
    BY <2>5, <2>6 DEF p, m
<1>6. CASE n = 0 /\ e # Backslash /\ e # Quote /\ ~q /\ e \in Separators
  <2>1. m = IF c = <<>> THEN p ELSE St(Append(l, c), <<>>, q, n)
    BY <1>6 DEF Moved
  <2>2. Push(p) = St(Append(l, c), <<>>, q, n)
    BY PushEnds
  <2> HIDE DEF p, m
  <2>3. SplitStep(p, e, TRUE, wide) = PushWord(p)
    BY <1>1, <1>6 DEF SplitStep
  <2>4. PushWord(p) = IF c = <<>> THEN p ELSE Push(p)
    BY <1>1, Zenon DEF PushWord
  <2>5. QED
    BY <2>1, <2>2, <2>3, <2>4, Zenon DEF p, m
<1>7. CASE n = 0 /\ e # Backslash /\ e # Quote /\ ~(~q /\ e \in Separators)
  <2> DEFINE x == Append(c, e)
  <2>1. m = St(l, x, q, n)
    BY <1>7 DEF Moved
  <2> HIDE DEF x
  <2>2. [p EXCEPT !.current = x] = St(l, x, q, n)
    BY SetCurrent
  <2> HIDE DEF p, m
  <2>3. [p EXCEPT !.current = Append(@, e)] = [p EXCEPT !.current = x]
    BY <1>1 DEF x
  <2>4. SplitStep(p, e, TRUE, wide) = [p EXCEPT !.current = Append(@, e)]
    BY <1>1, <1>7 DEF SplitStep
  <2>5. QED
    BY <2>1, <2>2, <2>3, <2>4 DEF p, m
<1>8. n = 0 \/ n > 0
  OBVIOUS
<1>9. QED
  BY <1>3, <1>4, <1>5, <1>6, <1>7, <1>8

\* A state is made of its parts.
LEMMA StateIs ==
  ASSUME NEW p \in States
  PROVE  /\ p = St(p.list, p.current, p.quoted, p.literal)
         /\ p.list \in Seq(Str) /\ p.current \in Str /\ p.quoted \in BOOLEAN /\ p.literal \in Nat
BY DEF States, St
\* And a state of such parts is one.
LEMMA StateMade ==
  ASSUME NEW l \in Seq(Str), NEW c \in Str, NEW q \in BOOLEAN, NEW n \in Nat
  PROVE  St(l, c, q, n) \in States
BY DEF States, St

\* SplitStep as a function.
SplitF(wide) == [p \in States \X Char |-> SplitStep(p[1], p[2], TRUE, wide)]
\* It stays among the states.
LEMMA SplitSteps ==
  ASSUME NEW wide \in BOOLEAN
  PROVE  /\ Steps(SplitF(wide), States, Char) /\ Start \in States
         /\ \A p \in States, e \in Char : SplitF(wide)[p, e] = SplitStep(p, e, TRUE, wide)
<1>1. \A p \in States, e \in Char : SplitF(wide)[p, e] = SplitStep(p, e, TRUE, wide)
  BY DEF SplitF
<1>2. <<>> \in Str /\ <<>> \in Seq(Str)
  BY EmptySeq DEF Str
<1>3. Start \in States
  BY <1>2, StateMade DEF Start
<1>4. ASSUME NEW p \in States, NEW e \in Char PROVE SplitStep(p, e, TRUE, wide) \in States
  <2> DEFINE l == p.list
             c == p.current
             q == p.quoted
             n == p.literal
  <2>1. p = St(l, c, q, n) /\ l \in Seq(Str) /\ c \in Str /\ q \in BOOLEAN /\ n \in Nat
    BY StateIs
  <2> HIDE DEF l, c, q, n
  <2>2. SplitStep(p, e, TRUE, wide) = Moved(l, c, q, n, e, wide)
    BY <2>1, StepMoves
  <2>3. Append(c, e) \in Str /\ Append(l, c) \in Seq(Str)
    BY <2>1, AppendProperties DEF Str
  <2>4. CASE n > 0
    <3>1. n - 1 \in Nat
      BY <2>1, <2>4
    <3>2. QED
      BY <2>1, <2>2, <2>3, <2>4, <3>1, StateMade DEF Moved
  <2>5. CASE ~(n > 0)
    <3>1. 0 \in Nat /\ 1 \in Nat /\ 2 \in Nat
      OBVIOUS
    <3>2. QED
      BY <1>2, <2>1, <2>2, <2>3, <2>5, <3>1, StateMade, ZenonT(30) DEF Moved
  <2>6. QED
    BY <2>4, <2>5
<1>5. QED
  BY <1>1, <1>3, <1>4 DEF Steps

\* SplitString goes from state to state so.
LEMMA SplitIsFold ==
  ASSUME NEW s \in Str, NEW wide \in BOOLEAN
  PROVE  LET p == Fold(SplitF(wide), Start, s) IN
         p \in States /\ SplitBy(s, TRUE, wide) = [list |-> PushWord(p).list, ok |-> ~p.quoted /\ p.literal = 0]
<1> DEFINE n == Len(s)
           step == SplitF(wide)
           next(p, e) == SplitStep(p, e, TRUE, wide)
           first == [list |-> <<>>, current |-> <<>>, quoted |-> FALSE, literal |-> 0]
           Is(f) == f = [k \in 0..n |-> IF k = 0 THEN first ELSE next(f[k - 1], s[k])]
           g == CHOOSE f : Is(f)
<1>1. /\ Steps(step, States, Char) /\ Start \in States /\ first = Start
      /\ \A p \in States, e \in Char : step[p, e] = next(p, e)
  BY SplitSteps DEF Start, St
<1>2. SplitBy(s, TRUE, wide) = [list |-> PushWord(g[n]).list, ok |-> ~g[n].quoted /\ g[n].literal = 0]
  BY Zenon DEF SplitBy, Scan
<1> HIDE DEF step, next, first
<1>3. s \in Seq(Char) /\ n \in Nat /\ \A k \in 1..n : s[k] \in Char
  BY LenProperties, ElementOfSeq DEF Str
<1>4. PICK h : ValuesOf(h, step, Start, s, n, States)
  BY <1>1, <1>3, FoldExists
<1>5. \E f : Is(f)
  <2> DEFINE d == [k \in 0..n |-> h[k]]
  <2>1. ASSUME NEW k \in 0..n PROVE d[k] = IF k = 0 THEN first ELSE next(d[k - 1], s[k])
    <3>1. CASE k = 0
      BY <1>1, <1>4, <3>1 DEF ValuesOf
    <3>2. CASE k # 0
      <4>1. k \in 1..n /\ k - 1 \in 0..n
        BY <1>3, <3>2
      <4>2. h[k] = step[h[k - 1], s[k]] /\ h[k - 1] \in States /\ d[k] = h[k] /\ d[k - 1] = h[k - 1]
        BY <1>4, <4>1 DEF ValuesOf
      <4> HIDE DEF d
      <4>3. QED
        BY <1>1, <1>3, <3>2, <4>1, <4>2
    <3>3. QED
      BY <3>1, <3>2
  <2>2. d = [k \in 0..n |-> d[k]]
    OBVIOUS
  <2> HIDE DEF d
  <2>3. Is(d)
    BY <2>1, <2>2
  <2>4. QED
    BY <2>3
<1>6. Is(g)
  BY <1>5
<1> HIDE DEF g
<1>7. Follows(g, step, Start, s, n, States)
  <2>1. g[0] = Start
    <3>1. 0 \in 0..n
      BY <1>3
    <3>2. g[0] = first
      BY <1>6, <3>1
    <3>3. QED
      BY <1>1, <3>2
  <2>2. ASSUME NEW k \in 1..n, g[k - 1] \in States PROVE g[k] = step[g[k - 1], s[k]]
    <3>1. k \in 0..n /\ k # 0
      BY <1>3
    <3>2. g[k] = next(g[k - 1], s[k])
      BY <1>6, <3>1
    <3>3. QED
      BY <1>1, <1>3, <2>2, <3>2
  <2>3. QED
    BY <2>1, <2>2 DEF Follows
<1>8. g[n] = Fold(step, Start, s)
  BY <1>1, <1>3, <1>7, FoldIs, ZenonT(30)
<1>9. Fold(step, Start, s) \in States
  <2>1. FoldsBoth(step, Start, s, s, States)
    BY ONLY <1>1, <1>3, FoldJoin
  <2>2. QED
    BY <2>1 DEF FoldsBoth
<1>10. QED
  BY <1>2, <1>8, <1>9 DEF step

-----------------------------------------------------------------------------
(* What SplitString does with the parts of a list.                         *)

Narrow == SplitF(FALSE)
Read(p, s) == Fold(Narrow, p, s)

\* One character, from a state of such parts.
LEMMA ReadOne ==
  ASSUME NEW l \in Seq(Str), NEW c \in Str, NEW q \in BOOLEAN, NEW n \in Nat, NEW e \in Char
  PROVE  Read(St(l, c, q, n), <<e>>) = Moved(l, c, q, n, e, FALSE)
<1> DEFINE p == St(l, c, q, n)
<1>1. p \in States
  BY StateMade
<1>2. Steps(Narrow, States, Char) /\ \A t \in States, x \in Char : Narrow[t, x] = SplitStep(t, x, TRUE, FALSE)
  BY SplitSteps DEF Narrow
<1>3. SplitStep(p, e, TRUE, FALSE) = Moved(l, c, q, n, e, FALSE)
  BY StepMoves
<1> HIDE DEF p
<1>4. Fold(Narrow, p, <<e>>) = Narrow[p, e]
  <2>1. Steps(Narrow, States, Char)
    BY <1>2
  <2>2. FoldsOne(Narrow, p, e)
    BY ONLY <1>1, <2>1, e \in Char, FoldOne
  <2>3. QED
    BY <2>2 DEF FoldsOne
<1>5. QED
  BY <1>1, <1>2, <1>3, <1>4 DEF Read, p

\* One text after another.
ReadOn(p, s, t) == Read(p, s \o t) = Read(Read(p, s), t)
\* It goes on where the first one ended.
LEMMA ReadTwo ==
  ASSUME NEW p \in States, NEW s \in Seq(Char), NEW t \in Seq(Char)
  PROVE  ReadOn(p, s, t)
<1>1. Steps(Narrow, States, Char)
  BY SplitSteps DEF Narrow
<1>2. FoldsBoth(Narrow, p, s, t, States)
  BY ONLY <1>1, p \in States, s \in Seq(Char), t \in Seq(Char), FoldJoin
<1>3. QED
  BY <1>2 DEF FoldsBoth, ReadOn, Read

\* A character after a backslash where it is special, and a word of them.
EscapedIn(special) == [e \in Char |-> IF e \in special THEN <<Backslash, e>> ELSE <<e>>]
\* Escaped writes one after another.
LEMMA EscapedIs ==
  ASSUME NEW w \in Str, NEW special
  PROVE  Escaped(w, special) = FlatMap(EscapedIn(special), w) /\ EscapedIn(special) \in [Char -> Seq(Char)]
<1>1. Escaped(w, special) = FlattenSeq([k \in DOMAIN w |-> IF w[k] \in special THEN <<Backslash, w[k]>> ELSE <<w[k]>>])
  BY DEF Escaped
<1>2. FlatMap(EscapedIn(special), w) = FlattenSeq([k \in DOMAIN w |-> EscapedIn(special)[w[k]]])
  BY DEF FlatMap, Mapped
<1>3. \A k \in DOMAIN w : EscapedIn(special)[w[k]] = IF w[k] \in special THEN <<Backslash, w[k]>> ELSE <<w[k]>>
  <2>1. \A k \in DOMAIN w : w[k] \in Char
    BY DEF Str
  <2>2. QED
    BY <2>1 DEF EscapedIn
<1>4. \A e \in Char : <<Backslash, e>> \in Seq(Char) /\ <<e>> \in Seq(Char)
  BY DEF Backslash, Char
<1>5. QED
  BY <1>1, <1>2, <1>3, <1>4 DEF EscapedIn

\* What has to be escaped, within quotes and without.
Special(q) == IF q THEN {Quote, Backslash} ELSE {Quote, Backslash} \cup Separators
\* An escaped character is added to the word.
ReadChar(l, c, q, e) == Read(St(l, c, q, 0), EscapedIn(Special(q))[e]) = St(l, Append(c, e), q, 0)
\* It is.
LEMMA CharAdded ==
  ASSUME NEW l \in Seq(Str), NEW c \in Str, NEW q \in BOOLEAN, NEW e \in Char
  PROVE  ReadChar(l, c, q, e)
<1> DEFINE p == St(l, c, q, 0)
<1>1. CASE e \in Special(q)
  <2> DEFINE b == <<Backslash>>
             x == <<e>>
             r == St(l, c, q, 1)
  <2>1. Backslash \in Char /\ 0 \in Nat /\ 1 \in Nat
    BY DEF Backslash, Char
  <2>2. b \in Seq(Char) /\ x \in Seq(Char) /\ b \o x = <<Backslash, e>>
    BY <2>1, One, Pair
  <2>3. Read(p, b) = r
    <3>1. Read(p, b) = Moved(l, c, q, 0, Backslash, FALSE)
      BY <2>1, ReadOne
    <3>2. Moved(l, c, q, 0, Backslash, FALSE) = r
      BY DEF Moved
    <3>3. QED
      BY <3>1, <3>2
  <2>4. Read(r, x) = St(l, Append(c, e), q, 0)
    <3>1. Read(r, x) = Moved(l, c, q, 1, e, FALSE)
      BY <2>1, ReadOne
    <3>2. Moved(l, c, q, 1, e, FALSE) = St(l, Append(c, e), q, 0)
      BY DEF Moved
    <3>3. QED
      BY <3>1, <3>2
  <2>5. p \in States
    BY <2>1, StateMade
  <2>6. EscapedIn(Special(q))[e] = <<Backslash, e>>
    BY <1>1 DEF EscapedIn
  <2> HIDE DEF b, x, r, p
  <2>7. ReadOn(p, b, x)
    BY <2>2, <2>5, ReadTwo
  <2>8. QED
    BY <2>2, <2>3, <2>4, <2>6, <2>7 DEF ReadOn, ReadChar, p
<1>2. CASE e \notin Special(q)
  <2>1. EscapedIn(Special(q))[e] = <<e>>
    BY <1>2 DEF EscapedIn
  <2>2. e # Backslash /\ e # Quote /\ ~(~q /\ e \in Separators)
    BY <1>2 DEF Special
  <2>3. Read(p, <<e>>) = St(l, Append(c, e), q, 0)
    <3>1. Read(p, <<e>>) = Moved(l, c, q, 0, e, FALSE)
      BY ReadOne
    <3>2. Moved(l, c, q, 0, e, FALSE) = St(l, Append(c, e), q, 0)
      BY <2>2 DEF Moved
    <3>3. QED
      BY <3>1, <3>2
  <2>4. QED
    BY <2>1, <2>3 DEF ReadChar
<1>3. QED
  BY <1>1, <1>2

\* And so is an escaped word.
ReadWord(l, q, w) == Read(St(l, <<>>, q, 0), FlatMap(EscapedIn(Special(q)), w)) = St(l, w, q, 0)
\* Character by character.
LEMMA WordAdded ==
  ASSUME NEW l \in Seq(Str), NEW q \in BOOLEAN, NEW w \in Seq(Char)
  PROVE  ReadWord(l, q, w)
<1> DEFINE F == EscapedIn(Special(q))
           P == {u \in Seq(Char) : ReadWord(l, q, u)}
           p == St(l, <<>>, q, 0)
<1>1. F \in [Char -> Seq(Char)]
  BY EmptySeq, EscapedIs DEF Str
<1>2. p \in States /\ <<>> \in Seq(Char)
  BY EmptySeq, StateMade DEF Str
<1>3. Steps(Narrow, States, Char)
  BY SplitSteps DEF Narrow
<1>4. <<>> \in P
  <2>1. FlatMap(F, <<>>) = <<>>
    BY FlatMapEmpty
  <2> HIDE DEF p
  <2>2. Fold(Narrow, p, <<>>) = p
    BY ONLY <1>2, <1>3, FoldEmpty
  <2>3. QED
    BY <1>2, <2>1, <2>2 DEF ReadWord, Read, p
<1>5. ASSUME NEW u \in P, NEW e \in Char PROVE Append(u, e) \in P
  <2> DEFINE t == u \o <<e>>
             x == FlatMap(F, u)
  <2>1. u \in Seq(Char) /\ ReadWord(l, q, u)
    OBVIOUS
  <2>2. Append(u, e) = t /\ Append(u, e) \in Seq(Char)
    BY <2>1, AppendIsConcat, AppendProperties
  <2>3. ReadChar(l, u, q, e)
    BY <2>1, CharAdded DEF Str
  <2> HIDE DEF F, p
  <2>4. FlatMap(F, t) = x \o F[e]
    BY <1>1, <2>1, FlatMapLast, ZenonT(30)
  <2>5. x \in Seq(Char) /\ F[e] \in Seq(Char)
    BY <1>1, <2>1, FlatMapType
  <2> HIDE DEF t, x
  <2>6. ReadOn(p, x, F[e])
    BY <1>2, <2>5, ReadTwo
  <2>7. Read(p, x) = St(l, u, q, 0)
    BY <2>1 DEF ReadWord, p, x, F
  <2>8. Read(St(l, u, q, 0), F[e]) = St(l, Append(u, e), q, 0)
    BY <2>3 DEF ReadChar, F
  <2>9. ReadWord(l, q, Append(u, e))
    BY <2>2, <2>4, <2>6, <2>7, <2>8 DEF ReadWord, ReadOn, p, F
  <2>10. QED
    BY <2>2, <2>9
<1>6. P \subseteq Seq(Char)
  OBVIOUS
<1> HIDE DEF P
<1>7. P = Seq(Char)
  BY <1>4, <1>5, <1>6, AppendInduction
<1>8. QED
  BY <1>7 DEF P

\* A word in quotes is one word.
LEMMA QuotedRead ==
  ASSUME NEW l \in Seq(Str), NEW w \in Seq(Char)
  PROVE  /\ Quoted(w) \in Seq(Char) /\ Quoted(w) # <<>>
         /\ Read(St(l, <<>>, FALSE, 0), Quoted(w)) = St(Append(l, w), <<>>, FALSE, 0)
<1> DEFINE b == <<Quote>>
           x == FlatMap(EscapedIn(Special(TRUE)), w)
           p == St(l, <<>>, FALSE, 0)
           r == St(l, <<>>, TRUE, 0)
           s == St(l, w, TRUE, 0)
           t == St(Append(l, w), <<>>, FALSE, 0)
<1>1. Escaped(w, {Quote, Backslash}) = x /\ EscapedIn(Special(TRUE)) \in [Char -> Seq(Char)]
  BY EscapedIs DEF Special, Str
<1>2. x \in Seq(Char)
  BY <1>1, FlatMapType
<1>3. Quote \in Char /\ 0 \in Nat /\ Quote # Backslash /\ <<>> \in Str /\ w \in Str
  BY EmptySeq DEF Quote, Backslash, Char, Str
<1>4. b \in Seq(Char) /\ Len(b) = 1
  BY <1>3, One
<1>5. Read(p, b) = r
  <2>1. Read(p, b) = Moved(l, <<>>, FALSE, 0, Quote, FALSE)
    BY <1>3, ReadOne
  <2>2. Moved(l, <<>>, FALSE, 0, Quote, FALSE) = r
    BY <1>3 DEF Moved
  <2>3. QED
    BY <2>1, <2>2
<1>6. Read(r, x) = s
  BY WordAdded DEF ReadWord
<1>7. Read(s, b) = t
  <2>1. Read(s, b) = Moved(l, w, TRUE, 0, Quote, FALSE)
    BY <1>3, ReadOne
  <2>2. Moved(l, w, TRUE, 0, Quote, FALSE) = t
    BY <1>3 DEF Moved
  <2>3. QED
    BY <2>1, <2>2
<1>8. p \in States /\ r \in States
  BY <1>3, StateMade
<1>9. Quoted(w) = b \o x \o b
  BY <1>1 DEF Quoted
<1> HIDE DEF b, x, p, r, s, t
<1>10. b \o x \in Seq(Char) /\ Len(b \o x) = Len(b) + Len(x) /\ b \o x \o b \in Seq(Char)
       /\ Len(b \o x \o b) = Len(b) + Len(x) + Len(b)
  <2> DEFINE y == b \o x
  <2>1. y \in Seq(Char) /\ Len(y) = Len(b) + Len(x)
    BY ONLY <1>2, <1>4, ConcatProperties
  <2> HIDE DEF y
  <2>2. y \o b \in Seq(Char) /\ Len(y \o b) = Len(y) + Len(b)
    BY ONLY <1>4, <2>1, ConcatProperties
  <2>3. QED
    BY <2>1, <2>2 DEF y
<1>11. Len(x) \in Nat
  BY <1>2, LenProperties
<1>12. b \o x \o b # <<>>
  <2>1. Len(b \o x \o b) # 0
    BY <1>4, <1>10, <1>11
  <2>2. QED
    BY <1>10, <2>1, EmptySeq
<1>13. ReadOn(p, b, x) /\ ReadOn(p, b \o x, b)
  BY <1>2, <1>4, <1>8, <1>10, ReadTwo
<1>14. Read(p, b \o x \o b) = t
  BY <1>5, <1>6, <1>7, <1>13 DEF ReadOn
<1>15. QED
  BY <1>9, <1>10, <1>12, <1>14 DEF p, t

\* A last word is one word.
LastWord(p, l, w) ==
  p \in States /\ PushWord(p).list = Append(l, w) /\ p.quoted = FALSE /\ p.literal = 0
\* Without quotes also.
LEMMA BareRead ==
  ASSUME NEW l \in Seq(Str), NEW w \in Seq(Char)
  PROVE  Bare(w) \in Seq(Char) /\ LastWord(Read(St(l, <<>>, FALSE, 0), Bare(w)), l, w)
<1>1. CASE w = <<>>
  <2> DEFINE t == St(Append(l, w), <<>>, FALSE, 0)
  <2>1. Bare(w) = Quoted(w)
    BY <1>1 DEF Bare
  <2>2. Quoted(w) \in Seq(Char) /\ Read(St(l, <<>>, FALSE, 0), Quoted(w)) = t
    BY QuotedRead
  <2>3. t \in States
    <3>1. Append(l, w) \in Seq(Str) /\ <<>> \in Str /\ 0 \in Nat
      BY EmptySeq, AppendProperties DEF Str
    <3>2. QED
      BY <3>1, StateMade
  <2>4. t.list = Append(l, w) /\ t.current = <<>> /\ t.quoted = FALSE /\ t.literal = 0
    BY DEF St
  <2> HIDE DEF t
  <2>5. PushWord(t) = t
    BY <2>4 DEF PushWord
  <2>6. QED
    BY <2>1, <2>2, <2>3, <2>4, <2>5 DEF LastWord
<1>2. CASE w # <<>>
  <2> DEFINE t == St(l, w, FALSE, 0)
             x == FlatMap(EscapedIn(Special(FALSE)), w)
  <2>1. Escaped(w, {Quote, Backslash} \cup Separators) = x /\ EscapedIn(Special(FALSE)) \in [Char -> Seq(Char)]
    BY EscapedIs DEF Special, Str
  <2>2. Bare(w) = x
    BY <1>2, <2>1 DEF Bare
  <2>3. x \in Seq(Char)
    BY <2>1, FlatMapType
  <2>4. Read(St(l, <<>>, FALSE, 0), x) = t
    BY WordAdded DEF ReadWord
  <2>5. t \in States
    BY StateMade DEF Str
  <2>6. t.list = l /\ t.current = w /\ t.quoted = FALSE /\ t.literal = 0
    BY DEF St
  <2>7. PushWord(t).list = Append(l, w)
    <3>1. PushWord(t) = Push(t)
      BY <1>2, <2>6 DEF PushWord
    <3>2. Push(t).list = Append(l, w)
      BY DEF Push, St
    <3>3. QED
      BY <3>1, <3>2
  <2> HIDE DEF t, x
  <2>8. QED
    BY <2>2, <2>3, <2>4, <2>5, <2>6, <2>7 DEF LastWord
<1>3. QED
  BY <1>1, <1>2

\* Two words in a list.
LEMMA JoinTwo ==
  ASSUME NEW a \in Seq(Char), a # <<>>, NEW b \in Seq(Char), NEW sep \in Seq(Char)
  PROVE  JoinStringList(<<a, b>>, sep) = a \o sep \o b
<1> DEFINE list == <<a, b>>
           n == Len(list)
           next(r, w) == (IF r = <<>> THEN r ELSE r \o sep) \o w
           Is(f) == f = [k \in 0..n |-> IF k = 0 THEN <<>> ELSE next(f[k - 1], list[k])]
           g == CHOOSE f : Is(f)
<1>1. JoinStringList(list, sep) = g[n]
  BY Zenon DEF JoinStringList, Scan
<1>2. n = 2 /\ list[1] = a /\ list[2] = b
  OBVIOUS
<1>3. next(<<>>, a) = a /\ next(a, b) = a \o sep \o b
  <2>1. <<>> \o a = a
    BY ConcatEmptySeq
  <2>2. QED
    BY <2>1
<1> HIDE DEF next, list
<1> DEFINE d == [k \in 0..n |-> IF k = 0 THEN <<>> ELSE IF k = 1 THEN a ELSE a \o sep \o b]
<1>4. Is(d)
  <2>1. d[0] = <<>> /\ d[1] = a /\ d[2] = a \o sep \o b
    BY <1>2
  <2>2. d = [k \in 0..n |-> d[k]]
    OBVIOUS
  <2> HIDE DEF d
  <2>3. ASSUME NEW k \in 0..n PROVE d[k] = IF k = 0 THEN <<>> ELSE next(d[k - 1], list[k])
    <3>1. k = 0 \/ k = 1 \/ k = 2
      BY <1>2
    <3>2. CASE k = 0
      BY <2>1, <3>2
    <3>3. CASE k = 1
      BY <1>2, <1>3, <2>1, <3>3
    <3>4. CASE k = 2
      <4>1. d[k] = a \o sep \o b /\ k - 1 = 1 /\ k # 0
        BY <2>1, <3>4
      <4>2. next(d[k - 1], list[k]) = a \o sep \o b
        BY <1>2, <1>3, <2>1, <3>4, <4>1
      <4>3. QED
        BY <4>1, <4>2
    <3>5. QED
      BY <3>1, <3>2, <3>3, <3>4
  <2>4. QED
    BY <2>2, <2>3
<1>5. Is(g)
  BY <1>4
<1> HIDE DEF d, g
<1>6. g[0] = <<>> /\ g[1] = next(g[0], a) /\ g[2] = next(g[1], b)
  <2>1. 0 \in 0..n /\ 1 \in 0..n /\ 2 \in 0..n /\ 1 - 1 = 0 /\ 2 - 1 = 1
    BY <1>2
  <2>2. g[0] = <<>>
    BY <1>5, <2>1
  <2>3. g[1] = next(g[0], list[1])
    BY <1>5, <2>1
  <2>4. g[2] = next(g[1], list[2])
    BY <1>5, <2>1
  <2>5. QED
    BY <1>2, <2>2, <2>3, <2>4
<1>7. QED
  BY <1>1, <1>2, <1>3, <1>6 DEF list

\* Two words one after another.
LEMMA PairByAppend ==
  ASSUME NEW S, NEW a \in S, NEW b \in S
  PROVE  Append(<<a>>, b) = <<a, b>>
<1> DEFINE x == <<a>>
<1>1. x \in Seq(S) /\ x \o <<b>> = <<a, b>>
  BY One, Pair
<1> HIDE DEF x
<1>2. Append(x, b) = x \o <<b>>
  BY ONLY <1>1, b \in S, AppendIsConcat
<1>3. QED
  BY <1>1, <1>2 DEF x

\* A list of two words is split into them.
LEMMA ListSplit ==
  ASSUME NEW v \in Seq(Char), NEW w \in Seq(Char)
  PROVE  SplitString(JoinStringList(<<Quoted(v), Bare(w)>>, <<Blank>>), TRUE) = [list |-> <<v, w>>, ok |-> TRUE]
<1> DEFINE a == Quoted(v)
           b == Bare(w)
           sep == <<Blank>>
           e == <<>>
           l == Append(e, v)
           t == St(l, <<>>, FALSE, 0)
           u == a \o sep \o b
<1>1. a \in Seq(Char) /\ a # <<>> /\ e \in Seq(Str) /\ Start = St(e, <<>>, FALSE, 0)
  BY QuotedRead, EmptySeq DEF Start
<1>2. Read(Start, a) = t
  BY <1>1, QuotedRead
<1>3. l \in Seq(Str) /\ <<>> \in Str /\ 0 \in Nat /\ Blank \in Char
  BY <1>1, AppendProperties, EmptySeq DEF Str, Blank, Char
<1>4. sep \in Seq(Char) /\ t \in States
  BY <1>3, One, StateMade
<1>5. Read(t, sep) = t
  <2>1. Blank # Backslash /\ Blank # Quote /\ Blank \in Separators
    BY DEF Blank, Backslash, Quote, Separators
  <2>2. Read(t, sep) = Moved(l, <<>>, FALSE, 0, Blank, FALSE)
    BY <1>3, ReadOne
  <2>3. Moved(l, <<>>, FALSE, 0, Blank, FALSE) = t
    BY <2>1 DEF Moved
  <2>4. QED
    BY <2>2, <2>3
<1>6. b \in Seq(Char) /\ LastWord(Read(t, b), l, w)
  BY <1>3, BareRead
<1>7. Start \in States
  BY <1>1, <1>3, StateMade
<1>8. Append(l, w) = <<v, w>>
  <2>1. l = <<v>>
    OBVIOUS
  <2> HIDE DEF l
  <2>2. QED
    BY ONLY <2>1, v \in Seq(Char), w \in Seq(Char), PairByAppend
<1> HIDE DEF a, b, sep, t, l
<1>9. a \o sep \in Seq(Char) /\ u \in Seq(Char)
  BY <1>1, <1>4, <1>6, ConcatProperties
<1>10. ReadOn(Start, a, sep) /\ ReadOn(Start, a \o sep, b)
  BY <1>1, <1>4, <1>6, <1>7, <1>9, ReadTwo
<1>11. Read(Start, u) = Read(t, b)
  BY <1>2, <1>5, <1>10 DEF ReadOn
<1>12. JoinStringList(<<a, b>>, sep) = u
  BY <1>1, <1>4, <1>6, JoinTwo
<1> HIDE DEF u
<1> DEFINE p == Fold(SplitF(FALSE), Start, u)
<1>13. SplitBy(u, TRUE, FALSE) = [list |-> PushWord(p).list, ok |-> ~p.quoted /\ p.literal = 0]
  BY <1>9, SplitIsFold DEF Str
<1>14. PushWord(p).list = Append(l, w) /\ p.quoted = FALSE /\ p.literal = 0
  BY <1>6, <1>11 DEF LastWord, Read, Narrow
<1> HIDE DEF p
<1>15. SplitString(u, TRUE) = [list |-> Append(l, w), ok |-> TRUE]
  BY <1>13, <1>14 DEF SplitString
<1>16. QED
  BY <1>8, <1>12, <1>15 DEF a, b, sep

\* The wide form without backslashes.
SameSplit(s) == Fold(SplitF(TRUE), Start, s) = Fold(SplitF(FALSE), Start, s)
\* It goes through the same states.
LEMMA WideSame ==
  ASSUME NEW s \in Seq(Char \ {Backslash})
  PROVE  SameSplit(s)
<1> DEFINE Z == Char \ {Backslash}
           P == {t \in Seq(Z) : SameSplit(t)}
           F == SplitF(TRUE)
           G == SplitF(FALSE)
<1>1. Steps(F, States, Char) /\ Steps(G, States, Char) /\ Start \in States
  BY SplitSteps
<1>2. ASSUME NEW p \in States, NEW e \in Z PROVE F[p, e] = G[p, e]
  <2> DEFINE l == p.list
             c == p.current
             q == p.quoted
             n == p.literal
  <2>1. p = St(l, c, q, n) /\ q \in BOOLEAN /\ n \in Nat /\ e \in Char /\ e # Backslash
    BY StateIs
  <2> HIDE DEF l, c, q, n
  <2>2. SplitStep(p, e, TRUE, TRUE) = Moved(l, c, q, n, e, TRUE) /\ SplitStep(p, e, TRUE, FALSE) = Moved(l, c, q, n, e, FALSE)
    BY <2>1, StepMoves, ZenonT(30)
  <2>3. Moved(l, c, q, n, e, TRUE) = Moved(l, c, q, n, e, FALSE)
    BY <2>1 DEF Moved
  <2>4. F[p, e] = SplitStep(p, e, TRUE, TRUE) /\ G[p, e] = SplitStep(p, e, TRUE, FALSE)
    BY <2>1, SplitSteps
  <2>5. QED
    BY <2>2, <2>3, <2>4
<1> HIDE DEF F, G
<1>3. <<>> \in P
  <2>1. <<>> \in Seq(Z)
    BY EmptySeq
  <2>2. Fold(F, Start, <<>>) = Start /\ Fold(G, Start, <<>>) = Start
    BY <1>1, FoldEmpty
  <2>3. QED
    BY <2>1, <2>2 DEF SameSplit, F, G
<1>4. ASSUME NEW t \in P, NEW e \in Z PROVE Append(t, e) \in P
  <2>1. t \in Seq(Z) /\ SameSplit(t)
    OBVIOUS
  <2>2. t \in Seq(Char) /\ e \in Char
    <3>1. \A i \in 1..Len(t) : t[i] \in Char
      BY <2>1, ElementOfSeq
    <3>2. QED
      BY <2>1, <3>1, ElementsIn
  <2>3. FoldsOn(F, Start, t, e, States) /\ FoldsOn(G, Start, t, e, States)
    BY <1>1, <2>2, FoldAppend
  <2>4. Fold(F, Start, t) = Fold(G, Start, t)
    BY <2>1 DEF SameSplit, F, G
  <2>5. Fold(F, Start, Append(t, e)) = Fold(G, Start, Append(t, e))
    BY <1>2, <2>3, <2>4 DEF FoldsOn
  <2>6. Append(t, e) \in Seq(Z)
    BY <2>1, AppendProperties
  <2>7. QED
    BY <2>5, <2>6 DEF SameSplit, F, G
<1>5. P \subseteq Seq(Z)
  OBVIOUS
<1> HIDE DEF P
<1>6. P = Seq(Z)
  BY <1>3, <1>4, <1>5, AppendInduction
<1>7. QED
  BY <1>6 DEF P

\* SplitString.
LEMMA SplitInverts ==
  ASSUME str \in Str
  PROVE  Split
<1>1. str \in Seq(Char) /\ Len(str) \in Nat
  BY LenProperties DEF Str
<1>2. ASSUME NEW k \in 0..Len(str), NEW v, v = SubSeq(str, 1, k), NEW w, w = TailFrom(str, k + 1)
      PROVE  SplitString(JoinStringList(<<Quoted(v), Bare(w)>>, <<Blank>>), TRUE) = [list |-> <<v, w>>, ok |-> TRUE]
  <2>1. SubSeq(str, 1, k) \in Seq(Char) /\ Suffix(str, k + 1) \in Seq(Char)
    BY <1>1, CutIsWhole
  <2>2. v \in Seq(Char) /\ w \in Seq(Char)
    BY <1>2, <2>1 DEF Suffix, TailFrom
  <2>3. QED
    BY <2>2, ListSplit
<1>3. ASSUME Backslash \notin {str[i] : i \in DOMAIN str}
      PROVE  WSplitString(str, TRUE) = SplitString(str, TRUE)
  <2>1. \A i \in 1..Len(str) : str[i] \in Char \ {Backslash}
    BY <1>1, <1>3, ElementOfSeq, LenProperties
  <2>2. str \in Seq(Char \ {Backslash})
    BY <1>1, <2>1, ElementsIn
  <2>3. Fold(SplitF(TRUE), Start, str) = Fold(SplitF(FALSE), Start, str)
    BY <2>2, WideSame DEF SameSplit
  <2>4. SplitBy(str, TRUE, TRUE) = SplitBy(str, TRUE, FALSE)
    BY <2>3, SplitIsFold
  <2>5. QED
    BY <2>4 DEF WSplitString, SplitString
<1>4. ASSUME NEW k \in 0..Len(str), NEW words, words = <<SubSeq(str, 1, k), TailFrom(str, k + 1)>>
      PROVE  SplitString(JoinStringList(<<Quoted(words[1]), Bare(words[2])>>, <<Blank>>), TRUE)
               = [list |-> words, ok |-> TRUE]
  <2>1. words[1] = SubSeq(str, 1, k) /\ words[2] = TailFrom(str, k + 1) /\ words = <<words[1], words[2]>>
    BY <1>4
  <2>2. QED
    BY <1>2, <2>1, ZenonT(30)
<1>5. QED
  BY <1>3, <1>4 DEF Split

-----------------------------------------------------------------------------
(* All codecs, in every state.                                             *)

\* The string is always one of bytes.
LEMMA AlwaysBytes == StringSpec => [](str \in Str)
<1>1. StringInit => str \in Str
  BY EmptySeq DEF StringInit, Str
<1>2. str \in Str /\ [Grow]_str => (str \in Str)'
  <2> SUFFICES ASSUME str \in Str, [Grow]_str PROVE (str \in Str)'
    OBVIOUS
  <2>1. CASE Grow
    <3>1. PICK c \in Chars : str' = Append(str, c)
      BY <2>1 DEF Grow
    <3>2. c \in Char
      BY <3>1, CharsAssumption DEF Char
    <3>3. QED
      BY <3>1, <3>2, AppendProperties DEF Str
  <2>2. CASE UNCHANGED str
    BY <2>2
  <2>3. QED
    BY <2>1, <2>2
<1>3. QED
  BY <1>1, <1>2, PTL DEF StringSpec

\* Lists of two words, base64, hexadecimal and numbers are read back as they
\* were written, for every string of bytes; and escapes for exactly those in
\* which no hexadecimal digit stands behind a control character written as \x
\* (stringutils.h and stringutils.cpp).
THEOREM CodecsAlwaysInvert == StringSpec => []CodecsInvert
<1>1. str \in Str => CodecsInvert
  <2> SUFFICES ASSUME str \in Str PROVE CodecsInvert
    OBVIOUS
  <2>1. Base64
    BY Base64Inverts DEF Base64
  <2>2. QED
    BY <2>1, SplitInverts, UnescapeInverts, HexInverts, NumbersRead DEF CodecsInvert
<1>2. QED
  BY <1>1, AlwaysBytes, PTL
=============================================================================
