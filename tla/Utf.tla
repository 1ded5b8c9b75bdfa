-------------------------------- MODULE Utf --------------------------------
(***************************************************************************)
(* The encodings of util/chariterators.h and utfcvutils.cpp.  A text is a  *)
(* sequence of code units, given by its encoding: "utf8", "utf16",         *)
(* "utf16be" (units with their bytes swapped) or "utf32".  Positions count *)
(* from 1; beyond the text is the NUL that ends it.                        *)
(***************************************************************************)
EXTENDS Integers, Sequences, SequencesExt

AutoSize == -1

IsSurrogate(c) == c \in \hd800..\hdfff
High(u) == u \in \hd800..\hdbff
Low(u) == u \in \hdc00..\hdfff
Trail(u) == u \in \h80..\hbf
Bits(c, from, n) == (c \div 2^from) % 2^n
Swap(u) == Bits(u, 0, 8) * 256 + Bits(u, 8, 8)
At(s, i) == IF i <= Len(s) THEN s[i] ELSE 0

\* The units of one code point, as the insert iterators and the conversions write them
Utf8(c) ==
  LET head(lead, n) == <<(lead + (c \div 2^(6 * n))) % 256>>
      tail(n) == [k \in 1..n |-> \h80 + Bits(c, 6 * (n - k), 6)]
  IN CASE c < \h80 -> <<c>>
       [] c \in \h80..\h7ff -> head(\hc0, 1) \o tail(1)
       [] c \in \h800..\hffff -> head(\he0, 2) \o tail(2)
       [] OTHER -> head(\hf0, 3) \o tail(3)
Utf16(c) ==
  IF c < \h10000 THEN <<c>> ELSE <<\hd800 + ((c - \h10000) \div 1024), \hdc00 + (c % 1024)>>
Encode(e, c) == CASE e = "utf8" -> Utf8(c) [] e = "utf16" -> Utf16(c) [] e = "utf32" -> <<c>>
UnitSize(e) == CASE e = "utf8" -> 1 [] e = "utf16" -> 2 [] e = "utf32" -> 4

\* The insert iterators ignore what is no code point; that of utf32 takes anything.
Invalid(c) == IsSurrogate(c) \/ c >= \h110000
Insert8(s, c) == IF Invalid(c) THEN s ELSE s \o Utf8(c)
Insert16(s, c) == IF Invalid(c) THEN s ELSE s \o Utf16(c)
Insert32(s, c) == Append(s, c)
Insert(e, s, c) ==
  CASE e = "utf8" -> Insert8(s, c) [] e = "utf16" -> Insert16(s, c) [] e = "utf32" -> Insert32(s, c)
-----------------------------------------------------------------------------
(* The iterators: *it, ++, --, += and the distance of two of them.         *)

\* how many units come after the first one
Follow8(u) == IF u >= \hf0 THEN 3 ELSE IF u >= \he0 THEN 2 ELSE IF u >= \hc0 THEN 1 ELSE 0
Follow16(u) == IF High(u) THEN 1 ELSE 0
Join16(b0, b1) == (b0 % 1024) * 1024 + (b1 % 1024) + \h10000

\* utf8iterator
Deref8(s, i) ==
  LET n == Follow8(s[i])
      head == IF n = 0 THEN s[i] ELSE s[i] % 2^(6 - n)
  IN IF Trail(s[i]) THEN 0
     ELSE FoldLeft(LAMBDA v, b : v * 64 + (b % 64), head, SubSeq(s, i + 1, i + n))
Forward8(s, i) == i + 1 + Follow8(s[i])
Back8(s, i) == CHOOSE j \in 1..(i - 1) : ~Trail(s[j]) /\ \A k \in (j + 1)..(i - 1) : Trail(s[k])

\* utf16iterator
Deref16(s, i) == IF High(s[i]) THEN Join16(s[i], s[i + 1]) ELSE s[i]
Forward16(s, i) == i + 1 + Follow16(s[i])
Back16(s, i) == IF Low(s[i - 1]) THEN i - 2 ELSE i - 1

\* utf16beiterator: getbe16 swaps every unit it looks at
getbe16(s) == [k \in DOMAIN s |-> Swap(s[k])]
Deref16be(s, i) == Deref16(getbe16(s), i)
Forward16be(s, i) == Forward16(getbe16(s), i)
Back16beUnswapped(s, i) == Back16(s, i)  \* mutant: looks at the unit as it is stored
Back16be(s, i) == Back16(getbe16(s), i)

Deref(e, s, i) ==
  CASE e = "utf8" -> Deref8(s, i) [] e = "utf16" -> Deref16(s, i)
    [] e = "utf16be" -> Deref16be(s, i) [] e = "utf32" -> s[i]

\* it += n and the distance of two iterators, step by step
Walk(s, i, n, Fwd(_, _), Bwd(_, _)) ==
  LET f[k \in 0..Max({n, -n})] ==
        IF k = 0 THEN i ELSE IF n > 0 THEN Fwd(s, f[k - 1]) ELSE Bwd(s, f[k - 1])
  IN f[Max({n, -n})]
Steps(s, i, j, Fwd(_, _)) ==
  LET f[k \in i..j] == IF k = j THEN 0 ELSE 1 + f[Fwd(s, k)] IN f[i]

Plus8(s, i, n) == Walk(s, i, n, Forward8, Back8)
Plus16(s, i, n) == Walk(s, i, n, Forward16, Back16)
Plus16be(s, i, n) == Walk(s, i, n, Forward16be, Back16be)
Plus32(s, i, n) == i + n
Plus(e, s, i, n) ==
  CASE e = "utf8" -> Plus8(s, i, n) [] e = "utf16" -> Plus16(s, i, n)
    [] e = "utf16be" -> Plus16be(s, i, n) [] e = "utf32" -> Plus32(s, i, n)

\* j - i, for i <= j
Minus8(s, j, i) == Steps(s, i, j, Forward8)
Minus16(s, j, i) == Steps(s, i, j, Forward16)
Minus16be(s, j, i) == Steps(s, i, j, Forward16be)
Distance(e, s, j, i) ==
  CASE e = "utf8" -> Minus8(s, j, i) [] e = "utf16" -> Minus16(s, j, i)
    [] e = "utf16be" -> Minus16be(s, j, i) [] e = "utf32" -> j - i
-----------------------------------------------------------------------------
(* getutf8, getutf16: a code point and what follows it, 0 for NULL.        *)

NULL == [val |-> 0, next |-> 0]
getutf8(s, i) ==
  LET n == Follow8(s[i]) IN
  IF Trail(s[i]) \/ \E k \in 1..n : ~Trail(At(s, i + k)) THEN NULL
  ELSE [val |-> Deref8(s, i), next |-> i + 1 + n]
getutf16(s, i) ==
  IF Low(s[i]) \/ (High(s[i]) /\ ~Low(At(s, i + 1))) THEN NULL
  ELSE [val |-> Deref16(s, i), next |-> Forward16(s, i)]
get32(s, i) == [val |-> s[i], next |-> i + 1]

Compare(l, r, get(_, _)) ==
  LET f[i \in 1..Len(l) + 1, j \in 1..Len(r) + 1] ==
        IF i > Len(l) \/ j > Len(r) THEN 0
        ELSE LET a == get(l, i)
                 b == get(r, j)
             IN CASE a.next = 0 \/ b.next = 0 -> 0
                  [] a.next # 0 /\ b.next # 0 /\ a.val < b.val -> -1
                  [] a.next # 0 /\ b.next # 0 /\ a.val > b.val -> 1
                  [] OTHER -> f[a.next, b.next]
  IN f[1, 1]
utf8stringcompare(l, r) == Compare(l, r, getutf8)
utf16stringcompare(l, r) == Compare(l, r, getutf16)
\* takes pointers to utf8char_t: it compares bytes, whatever its name says
utf32stringcompare(l, r) == Compare(l, r, get32)

\* every code point is one that get accepts, and Allowed
Valid(s, get(_, _), Allowed(_)) ==
  LET f[i \in 1..Len(s) + 1] ==
        i > Len(s) \/ (Allowed(s[i]) /\ get(s, i).next # 0 /\ f[get(s, i).next])
  IN f[1]
utf8validator(s) == Valid(s, getutf8, LAMBDA u : u < \hf8)
utf16validator(s) == Valid(s, getutf16, LAMBDA u : TRUE)
utf32validator(s) == Valid(s, get32, LAMBDA u : ~IsSurrogate(u))
-----------------------------------------------------------------------------
(* The conversions, as one step per unit read: the state keeps the value   *)
(* so far and how many units it waits for (-1: none).                      *)

Emit(d, v) == [d EXCEPT !.emit = <<v>>]
Stop(d) == [d EXCEPT !.stop = TRUE]

Take8(d, c) ==
  LET w == d.w * 64 + (c % 64)
      n == Follow8(c)
  IN CASE c < \h80 -> Emit(d, c)
       [] Trail(c) /\ (d.n < 0 \/ (d.n = 0 /\ Invalid(w))) -> Stop(d)
       [] Trail(c) /\ d.n = 0 /\ ~Invalid(w) -> Emit([d EXCEPT !.w = w, !.n = -1], w)
       [] Trail(c) /\ d.n > 0 -> [d EXCEPT !.w = w, !.n = @ - 1]
       [] c >= \hc0 -> [d EXCEPT !.w = c % 2^(6 - n), !.n = n - 1]

\* A character between the halves is passed on; towards utf8 it also spoils the first half.
Take16(to, d, c) ==
  LET v == d.w * 1024 + (c % 1024) + \h10000 IN
  CASE ~IsSurrogate(c) -> Emit([d EXCEPT !.w = IF to = "utf8" THEN c ELSE @], c)
    [] High(c) -> IF d.n # -1 THEN Stop(d) ELSE [d EXCEPT !.w = c % 1024, !.n = 0]
    [] Low(c) -> IF d.n # 0 THEN Stop(d) ELSE Emit([d EXCEPT !.w = v, !.n = -1], v)

Take32(to, d, c) ==
  IF IsSurrogate(c) \/ c > \h110000 \/ (c = \h110000 /\ to = "utf8") THEN Stop(d) ELSE Emit(d, c)

Take(from, to, d, c) ==
  CASE from = "utf8" -> Take8(d, c)
    [] from = "utf16" -> Take16(to, d, c)
    [] from = "utf32" -> Take32(to, d, c)

\* out and the NUL fit
Fits(out, maxsize) == maxsize = AutoSize \/ Len(out) < maxsize

FullOnlyUnit(old, new, maxsize) == ~Fits(Append(old, 0), maxsize)  \* mutant: forgets long characters
Full(old, new, maxsize) == ~Fits(Append(old, 0), maxsize) \/ ~Fits(new, maxsize)

\* A conversion: what is written, without the NUL, and the units used
Convert(from, to, s, maxsize) ==
  LET start == [d |-> [n |-> -1, w |-> 0, emit |-> <<>>, stop |-> FALSE], out |-> <<>>, used |-> 0]
      f[k \in 0..Len(s)] ==
        IF k = 0 THEN start
        ELSE LET p == f[k - 1]
                 d == Take(from, to, [p.d EXCEPT !.emit = <<>>], s[k])
                 out == IF d.emit = <<>> THEN p.out ELSE p.out \o Encode(to, d.emit[1])
             IN IF p.d.stop \/ d.stop \/ Full(p.out, out, maxsize) THEN [p EXCEPT !.d.stop = TRUE]
                ELSE [d |-> d, out |-> out, used |-> k]
  IN f[Len(s)]

utf8toutf32(s, maxsize) == Convert("utf8", "utf32", s, maxsize)
utf32toutf8(s, maxsize) == Convert("utf32", "utf8", s, maxsize)
utf16toutf32(s, maxsize) == Convert("utf16", "utf32", s, maxsize)
utf32toutf16(s, maxsize) == Convert("utf32", "utf16", s, maxsize)
utf8toutf16(s, maxsize) == Convert("utf8", "utf16", s, maxsize)
utf16toutf8(s, maxsize) == Convert("utf16", "utf8", s, maxsize)
Converted(from, to, s, maxsize) ==
  CASE from = "utf8" /\ to = "utf32" -> utf8toutf32(s, maxsize)
    [] from = "utf32" /\ to = "utf8" -> utf32toutf8(s, maxsize)
    [] from = "utf16" /\ to = "utf32" -> utf16toutf32(s, maxsize)
    [] from = "utf32" /\ to = "utf16" -> utf32toutf16(s, maxsize)
    [] from = "utf8" /\ to = "utf16" -> utf8toutf16(s, maxsize)
    [] from = "utf16" /\ to = "utf8" -> utf16toutf8(s, maxsize)

utf8charcount(s) == Len(SelectSeq(s, LAMBDA u : ~Trail(u)))
utf16charcount(s) == Len(SelectSeq(s, LAMBDA u : ~Low(u)))
charcount(e, s) ==
  CASE e = "utf8" -> utf8charcount(s) [] e = "utf16" -> utf16charcount(s) [] e = "utf32" -> Len(s)

\* utf8toutf16bytesneeded and the others, without the NUL
SumUnits(s, W(_)) == FoldLeft(LAMBDA a, u : a + W(u), 0, s)
utf8toutf16bytesneeded(s) == 2 * (utf8charcount(s) + Len(SelectSeq(s, LAMBDA u : u >= \hf0)))
utf32toutf16bytesneeded(s) == 2 * (Len(s) + Len(SelectSeq(s, LAMBDA u : u >= \h10000)))
utf32toutf8bytesneeded(s) == SumUnits(s, LAMBDA u : Len(Utf8(u)))
utf16toutf8bytesneeded(s) == SumUnits(s, LAMBDA u : IF High(u) THEN 0 ELSE IF Low(u) THEN 4 ELSE Len(Utf8(u)))
bytesneeded(from, to, s) ==
  CASE to = "utf32" -> charcount(from, s) * 4
    [] to = "utf16" /\ from = "utf8" -> utf8toutf16bytesneeded(s)
    [] to = "utf16" /\ from = "utf32" -> utf32toutf16bytesneeded(s)
    [] to = "utf8" /\ from = "utf16" -> utf16toutf8bytesneeded(s)
    [] to = "utf8" /\ from = "utf32" -> utf32toutf8bytesneeded(s)
=============================================================================
