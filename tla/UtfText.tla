------------------------------ MODULE UtfText ------------------------------
(***************************************************************************)
(* A text that is written with the insert iterator of its encoding, and to *)
(* which somebody else may append a unit on its own.  At any time it may   *)
(* be walked over, converted, counted, validated or compared.              *)
(***************************************************************************)
EXTENDS Utf, FiniteSets

CONSTANTS
  Points,    \* values given to the insert iterator
  Units,     \* units appended on their own, by encoding
  MaxPoints  \* bound on the length of a text

VARIABLES
  encoding,
  text,      \* its units
  points,    \* history: its code points
  broken     \* history: it may be no encoded text any more

vars == <<encoding, text, points, broken>>

Init ==
  /\ encoding \in {"utf8", "utf16", "utf32"}
  /\ text = <<>> /\ points = <<>> /\ broken = FALSE

\* it = c for an insert iterator; there is none for utf16be
Put(c) ==
  /\ ~broken /\ Len(points) < MaxPoints /\ encoding # "utf16be"
  /\ text' = Insert(encoding, text, c)
  /\ points' = IF Invalid(c) THEN points ELSE Append(points, c)
  /\ broken' = (Invalid(c) /\ encoding = "utf32")
  /\ UNCHANGED encoding

PutUnit(u) ==
  /\ Len(text) < 2 * MaxPoints /\ encoding # "utf16be"
  /\ text' = Append(text, u) /\ broken' = TRUE
  /\ UNCHANGED <<encoding, points>>

\* The text as it comes from a machine of the other byte order
SwapBytes ==
  /\ encoding = "utf16" /\ ~broken
  /\ encoding' = "utf16be" /\ text' = [k \in DOMAIN text |-> Swap(text[k])]
  /\ UNCHANGED <<points, broken>>

Next ==
  \/ \E c \in Points : Put(c)
  \/ \E u \in Units[encoding] : PutUnit(u)
  \/ SwapBytes

Spec == Init /\ [][Next]_vars
-----------------------------------------------------------------------------
(* Properties. *)

EncodeAll(e, s) == FlattenSeq([k \in DOMAIN s |-> Encode(e, s[k])])
\* where the k-th code point of the text starts
Start(k) == 1 + Len(EncodeAll(IF encoding = "utf16be" THEN "utf16" ELSE encoding, SubSeq(points, 1, k - 1)))
Sign(a, b) == IF a < b THEN -1 ELSE IF a > b THEN 1 ELSE 0

\* From every code point the iterators (chariterators.h) reach every other
\* one in as many steps as lie between, see its value, and measure the
\* distance.
IteratorWalksPoints ==
  ~broken =>
    \A k \in 1..Len(points) + 1 :
      /\ k <= Len(points) => Deref(encoding, text, Start(k)) = points[k]
      /\ \A j \in 1..Len(points) + 1 : Plus(encoding, text, Start(k), j - k) = Start(j)
      /\ \A j \in 1..k : Distance(encoding, text, Start(k), Start(j)) = k - j

\* A text of code points converts to the same text in every encoding, which
\* takes exactly the bytes that bytesneeded() counted; the validators accept
\* it, and it compares as its code points do.  A conversion returns how many
\* units it used: what utfcvutils.h:15 says ("the nr of 'X' used"), while
\* utfcvutils.cpp:40 says "nr of code points used", which holds only where
\* each is one unit.
ConversionExact ==
  ~broken /\ encoding # "utf16be" =>
    /\ CASE encoding = "utf8" -> utf8validator(text) [] encoding = "utf16" -> utf16validator(text)
         [] encoding = "utf32" -> utf32validator(text)
    /\ charcount(encoding, text) = Len(points)
    /\ \A to \in {"utf8", "utf16", "utf32"} \ {encoding} :
         LET r == Converted(encoding, to, text, AutoSize) IN
         /\ r.out = EncodeAll(to, points) /\ r.used = Len(text)
         /\ bytesneeded(encoding, to, text) = UnitSize(to) * Len(r.out)
    /\ \A k \in 1..Len(points), c \in {x \in Points : ~Invalid(x)} :
         LET other == EncodeAll(encoding, [points EXCEPT ![k] = c]) IN
         /\ encoding = "utf8" => \A compare \in {utf8stringcompare(text, other), utf32stringcompare(text, other)} :
                                   compare = Sign(points[k], c)
         /\ encoding = "utf16" => utf16stringcompare(text, other) = Sign(points[k], c)

\* Every unit of s belongs to a code point.
OnlyPoints(e, s) ==
  LET get(i) == CASE e = "utf8" -> getutf8(s, i) [] e = "utf16" -> getutf16(s, i) [] e = "utf32" -> get32(s, i)
      f[i \in 1..Len(s) + 1] == i > Len(s) \/ (get(i).next # 0 /\ ~Invalid(get(i).val) /\ f[get(i).next])
  IN f[1]

\* A low surrogate follows its high one, but not at once.
SplitPair(s) ==
  \E i, j \in DOMAIN s : i + 1 < j /\ High(s[i]) /\ Low(s[j]) /\ \A k \in (i + 1)..(j - 1) : ~IsSurrogate(s[k])

\* Whatever the text, a conversion stays within its buffer, what it writes is
\* how the whole conversion begins, and it writes nothing but code points;
\* only that utf32toutf16 takes \h110000 for one (utfcvutils.cpp:263) and
\* utf16toutf8 loses the half before a split pair.  Of a proper text it writes
\* as many whole code points as fit and uses their units; only between utf8
\* and utf16 it may also use up some of the next one.
ConversionFits ==
  encoding # "utf16be" =>
    \A to \in {"utf8", "utf16", "utf32"} \ {encoding}, room \in 1..2 * MaxPoints :
      LET r == Converted(encoding, to, text, room)
          whole(n) == EncodeAll(to, SubSeq(points, 1, n))
          n == CHOOSE i \in 0..Len(points) :
                 Len(whole(i)) < room /\ (i < Len(points) => Len(whole(i + 1)) >= room)
      IN /\ Len(r.out) < room
         /\ r.out = SubSeq(Converted(encoding, to, text, AutoSize).out, 1, Len(r.out))
         /\ \/ OnlyPoints(to, r.out)
            \/ encoding = "utf32" /\ to = "utf16" /\ \E k \in DOMAIN text : text[k] = \h110000
            \/ encoding = "utf16" /\ to = "utf8" /\ SplitPair(text)
         /\ ~broken => /\ r.out = whole(n)
                       /\ IF n = Len(points) \/ "utf32" \in {encoding, to} THEN r.used = Start(n + 1) - 1
                          ELSE r.used \in Start(n + 1) - 1..Start(n + 2) - 2

\* The conversions of utfcvutils.cpp are right: see the two parts.
ConversionsRight == ConversionExact /\ ConversionFits
=============================================================================
