----------------------------- MODULE StringText -----------------------------
(***************************************************************************)
(* A string of bytes that grows, and what the functions of StringTools and *)
(* DumpTools make of it.                                                   *)
(***************************************************************************)
EXTENDS DumpTools

CONSTANTS
  Chars,     \* the bytes
  MaxLength  \* bound

ASSUME CharsAssumption == Chars \subseteq 0..255

VARIABLE str

StringInit == str = <<>>
Grow == Len(str) < MaxLength /\ \E c \in Chars : str' = Append(str, c)
StringSpec == StringInit /\ [][Grow]_str
-----------------------------------------------------------------------------
(* Properties. *)

\* As a user has to write a word for SplitString: in quotes, or without and
\* then not empty
Escaped(w, special) ==
  FlattenSeq([k \in DOMAIN w |-> IF w[k] \in special THEN <<Backslash, w[k]>> ELSE <<w[k]>>])
Quoted(w) == <<Quote>> \o Escaped(w, {Quote, Backslash}) \o <<Quote>>
Bare(w) == IF w = <<>> THEN Quoted(w) ELSE Escaped(w, {Quote, Backslash} \cup Separators)

Split ==
  \A k \in 0..Len(str) :
    LET words == <<SubSeq(str, 1, k), TailFrom(str, k + 1)>> IN
    /\ SplitString(JoinStringList(<<Quoted(words[1]), Bare(words[2])>>, <<Blank>>), TRUE)
         = [list |-> words, ok |-> TRUE]
    /\ Backslash \notin {str[i] : i \in DOMAIN str} =>
         WSplitString(str, TRUE) = SplitString(str, TRUE)

\* What is not read back are exactly the strings with a hexadecimal digit behind
\* a control character that is written as \x: it takes both.
Unescape ==
  cstrunescape(cstrescape(str)) = str <=>
    \A k \in 1..Len(str) - 1 : str[k] < Blank /\ ~(\E e \in Written : e[2] = str[k]) => ~Digit(str[k + 1], 16)

Base64 == base64_decode(base64_encode(str)) = str /\ Len(base64_encode(str)) % 4 = 0

Hexadecimal ==
  /\ \A sep \in {Blank, 58} : hex2binary(hexstring(str, sep), 1) = str
  /\ hex2binary(binary2hex(str), 1) = str
  /\ \A u \in {1, 2} :  \* a word is written with its high byte first
       hex2binary(FlattenSeq([k \in DOMAIN hexdumpunits(str, u) |->
                    <<Blank>> \o HexDigitsOf(hexdumpunits(str, u)[k])]), u)
         = [k \in 1..Len(str) \div u |-> IF u = 1 THEN str[k] ELSE str[2 * k - 1] + 256 * str[2 * k]]

\* the number of the first two bytes, written in a base
Value == IF Len(str) < 2 THEN 0 ELSE str[1] * 256 + str[2]
Digits(n, base) ==
  LET f[v \in 0..n] == IF v < base THEN <<nyble2hexchar(v)>> ELSE Append(f[v \div base], nyble2hexchar(v % base))
  IN f[n]
Prefix(base) == CASE base = 16 -> <<48, 120>> [] base = 2 -> <<48, 98>> [] base = 8 -> <<48>> [] OTHER -> <<>>
Numbers ==
  Len(str) <= 2 =>
    \A base \in {2, 8, 10, 16} :
      LET digits == Digits(Value, base)
          end == Len(digits) + 1
          more == digits \o <<Blank, 49>>
      IN /\ parseuint(<<Blank, 9>> \o more, base) = Value
         /\ parseint(<<Blank, Minus>> \o more, base) = [val |-> -Value, end |-> end + 2]
         /\ parseunsigned(more, base) = [val |-> Value, end |-> end]
         /\ Value # 0 => /\ parseunsigned(Prefix(base) \o more, 0) = [val |-> Value, end |-> end + Len(Prefix(base))]
                         /\ parsesigned(<<Minus>> \o Prefix(base) \o more, 0)
                              = [val |-> -Value, end |-> end + 1 + Len(Prefix(base))]

\* Lists of words, base64, hexadecimal and numbers are read back as they were
\* written, whatever the bytes, and escapes where they can be.
CodecsInvert == Split /\ Unescape /\ Base64 /\ Hexadecimal /\ Numbers

\* The lines of a hexadecimal dump, in order, are the data, and all as wide
\* (with units of 8 bytes, one that is not complete lacks its columns).
HexLines ==
  \A u \in {1, 2, 4, 8}, n \in 1..2 :
    LET lines == hexdump(0, str, u, n) IN
    /\ FlattenSeq([k \in DOMAIN lines |-> lines[k].text]) = asciidump(str)
    /\ FlattenSeq([k \in DOMAIN lines |-> FlattenSeq([j \in DOMAIN lines[k].units |-> Reverse(lines[k].units[j])])])
         = SubSeq(str, 1, (Len(str) \div u) * u)
    /\ \A k \in DOMAIN lines : lines[k].offset = (k - 1) * u * n
    /\ u < 8 => \A k \in DOMAIN lines : lines[k].columns = lines[1].columns

\* what a reader takes a summarised dump for
ExpandLines(out) ==
  LET f[k \in 0..Len(out)] ==
        IF k = 0 THEN <<>>
        ELSE IF out[k].kind = "repeat" THEN f[k - 1] \o [j \in 1..out[k].count |-> Last(f[k - 1])]
        ELSE Append(f[k - 1], out[k].line)
  IN f[Len(out)]
Summary ==
  \A u \in {1, 2}, n \in 1..2 :
    LET out == bighexdump(str, u, n)
        plain == [k \in DOMAIN Chunks(str, u * n) |-> hexdumpunit(Chunks(str, u * n)[k], u)]
    IN /\ SelectSeq(ExpandLines(out), LAMBDA l : l # <<>>) = plain
       /\ \A k \in DOMAIN out : out[k].kind = "line" =>
            out[k].offset = (IF out[k].line = <<>> THEN Len(str) ELSE Len(ExpandLines(SubSeq(out, 1, k - 1))) * u * n)

ExpandItems(items) ==
  LET f[k \in 0..Len(items)] ==
        IF k = 0 THEN <<>>
        ELSE IF items[k].kind = "run" THEN f[k - 1] \o [j \in 1..items[k].val - 3 |-> Last(f[k - 1])]
        ELSE Append(f[k - 1], items[k].val)
  IN f[Len(items)]
Strings ==
  /\ ExpandItems(ascdump(str, {10})) = str
  /\ LET lines == DumpLines(str, dumpstrings) IN
       FlattenSeq([k \in DOMAIN lines |-> ExpandItems(lines[k].items)]) = str
  /\ LET lines == DumpLines(str, dumpraw) IN
       FlattenSeq([k \in DOMAIN lines |-> lines[k].text \o [j \in 1..lines[k].used - Len(lines[k].text) |-> 0]]) = str

\* A dump shows all of the data ("exact representation of data",
\* stringutils.h:476), also where it counts the bytes of a run or lines that
\* are the same, and every line at its offset.
DumpsExpand == HexLines /\ Summary /\ Strings
=============================================================================
