----------------------------- MODULE StringTools -----------------------------
(***************************************************************************)
(* stringutils.h and stringutils.cpp: strings to lists and back, escapes,  *)
(* numbers, base64 and hexadecimal digits.  A string is a sequence of      *)
(* character codes.                                                        *)
(***************************************************************************)
EXTENDS Lists

Blank == 32
Quote == 34
Minus == 45
Backslash == 92
isspace(c) == c \in 9..13 \cup {Blank}
TailFrom(s, i) == SubSeq(s, i, Len(s))
-----------------------------------------------------------------------------
(* SplitString: `literal` counts the characters that are taken as they are *)
(* after a backslash.                                                      *)

Separators == {Blank, 9}
Push(p) == [p EXCEPT !.list = Append(@, p.current), !.current = <<>>]
PushWord(p) == IF p.current = <<>> THEN p ELSE Push(p)

\* The wide form lacks a break after a backslash within quotes: it takes the
\* next character, and the one after that as well.
SplitStep(p, c, escapes, wide) ==
  CASE p.literal > 0 -> [p EXCEPT !.current = Append(@, c), !.literal = @ - 1]
    [] p.literal = 0 /\ c = Backslash /\ escapes -> [p EXCEPT !.literal = IF p.quoted /\ wide THEN 2 ELSE 1]
    [] p.literal = 0 /\ c = Quote -> [IF p.quoted THEN Push(p) ELSE p EXCEPT !.quoted = ~@]
    [] p.literal = 0 /\ ~p.quoted /\ c \in Separators -> PushWord(p)
    [] OTHER -> [p EXCEPT !.current = Append(@, c)]

SplitBy(s, escapes, wide) ==
  LET step(p, c) == SplitStep(p, c, escapes, wide)
      end == Scan(step, [list |-> <<>>, current |-> <<>>, quoted |-> FALSE, literal |-> 0], s)
  IN [list |-> PushWord(end).list, ok |-> ~end.quoted /\ end.literal = 0]
SplitString(s, escapes) == SplitBy(s, escapes, FALSE)
WSplitString(s, escapes) == SplitBy(s, escapes, TRUE)

\* there is no separator while there is nothing before it
JoinStringList(list, sep) == Scan(LAMBDA r, w : (IF r = <<>> THEN r ELSE r \o sep) \o w, <<>>, list)
-----------------------------------------------------------------------------
char2nyble(c) ==
  CASE c \in 48..57 -> c - 48 [] c \in 65..90 -> c - 55 [] c \in 97..122 -> c - 87 [] OTHER -> -1
nyble2hexchar(n) == IF n < 10 THEN 48 + n ELSE 87 + n
Digit(c, base) == char2nyble(c) \in 0..base - 1

\* the first place from i on where there is no digit
DigitsEnd(s, i, base) ==
  CHOOSE j \in i..Len(s) + 1 : (j <= Len(s) => ~Digit(s[j], base)) /\ \A k \in i..(j - 1) : Digit(s[k], base)
Positional(digits, base) == Scan(LAMBDA v, d : v * base + d, 0, digits)
Number(s, base) == Positional([k \in DOMAIN s |-> char2nyble(s[k])], base)

SkipSpace(s) == CHOOSE i \in 1..Len(s) + 1 : (i <= Len(s) => ~isspace(s[i])) /\ \A k \in 1..(i - 1) : isspace(s[k])

\* A parsed number and where it ends; the start when there is none.
parseuint(s, base) == Number(SubSeq(s, SkipSpace(s), DigitsEnd(s, SkipSpace(s), base) - 1), base)
parseint(s, base) ==
  LET i == SkipSpace(s)
      negative == i <= Len(s) /\ s[i] = Minus
      from == IF negative THEN i + 1 ELSE i
      end == DigitsEnd(s, from, base)
      n == Number(SubSeq(s, from, end - 1), base)
  IN [val |-> IF negative THEN -n ELSE n, end |-> end]

\* What a character after a leading 0 says of the base: nothing (0), or that
\* there is no number (-1).
BaseOf(c) ==
  CASE c = 120 -> 16 [] c = 98 -> 2 [] Digit(c, 8) -> 8 [] char2nyble(c) >= 8 /\ c \notin {98, 120} -> -1 [] OTHER -> 0
BaseMark(s) == CHOOSE i \in 2..Max({2, Len(s) + 1}) :
                 (i <= Len(s) => BaseOf(s[i]) # 0) /\ \A k \in 2..(i - 1) : BaseOf(s[k]) = 0

\* With base 0 the first characters tell it.  After a leading 0, what is
\* neither a digit nor x nor b is passed over.
NumberAt(s, i, b) == [val |-> Number(SubSeq(s, i, DigitsEnd(s, i, b) - 1), b), end |-> DigitsEnd(s, i, b)]
parseunsigned(s, base) ==
  LET nothing == [val |-> 0, end |-> 1]
      first == char2nyble(IF s = <<>> THEN 48 ELSE s[1])
      mark == BaseMark(s)
  IN CASE base # 0 -> NumberAt(s, 1, base)
       [] base = 0 /\ (first < 0 \/ first > 9) -> nothing
       [] base = 0 /\ first \in 1..9 -> NumberAt(s, 1, 10)
       [] base = 0 /\ first = 0 /\ mark > Len(s) -> [val |-> 0, end |-> Len(s) + 1]
       [] OTHER -> LET b == BaseOf(s[mark]) IN
                   IF b = -1 THEN nothing ELSE NumberAt(s, IF b = 8 THEN mark ELSE mark + 1, b)

parsesigned(s, base) ==
  LET from == IF s[1] = Minus THEN 2 ELSE 1
      r == parseunsigned(TailFrom(s, from), base)
  IN IF r.end = 1 THEN [val |-> 0, end |-> 1]
     ELSE [val |-> IF from = 2 THEN -r.val ELSE r.val, end |-> r.end + from - 1]
-----------------------------------------------------------------------------
(* cstrescape and cstrunescape.                                            *)

Escapes == {<<97, 7>>, <<98, 8>>, <<116, 9>>, <<110, 10>>, <<118, 11>>, <<102, 12>>, <<114, 13>>}
Written == {<<110, 10>>, <<114, 13>>, <<116, 9>>, <<Quote, Quote>>, <<Backslash, Backslash>>}
EscapeOf(c) == (CHOOSE e \in Escapes : e[1] = c)[2]
HexPair(b) == <<nyble2hexchar(b \div 16), nyble2hexchar(b % 16)>>

cstrescape(s) ==
  LET esc(c) ==
        IF \E e \in Written : e[2] = c THEN <<Backslash, (CHOOSE e \in Written : e[2] = c)[1]>>
        ELSE IF c < Blank THEN <<Backslash, 120>> \o HexPair(c) ELSE <<c>>
  IN FlattenSeq([k \in DOMAIN s |-> esc(s[k])])

\* What t begins with, and how many characters it takes: \x takes every
\* hexadecimal digit that follows; three octal digits also take what comes
\* after them.
FirstOf(t) ==
  LET first(c, n) == [out |-> <<c>>, used |-> n]
      hex == DigitsEnd(t, 3, 16)
      octal == Min({DigitsEnd(t, 2, 8), 5})
  IN CASE t[1] # Backslash -> first(t[1], 1)
       [] t = <<Backslash>> -> [out |-> <<>>, used |-> 1]
       [] OTHER ->
            CASE \E e \in Escapes : e[1] = t[2] -> first(EscapeOf(t[2]), 2)
              [] t[2] = 120 -> first(Number(SubSeq(t, 3, hex - 1), 16) % 256, hex - 1)
              [] t[2] \in 48..50 -> first(Number(SubSeq(t, 2, octal - 1), 8) % 256,
                                          IF octal = 5 THEN Min({5, Len(t)}) ELSE octal - 1)
              [] OTHER -> first(t[2], 2)
cstrunescape(s) ==
  LET f[i \in 1..Len(s) + 1] ==
        IF i > Len(s) THEN <<>> ELSE LET p == FirstOf(TailFrom(s, i)) IN p.out \o f[i + p.used]
  IN f[1]
-----------------------------------------------------------------------------
(* base64: a character is its number, 64 is =.                             *)

Chunks(s, n) == [k \in 1..(Len(s) + n - 1) \div n |-> SubSeq(s, (k - 1) * n + 1, Min({k * n, Len(s)}))]

base64_encode_chunk(c) ==
  LET at(i) == IF i <= Len(c) THEN c[i] ELSE 0 IN
  <<at(1) \div 4, (at(1) % 4) * 16 + (at(2) \div 16),
    IF Len(c) < 2 THEN 64 ELSE (at(2) % 16) * 4 + (at(3) \div 64),
    IF Len(c) < 3 THEN 64 ELSE at(3) % 64>>
base64_encode(s) == FlattenSeq([k \in DOMAIN Chunks(s, 3) |-> base64_encode_chunk(Chunks(s, 3)[k])])

\* anything above 64 is skipped, a = ends the text
base64_decodePadded(s) ==  \* mutant: bytes of a short chunk are not dropped
  LET digits == Filter(s, LAMBDA c : c < 64)
      value(c) == Positional(c \o [k \in 1..(4 - Len(c)) |-> 0], 64)
      bytes(c) == <<value(c) \div 65536, (value(c) \div 256) % 256, value(c) % 256>>
  IN FlattenSeq([k \in DOMAIN Chunks(digits, 4) |-> bytes(Chunks(digits, 4)[k])])
base64_decode(s) ==
  LET end == CHOOSE n \in 0..Len(s) : (n < Len(s) => s[n + 1] = 64) /\ \A k \in 1..n : s[k] # 64
      digits == Filter(SubSeq(s, 1, end), LAMBDA c : c < 64)
      value(c) == Positional(c \o [k \in 1..(4 - Len(c)) |-> 0], 64)
      bytes(c) == <<value(c) \div 65536, (value(c) \div 256) % 256, value(c) % 256>>
  IN FlattenSeq([k \in DOMAIN Chunks(digits, 4) |->
                   SubSeq(bytes(Chunks(digits, 4)[k]), 1, Len(Chunks(digits, 4)[k]) - 1)])
-----------------------------------------------------------------------------
HexDigitsOf(s) == FlattenSeq([k \in DOMAIN s |-> HexPair(s[k])])
\* hash_as_string and hexstring without a separator; binary2hex leaves a NUL for every byte
hexstring(s, sep) == SubSeq(FlattenSeq([k \in DOMAIN s |-> Append(HexPair(s[k]), sep)]), 1, Max({0, 3 * Len(s) - 1}))
binary2hex(s) == HexDigitsOf(s) \o [k \in 1..Len(s) |-> 0]

\* hex2binary to words of n bytes: other characters do not count, and what
\* does not fill a word is dropped
hex2binary(s, n) ==
  LET digits == Filter(s, LAMBDA c : Digit(c, 16))
      words == Min({Len(digits) \div (2 * n), (Len(s) \div 2) \div n})
  IN [k \in 1..words |-> Number(SubSeq(digits, (k - 1) * 2 * n + 1, k * 2 * n), 16)]
=============================================================================
