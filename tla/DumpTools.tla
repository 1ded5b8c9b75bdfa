------------------------------ MODULE DumpTools ------------------------------
(***************************************************************************)
(* The dumps of stringutils.cpp, stringutils.h and debug.cpp.  A line is a *)
(* record of what it shows: the offset, the bytes as hexadecimal units and *)
(* as characters, and how many columns it takes.                           *)
(***************************************************************************)
EXTENDS StringTools

isprint(c) == c \in 32..126
asciidump(s) == [k \in DOMAIN s |-> IF isprint(s[k]) THEN s[k] ELSE 46]

\* the bytes of a little endian unit in the order of its digits; one that is
\* not complete has its digits, too, or ?
Unit(bytes) == Reverse(bytes)

\* hexdumpbytes to hexdumpqwords: whole units of u bytes, each after a separator
hexdumpunits(s, u) == [k \in 1..Len(s) \div u |-> Unit(SubSeq(s, (k - 1) * u + 1, k * u))]
\* hexdumpgroups: the bytes as they come, a separator after each group
hexdumpgroups(s, u) == Chunks(s, u)

\* One line of hexdump(offset, ...), with room for n units of u bytes.  Of a
\* last unit that is not complete, ? are shown and no unit where u = 8.
hexdumpline(offset, s, u, n) ==
  LET units == Len(s) \div u
      leftover == Len(s) - units * u
      extra == IF leftover > 0 THEN 1 ELSE 0
      marks == IF extra = 1 /\ u < 8 THEN 2 * u + 1 ELSE 0
      blanks == IF units + extra < n THEN (n - units - extra) * (2 * u + 1) ELSE 0
      filler == IF units < n THEN u * (n - units) - leftover ELSE 0
  IN [offset |-> offset, units |-> hexdumpunits(s, u), text |-> asciidump(s),
      columns |-> 8 + units * (2 * u + 1) + marks + blanks + 2 + Len(s) + filler]

\* hexdump: full lines while there are n units, then one with the rest
hexdump(offset, s, u, n) ==
  [k \in DOMAIN Chunks(s, u * n) |-> hexdumpline(offset + (k - 1) * u * n, Chunks(s, u * n)[k], u, n)]
-----------------------------------------------------------------------------
(* ascdump and dumpstrings: the items are quoted characters, bytes in      *)
(* hexadecimal and, in ascdump, "[xN]" for a run of N zeros or 0xff.       *)

EndOfLine(c) == c \in {10, 13, 0}
item(kind, val) == [kind |-> kind, val |-> val]
Show(c, escaped) == IF isprint(c) \/ c \in escaped \cup {Quote, Backslash} THEN item("char", c) ELSE item("hex", c)

\* After two zeros or 0xff of a run comes the length of the run, and its last byte.
ascdump(s, escaped) ==
  LET runend(i) == CHOOSE j \in i..Len(s) : s[j] = s[i] /\ (\A k \in i..j : s[k] = s[i]) /\ (j < Len(s) => s[j + 1] # s[i])
      f[i \in 1..Len(s) + 1] ==
        IF i > Len(s) THEN <<>>
        ELSE IF i > 2 /\ s[i] \in {0, 255} /\ s[i - 1] = s[i] /\ s[i - 2] = s[i]
        THEN <<item("run", runend(i) - i + 3), Show(s[runend(i)], escaped)>> \o f[runend(i) + 1]
        ELSE <<Show(s[i], escaped)>> \o f[i + 1]
  IN f[1]

\* one line of strings ends after its line ends and zeros, one of raw text after its zeros
dumpstrings(s) ==
  LET end == CHOOSE n \in 0..Len(s) :
               /\ n < Len(s) => n > 0 /\ EndOfLine(s[n]) /\ ~EndOfLine(s[n + 1])
               /\ \A k \in 1..(n - 1) : ~(EndOfLine(s[k]) /\ ~EndOfLine(s[k + 1]))
  IN [items |-> [k \in 1..end |-> Show(s[k], {10, 13, 9})], used |-> end]
dumpraw(s) ==
  LET text == CHOOSE n \in 0..Len(s) : (n < Len(s) => s[n + 1] = 0) /\ \A k \in 1..n : s[k] # 0
      used == CHOOSE n \in text..Len(s) : (n < Len(s) => s[n + 1] # 0) /\ \A k \in text + 1..n : s[k] = 0
  IN [text |-> SubSeq(s, 1, text), used |-> used]
\* the lines of bighexdump in these two formats: each takes what the one before left
DumpLines(s, Line(_)) ==
  LET f[i \in 1..Len(s) + 1] ==
        IF i > Len(s) THEN <<>> ELSE LET l == Line(TailFrom(s, i)) IN <<l>> \o f[i + l.used]
  IN f[1]
-----------------------------------------------------------------------------
(* bighexdump of hexadecimal lines: a line that is the one before it is    *)
(* counted, and shown by its number or, if it is only one, by itself.      *)

\* dumponeunit: a unit at the end may be short
hexdumpunit(s, u) == [k \in DOMAIN Chunks(s, u) |-> Unit(Chunks(s, u)[k])]

Counted(p, i, width) ==
  CASE p.same = 0 -> <<>>
    [] p.same = 1 -> <<[kind |-> "line", offset |-> i - width, line |-> p.prev]>>
    [] OTHER -> <<[kind |-> "repeat", count |-> p.same]>>

BigLine(p, i, line, width) ==
  IF line = p.prev THEN [p EXCEPT !.same = @ + 1]
  ELSE [out |-> p.out \o Counted(p, i, width) \o <<[kind |-> "line", offset |-> i, line |-> line]>>,
        prev |-> line, same |-> 0]

\* u bytes in a unit, n units on a line; a last line with no text shows where
\* a run ends
bighexdumpKeepsCount(s, u, n) ==  \* mutant: a run at the end is not written
  LET lines == Chunks(s, u * n)
      step(p, k) == BigLine(p, (k - 1) * u * n, hexdumpunit(lines[k], u), u * n)
  IN FoldLeft(step, [out |-> <<>>, prev |-> <<>>, same |-> 0], [k \in DOMAIN lines |-> k]).out
bighexdump(s, u, n) ==
  LET lines == Chunks(s, u * n)
      step(p, k) == BigLine(p, (k - 1) * u * n, hexdumpunit(lines[k], u), u * n)
      end == FoldLeft(step, [out |-> <<>>, prev |-> <<>>, same |-> 0], [k \in DOMAIN lines |-> k])
  IN end.out \o Counted(end, Len(s), u * n)
     \o (IF end.same > 0 THEN <<[kind |-> "line", offset |-> Len(s), line |-> <<>>]>> ELSE <<>>)
=============================================================================
