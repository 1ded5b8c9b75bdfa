----------------------------- MODULE HttpQuery -----------------------------
(***************************************************************************)
(* http/utils.h and http/query.h: the encoding of the values of a query,   *)
(* and a query that exists as a list of items or as a string, of which one *)
(* is the authority and the other is made when it is needed.  A string is  *)
(* a sequence of character codes.                                          *)
(***************************************************************************)
EXTENDS Lists

Byte == 0..255
Space == 32
Percent == 37
Ampersand == 38
PlusSign == 43
EqualSign == 61

HexDigits == <<48, 49, 50, 51, 52, 53, 54, 55, 56, 57, 97, 98, 99, 100, 101, 102>>
ToLower(c) == IF c \in 65..90 THEN c + 32 ELSE c
IsHex(c) == \E k \in 1..16 : HexDigits[k] = ToLower(c)
hex2nyb(c) == (CHOOSE k \in 1..16 : HexDigits[k] = ToLower(c)) - 1
nyb2hex(n) == HexDigits[n + 1]

\* char is signed: what is above 127 counts as below the space
pctencode(s) ==
  LET enc(c) ==
        IF c = Space THEN <<PlusSign>>
        ELSE IF c < Space \/ c > 127 \/ c \in {Percent, EqualSign, Ampersand, PlusSign}
        THEN <<Percent, nyb2hex(c \div 16), nyb2hex(c % 16)>> ELSE <<c>>
  IN FlattenSeq([k \in DOMAIN s |-> enc(s[k])])

\* An escape that is not finished, or not a number, is dropped.
pctdecode(s) ==
  LET f[i \in 1..Len(s) + 3] ==
        IF i > Len(s) THEN <<>>
        ELSE IF s[i] # Percent THEN <<IF s[i] = PlusSign THEN Space ELSE s[i]>> \o f[i + 1]
        ELSE IF i < Len(s) /\ ~IsHex(s[i + 1]) THEN f[i + 2]
        ELSE IF i < Len(s) - 1
        THEN (IF IsHex(s[i + 2]) THEN <<hex2nyb(s[i + 1]) * 16 + hex2nyb(s[i + 2])>> ELSE <<>>) \o f[i + 3]
        ELSE <<>>
  IN f[1]
-----------------------------------------------------------------------------
keyval(key, val) == [key |-> key, val |-> val, keyless |-> FALSE]
keylessval(val) == [key |-> <<>>, val |-> val, keyless |-> TRUE]

\* the place of c in s, one past the end if there is none
FindChar(s, c) == CHOOSE i \in 1..Len(s) + 1 : (i <= Len(s) => s[i] = c) /\ \A j \in 1..(i - 1) : s[j] # c
From(s, i) == SubSeq(s, i, Len(s))

parsequerykv(s) ==
  LET eq == FindChar(s, EqualSign) IN
  IF eq > Len(s) THEN keylessval(pctdecode(s))
  ELSE keyval(pctdecode(SubSeq(s, 1, eq - 1)), pctdecode(From(s, eq + 1)))

\* the parts of s that c ends, and what follows the last c unless it is nothing
Split(s, c) ==
  LET f[i \in 1..Len(s) + 2] ==
        IF i > Len(s) THEN <<>>
        ELSE LET n == FindChar(From(s, i), c)
             IN <<SubSeq(s, i, i + n - 2)>> \o f[i + n]
  IN f[1]
parse_query(s) ==
  LET parts == Split(s, Ampersand) IN [k \in DOMAIN parts |-> parsequerykv(parts[k])]

EncodeItem(kv) ==
  IF kv.keyless THEN pctencode(kv.val) ELSE pctencode(kv.key) \o <<EqualSign>> \o pctencode(kv.val)
AppendItem(s, kv) == (IF s = <<>> THEN s ELSE Append(s, Ampersand)) \o EncodeItem(kv)
make_query(l) ==
  LET f[k \in 0..Len(l)] == IF k = 0 THEN <<>> ELSE AppendItem(f[k - 1], l[k]) IN f[Len(l)]

\* The authority is "L", "Q", or what the memory held before a default constructor ("other")
QueryOf(str) == [l |-> <<>>, q |-> str, authority |-> "Q"]
QueryFromList(l) == [l |-> l, q |-> <<>>, authority |-> "L"]
DefaultQuery(a) == [l |-> <<>>, q |-> <<>>, authority |-> a]

need_l(x) == IF x.authority = "Q" /\ x.l = <<>> THEN [x EXCEPT !.l = parse_query(x.q)] ELSE x
need_q(x) == IF x.authority = "L" /\ x.q = <<>> THEN [x EXCEPT !.q = make_query(x.l)] ELSE x

SameKey(a, b) == [k \in DOMAIN a |-> ToLower(a[k])] = [k \in DOMAIN b |-> ToLower(b[k])]

SetItem(l, kv) == Append(Filter(l, LAMBDA x : ~SameKey(x.key, kv.key)), kv)

addKeepsList(x, kv) ==  \* mutant: the items made earlier are kept
  IF x.authority = "Q" THEN [x EXCEPT !.q = AppendItem(@, kv)]
  ELSE [x EXCEPT !.l = Append(@, kv), !.q = <<>>]
add(x, kv) ==
  IF x.authority = "Q" THEN [x EXCEPT !.q = AppendItem(@, kv), !.l = <<>>]
  ELSE [x EXCEPT !.l = Append(@, kv), !.q = <<>>]
set(x, kv) == [l |-> SetItem(need_l(x).l, kv), q |-> <<>>, authority |-> "L"]
=============================================================================
