--------------------------- MODULE MCHttpRequest ---------------------------
(* What a request is made of, and the lines that carry it, one of the two  *)
(* in a behaviour.                                                         *)
(* Keys that differ in case, values with the characters that are encoded,  *)
(* line ends, and strings with empty items and unfinished escapes.          *)
EXTENDS HttpRequest, LineSocket
KeysDef == {<<97>>, <<65>>}                                    \* a A
NamesDef == KeysDef
ValuesDef == {<<>>, <<38, 61, 37, 43, 13, 10, 32, 200>>}       \* &=%+ CR LF space 0xc8
LengthyDef == {<<13, 10, 97, 13, 13, 97>>}                     \* CR LF a CR CR a
StringsDef == {<<>>, <<97, 38>>, <<38, 38, 65, 61, 37, 52>>, <<37, 122, 61, 37, 53, 97>>}  \* a& &&A=%4 %z=%5a
RequestsDef == {<<47>>, <<47, 63>>, <<47, 112, 63, 97, 61, 43, 63>>}  \* / /? /p?a=+?
TextsDef == {<<>>, <<97>>, <<97, 98, 97>>}

HttpInit == Init /\ LineInit
HttpNext ==
  \/ lines = <<>> /\ reader = "idle" /\ sender = "idle" /\ Next /\ UNCHANGED linevars
  \/ /\ havequery /\ ~fr_valid /\ path = Root /\ query = QueryFromList(<<>>) /\ items = <<>> /\ headers = <<>>
     /\ LineNext /\ UNCHANGED vars
HttpSpec == HttpInit /\ [][HttpNext]_<<vars, linevars>>
=============================================================================
