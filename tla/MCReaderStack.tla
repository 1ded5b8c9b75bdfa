--------------------------- MODULE MCReaderStack ---------------------------
(* Every class of reader over a few bytes; the compressed streams end       *)
(* inside and at the border of the two buffers.                              *)
EXTENDS ReaderStack

Bytes == <<1, 2, 3, 4>>
Lower(pos) == msetpos(MemoryReader("memory", Bytes, FALSE), pos).r
ReadersDef ==
  {MemoryReader(k, Bytes, FALSE) : k \in {"memory", "vector"}}
  \cup {MemoryReader("memory", Bytes, TRUE), MemoryReader("mmap", <<1, 2>>, FALSE)}
  \cup {Window("offset", Lower(pos), 1, 3) : pos \in {0, 1}}
  \cup {Window(k, Lower(pos), 1, 2) : k \in {"checked", "range"}, pos \in {0, 1}}
  \cup {File(Bytes, b) : b \in BOOLEAN} \cup {Device(<<1, 2, 3, 4, 5>>)}
  \cup {Compressed(s) : s \in {<<0, 3, 1, -1>>, <<0, 2, 2, 0, 2, -1>>, <<0, 4, -1>>, <<0, 5, 1, 1, -1>>,
                               <<0, 4>>}}
Destinations ==
  {MemoryReader("vector", <<>>, FALSE), MemoryReader("memory", <<0, 0, 0>>, FALSE),
   MemoryReader("memory", <<>>, TRUE)}
FaultsDef ==
  {<<>>} \cup {<<[what |-> w, got |-> 1]>> : w \in {"short", "seek", "read"}}
  \cup {<<[what |-> "full", got |-> 0], [what |-> w, got |-> 1]>> : w \in {"short", "seek", "read"}}
=============================================================================
