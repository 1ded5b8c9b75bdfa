---------------------------- MODULE SocketState ----------------------------
(***************************************************************************)
(* sockets/socketstate.h and the classes derived from it: the elements of  *)
(* a connection as the select loop sees them.  A connection is a chain,    *)
(* the TCP socket first; when an element is connected it starts the next.  *)
(*                                                                         *)
(* Every handler is an operator from a connection c to the set of          *)
(* connections it can leave behind, because handlers call each other and   *)
(* what the kernel answers is not determined.  An exception is the field   *)
(* `thrown`; Then() skips what follows it.  The kernel's part of the       *)
(* connection is the fields conn, rx, tx, fin and reset.                   *)
(***************************************************************************)
EXTENDS UngetQueue, FiniteSets

CONSTANTS
  Cap,      \* size of _inq and _outq (4096)
  AnsLen    \* size of the answer of a SOCKS server (8)

\* Fresh connection of the given kinds.
NewConnection(kinds, answer) == [
  kind   |-> kinds,
  st     |-> [i \in DOMAIN kinds |-> CASE kinds[i] = "accepted" -> "CONNECTED"
                                       [] kinds[i] = "sslin" -> "ACCEPTING"
                                       [] OTHER -> "NEW"],
  s      |-> [i \in DOMAIN kinds |-> kinds[i] \notin {"socks4", "ssl"}],  \* _s is set
  late   |-> [i \in DOMAIN kinds |-> FALSE],   \* _tstart is past _connecttimeout
  inq    |-> [i \in DOMAIN kinds |-> <<>>],
  outq   |-> [i \in DOMAIN kinds |-> IF kinds[i] = "socks4" THEN <<0>> ELSE <<>>],  \* 0 is the SOCKS request
  unget  |-> [i \in DOMAIN kinds |-> Empty],
  stopped |-> [i \in DOMAIN kinds |-> FALSE],  \* both queues
  thrown |-> FALSE, shut |-> FALSE,            \* shut is _remoteshutdown
  answer |-> answer,
  conn   |-> IF kinds[1] = "accepted" THEN "ok" ELSE "none",
  rx |-> <<>>, tx |-> <<>>, fin |-> FALSE, reset |-> FALSE]

Elements(c) == DOMAIN c.kind
HasNext(c, i) == i < Len(c.kind) /\ c.kind[i + 1] # "sslin"
SetState(c, i, v) == [c EXCEPT !.st[i] = v]
Throw(c) == [c EXCEPT !.thrown = TRUE]
Then(S, Do(_)) == UNION {IF c.thrown THEN {c} ELSE Do(c) : c \in S}

\* fd(): socks4 and ssl ask the element below, or give -1 without one; the
\* TCP socket follows its pointer, which close() has reset.
fdUnchecked(c, i) == IF c.s[1] THEN "open" ELSE "null"  \* mutant: no test of _s
fd(c, i) ==
  IF \E j \in 2..i : ~c.s[j] THEN "none" ELSE IF c.s[1] THEN "open" ELSE "null"

\* fail(): this element and all that would follow it
fail(c, i) ==
  [c EXCEPT !.st = [j \in Elements(c) |->
     IF j = i \/ (j > i /\ \A k \in i..(j - 1) : HasNext(c, k)) THEN "FAILED" ELSE c.st[j]]]

usedout(c, i) == usedsize(c.unget[i], c.outq[i])
freein(c, i) == Cap - Len(c.inq[i])

ssl(c, i) == c.kind[i] \in {"ssl", "sslin"}

\* read() of a socket, n bytes being there: what it leaves and returns.
\* tcpsocket notes the end of the stream when it gets 0 bytes.
tcpreadBlind(c, n) == {<<c, n>>}  \* mutant: the end is not noted
tcpread(c, n) ==
  IF c.reset \/ c.shut THEN {<<Throw(c), 0>>}
  ELSE {<<[c EXCEPT !.shut = c.fin /\ c.rx = <<>>], n>>}

\* SSL_read may want more first, and does not touch the TCP socket.
sslread(c, n) == {<<Throw(c), 0>>} \cup (IF c.reset THEN {} ELSE {<<c, k>> : k \in 0..n})

sockread(c, i) ==
  LET n == IF Len(c.rx) < freein(c, i) THEN Len(c.rx) ELSE freein(c, i) IN
  IF ssl(c, i) THEN sslread(c, n) ELSE tcpread(c, n)

\* The bytes taken from the socket are written to _inq, which throws once it
\* is stopped.
Received(c, i, n) ==
  LET d == [c EXCEPT !.rx = SubSeq(@, n + 1, Len(@))] IN
  IF c.thrown THEN c
  ELSE IF c.stopped[i] THEN Throw(d)
  ELSE [d EXCEPT !.inq[i] = @ \o SubSeq(c.rx, 1, n)]

ev_sockread(c, i) ==
  IF c.shut \/ freein(c, i) = 0 THEN {SetState(c, i, "DISCONNECTED")}
  ELSE {Received(r[1], i, r[2]) : r \in sockread(c, i)}

\* How many of n bytes the kernel or OpenSSL accepts; -1 is an exception.
tcpwrite(c, n) == IF c.reset THEN {-1} ELSE 1..n
sslwrite(c, n) == {-1} \cup (IF c.reset THEN {} ELSE 0..n)
sockwrite(c, i, n) == IF ssl(c, i) THEN sslwrite(c, n) ELSE tcpwrite(c, n)

\* All that was queued is read; n bytes go out, the others back in.
TakeAll(c, i) ==
  [c EXCEPT !.outq[i] = QueueAfterRead(c.unget[i], @, usedout(c, i)),
            !.unget[i] = AfterRead(@, usedout(c, i))]
SendNoUnget(c, i, n) ==  \* mutant: forgets what could not be sent
  [TakeAll(c, i) EXCEPT !.tx = @ \o SubSeq(Content(c.unget[i], c.outq[i]), 1, n)]
Send(c, i, n) ==
  LET data == BytesRead(c.unget[i], c.outq[i], usedout(c, i)) IN
  [TakeAll(c, i) EXCEPT !.tx = @ \o SubSeq(data, 1, n),
     !.unget[i] = IF n < Len(data) THEN Unget(@, SubSeq(data, n + 1, Len(data))) ELSE @]

ev_sockwrite(c, i) ==
  IF c.shut THEN {SetState(c, i, "DISCONNECTED")}
  ELSE IF usedout(c, i) = 0 THEN {c}
  ELSE IF c.stopped[i] /\ c.outq[i] # <<>> THEN {Throw(c)}
  ELSE {IF n = -1 THEN Throw(TakeAll(c, i)) ELSE Send(c, i, n) :
        n \in sockwrite(c, i, usedout(c, i))}

\* ev_connected(): the element is connected.  That it then starts the next is
\* the last thing each handler does: see HandOver.
connected(c, i) == SetState(c, i, "CONNECTED")

handle_socks_connectAll(c, i) ==  \* mutant: takes all there is for the answer
  IF Len(c.inq[i]) < AnsLen THEN {c}
  ELSE IF c.st[i] = "DISCONNECTED" \/ c.stopped[i] THEN {Throw(c)}
  ELSE LET d == [c EXCEPT !.inq[i] = <<>>] IN
       IF c.answer THEN {connected(d, i)} ELSE {fail(d, i)}
\* 8 bytes of the answer: version 0, code 90 when granted
handle_socks_connect(c, i) ==
  IF Len(c.inq[i]) < AnsLen THEN {c}
  ELSE IF c.st[i] = "DISCONNECTED" \/ c.stopped[i] THEN {Throw(c)}
  ELSE LET d == [c EXCEPT !.inq[i] = SubSeq(@, AnsLen + 1, Len(@))] IN
       IF c.answer THEN {connected(d, i)} ELSE {fail(d, i)}

\* SSL_connect or SSL_accept: wants more, is done, or throws
handshake(c, i) == {c, Throw(c)} \cup (IF c.reset \/ c.fin THEN {} ELSE {connected(c, i)})

\* socketstate::start, then what each class adds
started(c, i) == [c EXCEPT !.s[i] = TRUE, !.late[i] = FALSE, !.st[i] = "CONNECTING"]
tcpstart(c, i) == {[started(c, i) EXCEPT !.conn = "pending"]}
sslstart(c, i) == handshake(started(c, i), i)
socksstart(c, i) ==
  Then(Then(ev_sockread(started(c, i), i), LAMBDA e : ev_sockwrite(e, i)),
       LAMBDA e : handle_socks_connect(e, i))
start(c, i) ==
  CASE c.kind[i] = "tcp" -> tcpstart(c, i) [] c.kind[i] = "ssl" -> sslstart(c, i)
    [] c.kind[i] = "socks4" -> socksstart(c, i)

\* ev_connected() starts the next element, which may connect at once and start
\* the one after it: element j is started when all from i on have connected.
\* A chain has at most three elements.
StartNext(S, i, j) ==
  UNION {IF \A k \in i..(j - 1) : HasNext(c, k) /\ c.st[k] = "CONNECTED" THEN start(c, j) ELSE {c} : c \in S}
HandOver(c, i) == StartNext(StartNext({c}, i, i + 1), i, i + 2)
ev_connected(c, i) == HandOver(connected(c, i), i)
\* After a handler that may have connected element i
AndNext(S, i) == UNION {IF c.st[i] = "CONNECTED" THEN HandOver(c, i) ELSE {c} : c \in S}

\* The dispatch on the state, per class.  accept() takes a connection from
\* the queue, ev_tcpaccept drops it.
tcpmayread(c, i) ==
  CASE c.st[i] = "CONNECTING" -> {fail(c, i)}
    [] c.st[i] = "LISTENING" -> {[c EXCEPT !.rx = SubSeq(@, 2, Len(@))]}
    [] c.st[i] = "CONNECTED" -> ev_sockread(c, i)
    [] OTHER -> {c}
tcpmaywrite(c, i) ==
  CASE c.st[i] = "CONNECTING" /\ c.conn # "refused" -> ev_connected(c, i)
    [] c.st[i] = "CONNECTING" /\ c.conn = "refused" -> {fail(c, i)}
    [] c.st[i] = "LISTENING" -> {fail(c, i)}
    [] c.st[i] = "CONNECTED" -> ev_sockwrite(c, i)
    [] OTHER -> {c}

socksmayread(c, i) ==
  CASE c.st[i] = "CONNECTING" ->
         AndNext(Then(ev_sockread(c, i), LAMBDA e : handle_socks_connect(e, i)), i)
    [] c.st[i] = "CONNECTED" -> ev_sockread(c, i)
    [] OTHER -> {c}
socksmaywrite(c, i) == IF c.st[i] \in {"CONNECTING", "CONNECTED"} THEN ev_sockwrite(c, i) ELSE {c}

sslmay(c, i, transfer(_, _)) ==
  CASE c.st[i] \in {"CONNECTING", "ACCEPTING"} -> AndNext(handshake(c, i), i)
    [] c.st[i] = "CONNECTED" -> transfer(c, i)
    [] OTHER -> {c}
sslmayread(c, i) == sslmay(c, i, ev_sockread)
sslmaywrite(c, i) == sslmay(c, i, ev_sockwrite)

mayread(c, i) ==
  IF ssl(c, i) THEN sslmayread(c, i)
  ELSE IF c.kind[i] = "socks4" THEN socksmayread(c, i) ELSE tcpmayread(c, i)
maywrite(c, i) ==
  IF ssl(c, i) THEN sslmaywrite(c, i)
  ELSE IF c.kind[i] = "socks4" THEN socksmaywrite(c, i) ELSE tcpmaywrite(c, i)

\* needs(): the states the classes treat alike, then tcp, socks4 and ssl
transferneeds(c, i, need) == ~c.shut /\ (need = "RD" \/ usedout(c, i) > 0)
tcpneeds(c, i, need) ==
  CASE c.st[i] = "CONNECTING" -> need = "WR"
    [] c.st[i] = "LISTENING" -> need = "RD"
    [] OTHER -> transferneeds(c, i, need)
sslneeds(c, i, need) ==
  CASE c.st[i] = "CONNECTING" -> need = "RD"
    [] c.st[i] = "ACCEPTING" -> TRUE
    [] OTHER -> transferneeds(c, i, need)
needs(c, i, need) ==
  /\ c.st[i] \notin {"NEW", "DISCONNECTED", "FAILED"}
  /\ IF ssl(c, i) THEN sslneeds(c, i, need)
     ELSE IF c.kind[i] = "socks4" THEN transferneeds(c, i, need) ELSE tcpneeds(c, i, need)

candeleteNoNext(c, i) ==  \* mutant: a connected element keeps its place
  \/ c.st[i] \in {"FAILED", "DISCONNECTED"}
  \/ c.st[i] # "CONNECTED" /\ c.late[i]
  \/ c.st[i] = "CONNECTED" /\ c.shut
candelete(c, i) ==
  \/ c.st[i] \in {"FAILED", "DISCONNECTED"}
  \/ c.st[i] # "CONNECTED" /\ c.late[i]
  \/ c.st[i] = "CONNECTED" /\ (c.shut \/ HasNext(c, i))

\* close(): socketstate's part; tcp also gives up its socket, socks4 closes
\* the element below and lets go of it.
baseclose(c, i) == [c EXCEPT !.st[i] = "DISCONNECTED", !.stopped[i] = TRUE]
tcpclose(c, i) == [baseclose(c, i) EXCEPT !.s[i] = FALSE]
socksclose(c, i) ==
  [IF c.s[i] THEN tcpclose(baseclose(c, i), i - 1) ELSE baseclose(c, i) EXCEPT !.s[i] = FALSE]
closed(c, i) ==
  IF ssl(c, i) THEN baseclose(c, i)
  ELSE IF c.kind[i] = "socks4" THEN socksclose(c, i) ELSE tcpclose(c, i)
=============================================================================
