----------------------------- MODULE SelectLoop -----------------------------
(***************************************************************************)
(* sockets/selectloop.h with one connection: the thread that calls         *)
(* servicexx() in a loop, a user that builds the chain of elements, adds   *)
(* them, reads, writes and closes, and the peer at the other end.          *)
(*                                                                         *)
(* In the repository service() of selectloop only sleeps; servicexx() is   *)
(* the body of a derived loop's service().  The elements of a chain share  *)
(* one file descriptor, so a set of descriptors is one bit.  The signal    *)
(* socket, which makes select() return early, is left out: select() may    *)
(* return at any time, and at the latest after _pollinterval.              *)
(***************************************************************************)
EXTENDS SocketState

CONSTANTS
  Chains,          \* the kinds of elements a connection is built of
  MaxSend, MaxWrite  \* bounds: bytes the peer sends, bytes the user writes

\* What can be built: a TCP socket, with a SOCKS server, TLS or both above it;
\* an accepted one, with TLS; a listening one.
Shapes == {<<"tcp">>, <<"tcp", "socks4">>, <<"tcp", "ssl">>, <<"tcp", "socks4", "ssl">>,
           <<"accepted">>, <<"accepted", "sslin">>, <<"listen">>}

ASSUME ChainAssumption == Chains \subseteq Shapes
ASSUME SizeAssumption == {Cap, AnsLen} \subseteq Nat \ {0} /\ {MaxSend, MaxWrite} \subseteq Nat

VARIABLES
  c,        \* the connection
  list,     \* _list, without the signal
  gone,     \* elements the loop has erased from _list
  pc,       \* where the loop is: select, RD, WR, del, crashed, dead
  at,       \* the element servicexx() has reached
  rd, wr,   \* the descriptor is in the set
  sent,     \* bytes the peer has sent, numbered from 1
  written,  \* bytes write() has accepted
  taken     \* bytes read() has returned

loopvars == <<list, gone, pc, at, rd, wr>>
vars == <<c, list, gone, pc, at, rd, wr, sent, written, taken>>

User == Len(c.kind)  \* the element the user reads from and writes to
Listed == {list[k] : k \in DOMAIN list}
erase(k) == SubSeq(list, 1, k - 1) \o SubSeq(list, k + 1, Len(list))

Init ==
  /\ \E kinds \in Chains :
       \E answer \in IF "socks4" \in {kinds[i] : i \in DOMAIN kinds} THEN BOOLEAN ELSE {TRUE} :
         c = NewConnection(kinds, answer)
  /\ list = <<>> /\ gone = {}
  /\ pc = "bits" /\ at = 1 /\ rd = FALSE /\ wr = FALSE
  /\ sent = 0 /\ taken = <<>>
  /\ written = 0
-----------------------------------------------------------------------------
(* The loop thread: servicexx() *)

GetListBits ==
  /\ pc = "bits" /\ pc' = "select"
  /\ wr' = (\E i \in Listed : needs(c, i, "WR"))
  /\ rd' = (\E i \in Listed : needs(c, i, "RD"))
  /\ UNCHANGED <<c, list, gone, at, sent, written, taken>>

Readable == c.rx # <<>> \/ c.fin \/ c.reset \/ c.conn = "refused"
Writable == c.conn \in {"ok", "refused"} \/ c.reset

\* select() returns what is ready, or nothing after _pollinterval.
Select ==
  /\ pc = "select"
  /\ rd' = (rd /\ Readable) /\ wr' = (wr /\ Writable)
  /\ pc' = "RD" /\ at' = 1
  /\ UNCHANGED <<c, list, gone, sent, written, taken>>

\* A descriptor closed since getlistbits() makes select() fail; the exception
\* ends the thread (see Process).
SelectFails ==
  /\ pc = "select" /\ (rd \/ wr) /\ ~c.s[1]
  /\ pc' = "dead"
  /\ UNCHANGED <<c, list, gone, at, rd, wr, sent, written, taken>>

\* isinbits(), then the handler; catch(...) fails the element.  An exception
\* in mayread() skips maywrite().
Dispatch(bits, handler(_, _), next) ==
  /\ at <= Len(list)
  /\ LET i == list[at] IN
     CASE fd(c, i) = "null" -> pc' = "crashed" /\ UNCHANGED c
       [] fd(c, i) = "open" /\ bits ->
            \E d \in handler(c, i) :
              /\ c' = IF d.thrown THEN [fail(d, i) EXCEPT !.thrown = FALSE] ELSE d
              /\ pc' = IF d.thrown THEN "del" ELSE next
       [] OTHER -> pc' = next /\ UNCHANGED c
  /\ UNCHANGED <<list, gone, at, rd, wr, sent, written, taken>>

MayRead == pc = "RD" /\ Dispatch(rd, mayread, "WR")
MayWrite == pc = "WR" /\ Dispatch(wr, maywrite, "del")

CanDelete ==
  /\ pc = "del" /\ pc' = "RD"
  /\ IF candelete(c, list[at])
     THEN /\ list' = erase(at)
          /\ gone' = gone \cup {list[at]}
          /\ UNCHANGED at
     ELSE at' = at + 1 /\ UNCHANGED <<list, gone>>
  /\ UNCHANGED <<c, rd, wr, sent, written, taken>>

EndOfList ==
  /\ pc = "RD" /\ at > Len(list)
  /\ pc' = "bits" /\ at' = 1 /\ rd' = FALSE /\ wr' = FALSE
  /\ UNCHANGED <<c, list, gone, sent, written, taken>>

Loop == GetListBits \/ Select \/ SelectFails \/ MayRead \/ MayWrite \/ CanDelete \/ EndOfList
-----------------------------------------------------------------------------
(* The user.  A handler and a call of the user do not overlap in the model: *)
(* the queues lock (QueueBuf), _state and _s do not.                        *)

\* The elements are added in the order of the chain, before the first of them
\* is started; an accepted socket under an ssl element is not added itself.
\* (In another order a socks4 element would stay for one more pass beside the
\* ssl element it has started, and read what is meant for that one.)
Add(i) ==
  /\ i \notin Listed \cup gone
  /\ i = 1 \/ i - 1 \in Listed \cup gone \/ c.kind[1] = "accepted"
  /\ c.st[1] = "NEW" \/ (c.kind[1] = "accepted" /\ i = User)
  /\ list' = Append(list, i)
  /\ UNCHANGED <<c, gone, pc, at, rd, wr, sent, written, taken>>

Start ==
  /\ c.kind[1] = "tcp" /\ c.st[1] = "NEW" /\ Listed = Elements(c)
  /\ c' \in start(c, 1)
  /\ UNCHANGED <<loopvars, sent, written, taken>>

Listen ==
  /\ c.kind[1] = "listen" /\ c.st[1] = "NEW"
  /\ c' = [SetState(c, 1, "LISTENING") EXCEPT !.conn = "listening"]
  /\ UNCHANGED <<loopvars, sent, written, taken>>

\* write(): as much as fits, whatever the state
Write ==
  /\ \E n \in 1..MaxWrite :
       LET room == Cap - Len(c.outq[User])
           want == IF n < room THEN n ELSE room IN
       /\ ~c.stopped[User] /\ written + n <= MaxWrite /\ c.kind[1] # "listen"
       /\ c' = [c EXCEPT !.outq[User] = @ \o [k \in 1..want |-> written + k]]
       /\ written' = written + want
  /\ UNCHANGED <<loopvars, sent, taken>>

\* read(), once the connection is up
Read ==
  /\ c.st[User] = "CONNECTED" /\ ~c.stopped[User]
  /\ \E n \in 1..Len(c.inq[User]) :
       /\ taken' = taken \o SubSeq(c.inq[User], 1, n)
       /\ c' = [c EXCEPT !.inq[User] = SubSeq(@, n + 1, Len(@))]
  /\ UNCHANGED <<loopvars, sent, written>>

Close ==
  /\ ~c.stopped[User]
  /\ c' = closed(c, User)
  /\ UNCHANGED <<loopvars, sent, written, taken>>

\* expiresessions(), while the loop is not in the list: closes a session that
\* is disconnected or too old and drains it.
ExpireSessions ==
  /\ pc \in {"bits", "select"}
  /\ \E k \in DOMAIN list : list[k] = User /\ list' = erase(k)
  /\ c.st[User] \in {"CONNECTED", "DISCONNECTED"}
  /\ c' = [closed(c, User) EXCEPT !.inq[User] = <<>>]
  /\ taken' = taken \o c.inq[User]
  /\ gone' = gone \cup {User}
  /\ UNCHANGED <<pc, at, rd, wr, sent, written>>

\* The connect timer of an element runs from its construction, or from start();
\* only the loop looks at it.
TimePasses(i) ==
  /\ c.st[i] \in {"NEW", "CONNECTING", "ACCEPTING", "LISTENING"} /\ ~c.late[i]
  /\ i \in Listed
  /\ c' = [c EXCEPT !.late[i] = TRUE]
  /\ UNCHANGED <<loopvars, sent, written, taken>>
-----------------------------------------------------------------------------
(* The peer and the wire *)

Network(d) == c' = d /\ UNCHANGED <<loopvars, written, taken>>

ConnectEnds ==
  /\ c.conn = "pending"
  /\ \E r \in {"ok", "refused"} : Network([c EXCEPT !.conn = r])
  /\ UNCHANGED sent

\* A TLS server speaks after the handshake has begun, a SOCKS server after
\* the connection is there; to a listening socket a byte is a connection.
PeerSends ==
  /\ c.conn \in {"ok", "listening"} /\ ~c.fin /\ ~c.reset /\ sent < MaxSend
  /\ c.kind[User] = "ssl" /\ c.st[User] = "NEW" => "socks4" \in {c.kind[i] : i \in Elements(c)} /\ sent < AnsLen
  /\ sent' = sent + 1
  /\ Network([c EXCEPT !.rx = Append(@, sent + 1)])

PeerShuts ==
  /\ c.conn = "ok" /\ ~c.fin /\ ~c.reset
  /\ Network([c EXCEPT !.fin = TRUE])
  /\ UNCHANGED sent

PeerResets ==
  /\ c.conn = "ok" /\ ~c.reset
  /\ Network([c EXCEPT !.reset = TRUE, !.rx = <<>>])
  /\ UNCHANGED sent
-----------------------------------------------------------------------------
Next ==
  /\ pc \notin {"crashed"}
  /\ \/ Loop
     \/ \E i \in Elements(c) : Add(i) \/ TimePasses(i)
     \/ Start \/ Listen \/ Write \/ Read \/ Close \/ ExpireSessions
     \/ ConnectEnds \/ PeerSends \/ PeerShuts \/ PeerResets

Spec == Init /\ [][Next]_vars

\* The loop thread is scheduled and time passes; nobody else has to act.
FairSpec ==
  /\ Spec /\ WF_vars(pc # "crashed" /\ Loop)
  /\ WF_vars(pc # "crashed" /\ \E i \in DOMAIN c.kind : TimePasses(i))
-----------------------------------------------------------------------------
(* Properties. *)

Numbers(from, to) == [k \in 1..(to - from + 1) |-> from + k - 1]
Intact == ~c.stopped[User] /\ ~c.reset /\ c.st[User] # "FAILED"
ThroughSocks == \E i \in Elements(c) : c.kind[i] = "socks4"

\* What the peer receives, and what is still queued, is the SOCKS request and
\* then what write() accepted, in order and complete, however the kernel
\* splits it.  (ev_sockwrite, ungetbytes)
OutStream ==
  /\ \E m \in 0..(written + 1) :
       c.tx = (IF ThroughSocks THEN SubSeq(Numbers(0, written), 1, m)
                               ELSE SubSeq(Numbers(1, written), 1, m))
  /\ Intact /\ (\A i \in Elements(c) : c.st[i] # "FAILED") =>
       c.tx \o (IF ThroughSocks /\ c.kind[User] = "ssl" THEN Content(c.unget[User - 1], c.outq[User - 1]) ELSE <<>>)
            \o Content(c.unget[User], c.outq[User])
         = (IF ThroughSocks THEN <<0>> ELSE <<>>) \o Numbers(1, written)

\* What the user reads is what the peer sent after the answer of the SOCKS
\* server; nothing is lost between socket, queue and user.  Only where the
\* connection ends before that answer is complete, expiresessions() finds the
\* part of it that has come.  (ev_sockread, handle_socks_connect)
InStream ==
  LET first == IF ThroughSocks THEN AnsLen + 1 ELSE 1 IN
  /\ c.kind[1] # "listen" =>
       \/ taken = Numbers(first, first + Len(taken) - 1)
       \/ ThroughSocks /\ Len(taken) < AnsLen /\ taken = Numbers(1, Len(taken))
  /\ Intact /\ c.st[User] = "CONNECTED" =>
       taken \o c.inq[User] \o c.rx = Numbers(first, sent)

\* When the loop collects its descriptors, at most one element of a
\* connection wants to use the socket they share.  (candelete, ev_connected)
OneServed ==
  pc = "bits" => Cardinality({i \in Listed : \E n \in {"RD", "WR"} : needs(c, i, n)}) <= 1

\* The loop follows a null pointer only for a tcpstate that was closed while
\* in the list.  (tcpstate::fd, socks4state::fd)
CrashCause ==
  pc = "crashed" => c.stopped[1] /\ c.kind[list[at]] \in {"tcp", "accepted", "listen"}

\* Once the peer has ended the stream every element but an ssl one leaves the
\* list.  (ev_sockread, candelete)
PeerCloseEnds ==
  LET Lingers == \E i \in Listed : ~ssl(c, i) IN
  c.fin /\ Lingers ~> ~Lingers \/ pc \in {"crashed", "dead"}

\* "once an object is 'connected' it deletes itself from the selectlist, and
\* hand control to it's 'next' item": an element that has got control, and
\* was not late since, is there for the loop to serve.  (start, candelete)
NextIsServed ==
  \A i \in Elements(c) : i > 1 /\ c.st[i] = "CONNECTING" /\ i \in gone => c.late[i]
=============================================================================
