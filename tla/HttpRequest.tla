---------------------------- MODULE HttpRequest ----------------------------
(***************************************************************************)
(* http/request.h with http/headers.h: a request is kept as the text of    *)
(* its first line, as a path and a query, or both, and has headers.        *)
(***************************************************************************)
EXTENDS HttpQuery, FiniteSets

CONSTANTS
  Keys, Values,  \* of parameters
  Names,         \* of headers
  Lengthy,       \* values of headers, which may have several lines
  Strings,       \* query strings that come from outside
  Requests,      \* requests that come from outside
  MaxItems       \* bound on the parameters, and on the headers

\* Parameters, values and what comes from outside are any bytes.
ASSUME StringsAssumption == Keys \cup Values \cup Lengthy \cup Strings \cup Requests \subseteq Seq(Byte)

\* The name of a header holds no line end and does not begin with a space:
\* asstring() writes it as it is.
ASSUME NamesAssumption ==
  /\ Names \subseteq Seq(Byte)
  /\ \A k \in Names : \A i \in DOMAIN k : k[i] # 10 /\ (i = 1 => k[i] # Space)

VARIABLES
  path, fullrequest, fr_valid, havequery,
  query,      \* the HttpQuery
  headers,    \* the list of the HttpHeaders
  items,      \* history: the parameters, as a caller counts them
  sent        \* history: the parameters that the text of the request has to show

request == <<path, fullrequest, fr_valid, havequery>>
vars == <<request, query, headers, items, sent>>

Question == 63
CR == 13
LF == 10
Root == <<47>>

\* The server's constructor leaves flags as the memory held them, and a
\* request without a query has a default query.
Init ==
  /\ headers = <<>> /\ items = <<>> /\ sent = <<>> /\ fullrequest = <<>>
  /\ \/ path = <<>> /\ fr_valid \in BOOLEAN /\ havequery \in BOOLEAN
        /\ query \in {DefaultQuery(a) : a \in {"L", "Q", "other"}}
     \/ path = Root /\ fr_valid = FALSE /\ havequery = FALSE
        /\ query \in {DefaultQuery(a) : a \in {"L", "Q", "other"}}
     \/ path = Root /\ fr_valid = FALSE /\ havequery = TRUE /\ query = QueryFromList(<<>>)

\* request(): the text is made each time unless it was given, so that what
\* is left of the last time need not be kept
RequestText(q) == IF fr_valid THEN fullrequest ELSE path \o IF havequery THEN <<Question>> \o q.q ELSE <<>>
GetRequest ==
  /\ query' = IF ~fr_valid /\ havequery THEN need_q(query) ELSE query
  /\ UNCHANGED <<request, headers, items, sent>>

\* request(str): without a ? the query of the last request stays
SetRequest ==
  \E str \in Requests :
    LET pq == FindChar(str, Question) IN
    /\ fullrequest' = str /\ fr_valid' = TRUE /\ havequery' = (pq <= Len(str))
    /\ path' = SubSeq(str, 1, pq - 1)
    /\ query' = IF pq <= Len(str) THEN [query EXCEPT !.q = From(str, pq + 1), !.authority = "Q", !.l = <<>>]
                ELSE query
    /\ items' = IF pq <= Len(str) THEN parse_query(From(str, pq + 1)) ELSE items
    /\ sent' = IF pq <= Len(str) THEN items' ELSE <<>>
    /\ UNCHANGED headers

\* query(q), with a query from a string or from a list
SetQueryKeepsText(q) ==  \* mutant: the text of the request stays
  /\ query' = q /\ havequery' = TRUE /\ UNCHANGED <<fullrequest, fr_valid>>
SetQuery(q) ==
  /\ query' = q /\ havequery' = TRUE /\ fullrequest' = <<>> /\ fr_valid' = FALSE
NewQuery ==
  /\ \/ \E str \in Strings : SetQuery(QueryOf(str)) /\ items' = parse_query(str)
     \/ \E k \in Keys, v \in Values :
          SetQuery(QueryFromList(<<keyval(k, v)>>)) /\ items' = <<keyval(k, v)>>
  /\ sent' = items'
  /\ UNCHANGED <<path, headers>>

\* Changes of the query alone: a text that was given stays as it is, and a
\* request that has no query does not get one
Change(q, l) ==
  /\ query' = q /\ items' = l
  /\ sent' = IF havequery /\ ~fr_valid THEN l ELSE sent
  /\ UNCHANGED <<request, headers>>

SetParam ==
  \E k \in Keys, v \in Values : Change(set(query, keyval(k, v)), SetItem(items, keyval(k, v)))
AddParam ==
  /\ Len(items) < MaxItems
  /\ \E kv \in {keyval(k, v) : k \in Keys, v \in Values} \cup {keylessval(v) : v \in Values} :
       Change(add(query, kv), Append(items, kv))
SetString ==
  \E str \in Strings : Change(QueryOf(str), parse_query(str))

\* param(), and get(), multiplicity() of query()
Param == query' = need_l(query) /\ UNCHANGED <<request, headers, items, sent>>
\* querystring()
QueryString == query' = need_q(query) /\ UNCHANGED <<request, headers, items, sent>>
-----------------------------------------------------------------------------
\* lineencode: a line end becomes CR LF space; a CR alone vanishes, unless another follows
lineencode(s) ==
  LET NewLine == <<CR, LF, Space>>
      enc(k) == IF s[k] = LF \/ (s[k] = CR /\ k > 1 /\ s[k - 1] = CR) THEN NewLine
                ELSE IF s[k] = CR THEN <<>> ELSE <<s[k]>>
  IN FlattenSeq([k \in DOMAIN s |-> enc(k)])

asstring(l) ==
  FlattenSeq([k \in DOMAIN l |-> l[k].key \o <<58, Space>> \o lineencode(l[k].val) \o <<CR, LF>>])

AddHeader ==
  /\ Len(headers) < MaxItems
  /\ \E k \in Names, v \in Lengthy : headers' = Append(headers, keyval(k, v))
  /\ UNCHANGED <<request, query, items, sent>>
SetHeader ==
  /\ \E k \in Names, v \in Lengthy : headers' = SetItem(headers, keyval(k, v))
  /\ UNCHANGED <<request, query, items, sent>>

Next ==
  \/ GetRequest \/ SetRequest \/ NewQuery \/ SetParam \/ AddParam \/ SetString
  \/ Param \/ QueryString \/ AddHeader \/ SetHeader

Spec == Init /\ [][Next]_vars
-----------------------------------------------------------------------------
(* Properties. *)

\* An item without key and value is written as nothing.
Visible(l) == Filter(l, LAMBDA kv : ~(kv.keyless /\ kv.val = <<>>))

\* Whichever form of the query is the authority (query.h:28), and whenever
\* the other one was made, param() finds what was set and added, and the two
\* forms say the same.
QueryKeepsItems ==
  /\ Visible(need_l(query).l) = Visible(items)
  /\ query.authority # "other" => Visible(parse_query(need_q(query).q)) = Visible(items)

\* What a server reads (request.h:56, "/path?query") names the path and the
\* parameters; those of a request(str) are the ones of str, and no setparam(),
\* addparam() or query().querystring() after it shows, nor without a query,
\* until query(q) replaces them all.  Every header begins one line, and
\* whatever its value, a further line of it begins with a space.
MessageMeansParts ==
  /\ havequery /\ ~fr_valid => sent = items
  /\ query.authority # "other" /\ path # <<>> =>
       LET text == RequestText(need_q(query))
           at == FindChar(text, Question)
       IN /\ SubSeq(text, 1, at - 1) = path
          /\ at <= Len(text) => Visible(parse_query(From(text, at + 1))) = Visible(sent)
          /\ at > Len(text) => sent = <<>>
  /\ LET lines == Split(asstring(headers), LF)
         first == Filter(lines, LAMBDA s : s[1] # Space)
     IN /\ Len(first) = Len(headers)
        /\ \A k \in DOMAIN first : SubSeq(first[k], 1, Len(headers[k].key)) = headers[k].key
=============================================================================
