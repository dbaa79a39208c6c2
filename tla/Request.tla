------------------------------ MODULE Request ------------------------------
(***************************************************************************)
(* One connection from the bytes a client sends to the bytes it gets back: *)
(* the connection's buffer (src/buffer.c), the incremental parser and the  *)
(* response (src/request.c), the routes (src/route.c) and their callbacks  *)
(* (src/cask.c).  What the kernel does to a connection is in Connection,   *)
(* and the database behind the callbacks in Db: here it is a sequence of   *)
(* pastes.                                                                 *)
(*                                                                         *)
(* The buffer is an array of cells.  A word that is only ever compared as  *)
(* a whole (a method, a version, a header's name, a status) is one cell, a *)
(* digit, a separator and each of CR and LF is one.                        *)
(***************************************************************************)
EXTENDS Integers, Sequences, SequencesExt, FiniteSetsExt

CONSTANTS
  Messages,    \* what clients send: requests, and lines that are no request
  MAX_HEADERS, \* the headers a request may have
  MAX_BODY,    \* the longest paste
  READ_CHUNK,  \* what one recv takes
  INT_MAX, LONG_MAX, \* the largest int and long
  MaxRequests, \* bound: messages on a connection
  Faults       \* what may fail: "realloc", "db"

ASSUME RequestAssumption ==
  /\ MAX_HEADERS \in Nat \ {0} /\ MAX_BODY \in Nat /\ READ_CHUNK \in Nat \ {0, 1}
  /\ INT_MAX \in Nat /\ LONG_MAX \in Nat /\ MAX_BODY <= INT_MAX /\ INT_MAX <= LONG_MAX
  /\ MaxRequests \in Nat \ {0} /\ Faults \subseteq {"realloc", "db"}

VARIABLES
  data,     \* buf->data, buf->cap cells
  size,     \* buf->size
  junk,     \* what the cells that realloc adds hold
  req,      \* c->req
  keep,     \* CONNECTION_FLAG_KEEPALIVE
  pc,       \* read, parse, route, answered, closed or crashed
  input,    \* what the client has sent or will send and the server has not read
  msg,      \* the message it sends
  count,    \* the messages it has begun
  store,    \* the pastes of the database, the first one has id 0
  mishaps   \* history: how the connection came to be answered otherwise than it should

bufVars == <<data, size, junk>>
peerVars == <<input, msg, count>>
vars == <<bufVars, req, keep, pc, peerVars, store, mishaps>>

----------------------------------------------------------------------------
(* Clients *)

Digit == <<"0", "1", "2", "3", "4", "5", "6", "7", "8", "9">>
ToDigits(n) == <<Digit[n + 1]>>
CRLF == <<"CR", "LF">>

Header(h, body) ==
  IF h = "CL" THEN <<"Content-Length", ":", " ">> \o ToDigits(Len(body)) \o CRLF
              ELSE <<"x", ":", "x">> \o CRLF

(* A message is a request, or bytes that are none. *)
Encode(m) ==
  IF m.bad THEN m.raw
  ELSE <<m.method, " ">> \o m.uri \o <<" ", m.version>> \o CRLF
       \o FlattenSeq([i \in 1..Len(m.headers) |-> Header(m.headers[i], m.body)]) \o CRLF \o m.body

IsSeq(s) == s \in Seq(ToSet(s))

(* A client sends cells one after the other. *)
ASSUME MessagesAssumption == \A m \in Messages : IsSeq(Encode(m))

----------------------------------------------------------------------------
(* The buffer *)

(* The cells from first to last as realloc finds them: letters, or line ends in step with  *)
(* the even or the odd cells.                                                              *)
Fresh(first, last) ==
  [i \in 1..(last - first + 1) |->
     IF junk = 2 THEN "x" ELSE IF (first + i) % 2 = junk THEN "CR" ELSE "LF"]

(* resize_buffer to a larger cap *)
resize_buffer(buf, cap) == buf \o Fresh(Len(buf) + 1, cap)

(* memcpy or recv of cells behind the first n cells of buf *)
Put(buf, n, cells) ==
  [i \in 1..Len(buf) |-> IF i \in (n + 1)..(n + Len(cells)) THEN cells[i - n] ELSE buf[i]]

(* push_buffer, to which b = [data, size] is the buffer *)
push_buffer(b, cells) ==
  LET needed == b.size + Len(cells)
      room == IF needed > Len(b.data) THEN resize_buffer(b.data, needed) ELSE b.data
  IN  [data |-> Put(room, b.size, cells), size |-> needed]

GrowIfFull == IF size >= Len(data) THEN resize_buffer(data, size + READ_CHUNK) ELSE data

(* read_data makes room for READ_CHUNK cells. *)
Grow == IF size + READ_CHUNK > Len(data) THEN resize_buffer(data, size + READ_CHUNK) ELSE data

----------------------------------------------------------------------------
(* Strings: [off, len] into the buffer, off counting from 0 *)

Str(off, len) == [off |-> off, len |-> len]
White == {" ", "TAB", "CR", "LF"}
Text(s) == SubSeq(data, s.off + 1, s.off + s.len)

(* span: the length of the line that begins at off, its end included, or -1 *)
span(c, off) ==
  LET ends == {i \in (off + 1)..size : data[i] = c}
  IN  IF ends = {} THEN -1 ELSE Min(ends) - off

(* The k-th position in S *)
Nth(S, k) == CHOOSE i \in S : Cardinality({j \in S : j <= i}) = k

(* split: at the first n - 1 delimiters *)
split(s, delim, n) ==
  LET delims == {i \in (s.off + 1)..(s.off + s.len) : data[i] = delim}
      cuts == Min({n - 1, Cardinality(delims)})
      Start(i) == IF i = 1 THEN s.off ELSE Nth(delims, i - 1)
      Stop(i) == IF i > cuts THEN s.off + s.len + 1 ELSE Nth(delims, i)
  IN  [i \in 1..(cuts + 1) |-> Str(Start(i), Stop(i) - Start(i) - 1)]

trim(s) ==
  LET text == {i \in (s.off + 1)..(s.off + s.len) : data[i] \notin White}
  IN  IF text = {} THEN Str(s.off + s.len, 0)
      ELSE Str(Min(text) - 1, Max(text) - Min(text) + 1)

(* A decimal number: where it begins behind white space, and the value of its digits. *)
IsDigit(c) == \E v \in 0..9 : c = Digit[v + 1]
Value(c) == CHOOSE v \in 0..9 : IsDigit(c) => c = Digit[v + 1]
Begin(off) == Min({i \in (off + 1)..(Len(data) + 1) : i > Len(data) \/ data[i] \notin White})
Magnitude(start) ==
  LET stop == Min({i \in start..(Len(data) + 1) : i > Len(data) \/ ~IsDigit(data[i])})
      value[n \in Nat] == IF n = 0 THEN 0 ELSE 10 * value[n - 1] + Value(data[start + n - 1])
  IN  value[stop - start]

(* strtol: a sign may precede the digits, and what is no long becomes the nearest one. *)
strtol(off) ==
  LET i == Begin(off)
      sign == IF i <= Len(data) THEN data[i] ELSE "NUL"
      v == Magnitude(IF sign \in {"-", "+"} THEN i + 1 ELSE i)
  IN  IF sign = "-" THEN IF v > LONG_MAX THEN -LONG_MAX - 1 ELSE -v
                    ELSE IF v > LONG_MAX THEN LONG_MAX ELSE v

(* strtoull of a number that get_callback has found to be digits *)
strtoull(off) ==
  LET v == Magnitude(Begin(off)) IN IF v > 2 * LONG_MAX + 1 THEN 2 * LONG_MAX + 1 ELSE v

(* The conversions of a long to an int and of an int to a uint32_t cut it to their width. *)
UINT32_RANGE == 2 * (INT_MAX + 1)
ToInt(v) == ((v + INT_MAX + 1) % UINT32_RANGE) - (INT_MAX + 1)
ToUint32(v) == v % UINT32_RANGE

----------------------------------------------------------------------------
(* parse_request *)

Methods == {"GET", "HEAD", "POST", "PUT", "DELETE", "CONNECT", "OPTIONS", "TRACE", "PATCH"}
Versions == {"HTTP/1.0", "HTTP/1.1", "HTTP/2.0"}

(* A zeroed struct request *)
NoRequest == [state |-> "INIT", read_bytes |-> 0, method |-> "GET", version |-> "HTTP/1.0",
              uri |-> Str(0, 0), headers |-> <<>>, body |-> Str(0, 0)]

Init ==
  /\ data = <<>> /\ size = 0 /\ junk \in 0..2
  /\ req = NoRequest /\ keep = FALSE /\ pc = "read"
  /\ msg \in Messages /\ input = Encode(msg) /\ count = 1
  /\ store = <<>> /\ mishaps = {}

Parsing(state) ==
  /\ pc = "parse" /\ req.state = state
  /\ UNCHANGED <<bufVars, peerVars, store>>

(* REQ_UF: read_data goes on to recv.  REQ_ERR: it closes the connection. *)
Underflow == pc' = "read" /\ UNCHANGED <<req, keep, mishaps>>
BadRequest == pc' = "closed" /\ UNCHANGED <<req, keep, mishaps>>
Parsed(r) == req' = r /\ UNCHANGED <<pc, keep, mishaps>>

ParseStatusLine ==
  /\ Parsing("INIT")
  /\ LET line == span("LF", 0)
         tokens == split(Str(0, line), " ", 3)
         good == /\ Len(tokens) = 3
                 /\ tokens[1].len = 1 /\ data[1] \in Methods
                 /\ \E v \in Versions : Text(trim(tokens[3])) = <<v>>
     IN  \/ line < 0 /\ Underflow
         \/ line > 0 /\ ~good /\ BadRequest
         \/ /\ line > 0 /\ good
            /\ Parsed([req EXCEPT !.state = "HEADERS", !.read_bytes = line, !.method = data[1],
                                  !.version = data[trim(tokens[3]).off + 1], !.uri = tokens[2]])

(* The two cells at read_bytes are CR and LF.  Nobody asks whether they have been received. *)
AtEnd(r) == data[r + 1] = "CR" /\ data[r + 2] = "LF"

HeaderRoomOffByOne == Len(req.headers) <= MAX_HEADERS

(* req->headers has room for one more. *)
HeaderRoom == Len(req.headers) < MAX_HEADERS

(* One round of the loop of parse_headers. *)
ParseHeader ==
  LET r == req.read_bytes
      line == span("LF", r)
      tokens == split(Str(r, line), ":", 2) IN
  /\ Parsing("HEADERS") /\ HeaderRoom /\ ~AtEnd(r)
  /\ \/ line < 0 /\ Underflow
     \/ line > 0 /\ Len(tokens) < 2 /\ BadRequest
     \/ /\ line > 0 /\ Len(tokens) = 2
        /\ Parsed([req EXCEPT !.read_bytes = r + line,
                    !.headers = Append(@, [key |-> trim(tokens[1]), val |-> trim(tokens[2])])])

(* find_header takes the first of them. *)
ContentLengths == {i \in 1..Len(req.headers) : Text(req.headers[i].key) = <<"Content-Length">>}

(* The end of parse_headers, and Content-Length.  After MAX_HEADERS headers the rest is    *)
(* taken for the body, the empty line and further headers included.  The length is looked  *)
(* at from above only, after the cut to an int: a negative one is kept.                    *)
HeadersDone ==
  LET full == ~HeaderRoom
      r == IF full THEN req.read_bytes ELSE req.read_bytes + 2
      found == ContentLengths # {}
      announced == IF found THEN strtol(req.headers[Min(ContentLengths)].val.off) ELSE 0
      len == ToInt(announced) IN
  /\ Parsing("HEADERS")
  /\ full \/ AtEnd(req.read_bytes)
  /\ \/ len > MAX_BODY /\ BadRequest
     \/ /\ len <= MAX_BODY
        /\ req' = [req EXCEPT !.state = "BODY", !.read_bytes = r,
                              !.body = IF found THEN Str(r, len) ELSE @]
        /\ mishaps' = mishaps \cup (IF full THEN {"headers"} ELSE {})
                              \cup (IF r > size THEN {"stray"} ELSE {})
                              \cup (IF announced \in 0..MAX_BODY THEN {} ELSE {"length"})
        /\ UNCHANGED <<pc, keep>>

BodyBegun(b) == b.len = 0 \/ size - b.off > 0

(* All of the body is there. *)
BodyReceived(b) == b.len = 0 \/ size - b.off >= b.len

ParseBody ==
  /\ Parsing("BODY")
  /\ req' = [req EXCEPT !.read_bytes = IF req.body.len = 0 THEN @ ELSE size]
  /\ pc' = IF BodyReceived(req.body) THEN "route" ELSE "read"
  /\ keep' = (keep \/ (BodyReceived(req.body) /\ req.version = "HTTP/1.1"))
  /\ UNCHANGED mishaps

----------------------------------------------------------------------------
(* match_route, the callbacks and send_response *)

(* The routes of main, in the order of their registration. *)
Routes ==
  <<[method |-> "GET", exact |-> TRUE, uri |-> <<"/">>, cb |-> "index"],
    [method |-> "GET", exact |-> FALSE, uri |-> <<"/">>, cb |-> "get"],
    [method |-> "POST", exact |-> TRUE, uri |-> <<"/">>, cb |-> "post"]>>

(* match_route: the first exact match if there is one, or the longest prefix, the first of *)
(* several.  A prefix is compared with the buffer from uri on, however short uri is.       *)
match_route(method, uri) ==
  LET Same(r) == r.method = method /\ SubSeq(data, uri.off + 1, uri.off + Len(r.uri)) = r.uri
      exact == {i \in 1..Len(Routes) : Same(Routes[i]) /\ Routes[i].exact /\ Len(Routes[i].uri) = uri.len}
      prefix == {i \in 1..Len(Routes) : Same(Routes[i]) /\ ~Routes[i].exact}
      longest == {i \in prefix : \A j \in prefix : Len(Routes[j].uri) <= Len(Routes[i].uri)}
  IN  CASE exact # {} -> Routes[Min(exact)].cb
        [] exact = {} /\ prefix # {} -> Routes[Min(longest)].cb
        [] OTHER -> "none"

LaxUri(uri) == \A i \in 2..uri.len : IsDigit(data[uri.off + i]) \/ data[uri.off + i] = "/"

(* get_callback's validation: digits behind the first cell, and perhaps a slash at the end *)
ValidUri(uri) ==
  \A i \in 2..uri.len :
    \/ IsDigit(data[uri.off + i])
    \/ data[uri.off + i] = "/" /\ uri.len > 2 /\ i = uri.len

(* What the callback for the request may answer, and the pastes after it. *)
Answer(status, body, pastes) == [status |-> status, body |-> body, store |-> pastes]

(* The mapped index.html, or "Index." if there is none *)
index_callback == {Answer("200", <<"index">>, store)}

(* strtoull of what follows the first cell, and db_get. *)
get_callback ==
  LET id == strtoull(req.uri.off + 1)
      missing == Answer("404", <<"missing">>, store) IN
  IF ~ValidUri(req.uri) THEN {Answer("404", <<>>, store)}
  ELSE {IF id < Len(store) THEN Answer("200", store[id + 1], store) ELSE missing}
       \cup (IF "db" \in Faults THEN {missing} ELSE {})

(* What post_callback hands to db_insert: for a negative length, 2 GB and more. *)
Paste == Str(req.body.off, ToUint32(req.body.len))
InBuffer(s) == s.off + s.len <= Len(data)

(* db_insert of the body; the answer is the paste's id.  If the paste goes on behind the   *)
(* buffer, write_record has no memory for it or crashes, see ReadBehind.                   *)
post_callback ==
  IF req.body.len = 0 THEN {Answer("400", <<"empty">>, store)}
  ELSE (IF InBuffer(Paste) THEN {Answer("200", ToDigits(Len(store)), Append(store, Text(Paste)))} ELSE {})
       \cup (IF "db" \in Faults THEN {Answer("500", <<>>, store)} ELSE {})

Answers ==
  CASE match_route(req.method, req.uri) = "index" -> index_callback
    [] match_route(req.method, req.uri) = "get" -> get_callback
    [] match_route(req.method, req.uri) = "post" -> post_callback
    [] OTHER -> {Answer("404", <<>>, store)}

(* The pieces that send_response pushes. *)
Pieces(a) ==
  <<<<req.version, " ", a.status>> \o CRLF>>
  \o (IF keep THEN <<<<"Connection", ":", " ", "x">> \o CRLF, <<"Keep-Alive", ":", " ", "x">> \o CRLF>>
      ELSE <<>>)
  \o <<<<"Content-Length", ":", " ">> \o ToDigits(Len(a.body)) \o CRLF \o CRLF, a.body>>

(* send_response's buffer after the first n of the pieces, without the lost ones. *)
Pushed(pieces, n, lost) ==
  LET pushed[i \in Nat] ==
        IF i = 0 THEN [data |-> data, size |-> 0]
        ELSE IF i \in DOMAIN pieces \ lost THEN push_buffer(pushed[i - 1], pieces[i])
        ELSE pushed[i - 1]
  IN  pushed[n]

(* Pieces whose push_buffer fails: realloc does, and nobody looks. *)
MayBeLost(pieces, lost) ==
  \A i \in lost :
    LET b == Pushed(pieces, i - 1, lost)
    IN  "realloc" \in Faults /\ b.size + Len(pieces[i]) > Len(b.data)

(* The route's callback, and the whole of send_response up to begin_send. *)
Respond ==
  /\ pc = "route"
  /\ \E a \in Answers : \E lost \in SUBSET (1..Len(Pieces(a))) :
       LET b == Pushed(Pieces(a), Len(Pieces(a)), lost) IN
       /\ MayBeLost(Pieces(a), lost)
       /\ store' = a.store /\ data' = b.data /\ size' = b.size
       /\ mishaps' = mishaps \cup (IF lost = {} THEN {} ELSE {"push"})
  /\ req' = NoRequest /\ pc' = "answered"
  /\ UNCHANGED <<junk, keep, peerVars>>

(* write_record copies the paste from behind the end of the buffer. *)
ReadBehind ==
  /\ pc = "route" /\ match_route(req.method, req.uri) = "post"
  /\ req.body.len # 0 /\ ~InBuffer(Paste)
  /\ pc' = "crashed"
  /\ UNCHANGED <<bufVars, req, keep, peerVars, store, mishaps>>

----------------------------------------------------------------------------
(* read_data, and begin_read after the response has been sent *)

(* recv returns k cells. *)
Recv(k) ==
  /\ pc = "read" /\ k <= Len(input)
  /\ data' = Put(Grow, size, SubSeq(input, 1, k)) /\ size' = size + k
  /\ input' = SubSeq(input, k + 1, Len(input))
  /\ UNCHANGED <<junk, req, keep, pc, msg, count, store, mishaps>>

(* recv returns EAGAIN. *)
RecvBlocks ==
  /\ pc = "read"
  /\ data' = Grow /\ pc' = "parse"
  /\ UNCHANGED <<size, junk, req, keep, peerVars, store, mishaps>>

(* resize_buffer fails. *)
RecvFails ==
  /\ pc = "read" /\ "realloc" \in Faults /\ Grow # data
  /\ pc' = "closed"
  /\ UNCHANGED <<bufVars, req, keep, peerVars, store, mishaps>>

(* The response is sent: begin_read, and the client sends another message; or the          *)
(* connection is closed.                                                                   *)
Sent ==
  /\ pc = "answered"
  /\ \/ /\ keep /\ count < MaxRequests
        /\ size' = 0 /\ pc' = "read" /\ count' = count + 1
        /\ \E m \in Messages : msg' = m /\ input' = input \o Encode(m)
     \/ ~keep /\ pc' = "closed" /\ UNCHANGED <<size, peerVars>>
  /\ UNCHANGED <<data, junk, req, keep, store, mishaps>>

Next ==
  \/ \E k \in 1..READ_CHUNK : Recv(k)
  \/ RecvBlocks \/ RecvFails
  \/ ParseStatusLine \/ ParseHeader \/ HeadersDone \/ ParseBody \/ Respond \/ ReadBehind \/ Sent

Spec == Init /\ [][Next]_vars

----------------------------------------------------------------------------
(* Properties *)

Spans == [off : Nat, len : Nat]
Bodies == [off : Nat, len : -(INT_MAX + 1)..MAX_BODY]
Requests == [state : {"INIT", "HEADERS", "BODY"}, read_bytes : Nat, method : Methods,
             version : Versions, uri : Spans, headers : Seq([key : Spans, val : Spans]), body : Bodies]

TypeOK ==
  /\ IsSeq(data) /\ size \in 0..Len(data) /\ junk \in 0..2 /\ keep \in BOOLEAN
  /\ pc \in {"read", "parse", "route", "answered", "closed", "crashed"}
  /\ req \in Requests /\ Len(req.headers) <= MAX_HEADERS
  /\ IsSeq(input) /\ msg \in Messages /\ count \in 1..MaxRequests
  /\ IsSeq(store) /\ \A i \in 1..Len(store) : IsSeq(store[i])
  /\ mishaps \subseteq {"headers", "stray", "length", "push"}

(* The parser looks at two cells behind what it has parsed, whether they were received or  *)
(* not, and the callbacks read the URI and the body where it found them.  None of that is  *)
(* outside the buffer, however the request was cut into segments, and a body of a positive *)
(* length was received before it is stored.  The one way out of the buffer is a length     *)
(* below zero that the check of Content-Length lets pass (request.c:182).                  *)
InsideBuffer ==
  /\ pc = "parse" /\ req.state = "HEADERS" => req.read_bytes + 2 <= Len(data)
  /\ pc = "route" => /\ req.uri.off + req.uri.len <= size
                     /\ req.body.len > 0 => req.body.off + req.body.len <= size
  /\ pc = "crashed" => req.body.len < 0

(* post_callback stores what was received, or nothing.  The code does not ensure it: the   *)
(* length of the body may be below zero, and then (uint32_t)len goes far behind it.        *)
StoresReceived ==
  pc = "route" /\ match_route(req.method, req.uri) = "post" =>
    Paste.len = 0 \/ Paste.off + Paste.len <= size

(* What lies at s has been received. *)
Received(s) == s.off + s.len <= size

(* The inductive invariant behind InsideBuffer, whatever clients send: when the parser     *)
(* runs, read_data has just made room behind what was received, the offsets of the request *)
(* line and the headers are in what was received, and none outlives the response.          *)
RequestInv ==
  /\ TypeOK
  /\ pc \in {"parse", "route"} => size + READ_CHUNK <= Len(data)
  /\ req.state = "HEADERS" => req.read_bytes <= size
  /\ Received(req.uri)
  /\ \A i \in 1..Len(req.headers) : Received(req.headers[i].key) /\ Received(req.headers[i].val)
  /\ pc = "route" /\ req.body.len > 0 => Received(req.body)
  /\ pc = "crashed" => req.body.len < 0
  /\ pc = "answered" => req = NoRequest

(* A request is answered once all of it has been received, and what was received is not    *)
(* taken for part of the next one, wherever the segments end: unless unreceived cells of   *)
(* the buffer looked like the end of the headers, there were MAX_HEADERS of them, or the   *)
(* announced length was negative or became another one as an int.                          *)
AnsweredWhenComplete ==
  pc = "answered" /\ mishaps \subseteq {"push"} => input = <<>>

(* The response in the buffer has this status and this body, and announces its length. *)
Says(status, body) ==
  LET last == <<"Content-Length", ":", " ">> \o ToDigits(Len(body)) \o CRLF \o CRLF \o body
  IN  data[3] = status /\ SubSeq(data, size - Len(last) + 1, size) = last

PasteUri(uri) ==
  /\ Len(uri) \in 2..3 /\ uri[1] = "/" /\ IsDigit(uri[2])
  /\ Len(uri) = 3 => uri[3] = "/"

(* The response is the one that the client's request m calls for. *)
RightResponse(m) ==
  CASE m.method = "GET" /\ m.uri = <<"/">> -> Says("200", <<"index">>)
    [] m.method = "GET" /\ PasteUri(m.uri) ->
         \/ \E id \in 1..Len(store) : Digit[id] = m.uri[2] /\ Says("200", store[id])
         \/ /\ "db" \in Faults \/ \A id \in 1..Len(store) : Digit[id] # m.uri[2]
            /\ Says("404", <<"missing">>)
    [] m.method = "POST" /\ m.uri = <<"/">> /\ m.body = <<>> -> Says("400", <<"empty">>)
    [] m.method = "POST" /\ m.uri = <<"/">> /\ m.body # <<>> ->
         \/ store # <<>> /\ Last(store) = m.body /\ Says("200", ToDigits(Len(store) - 1))
         \/ "db" \in Faults /\ Says("500", <<>>)
    [] OTHER -> Says("404", <<>>)

(* What the client meant is what is parsed, routed and answered, however its bytes were    *)
(* cut into segments and whatever earlier requests and responses left in the buffer: the   *)
(* paste that is stored is the one that was sent, and the one that is sent back is the one *)
(* asked for.  A message that is no request is not answered.  Four things excuse the       *)
(* server: see mishaps.                                                                    *)
AnswersWhatWasAsked ==
  pc = "answered" /\ mishaps = {} => ~msg.bad /\ RightResponse(msg)
============================================================================
