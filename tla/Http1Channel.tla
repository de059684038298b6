---------------------------- MODULE Http1Channel ----------------------------
(***************************************************************************)
(* One HTTP/1.1 connection of the XHTTP channel pool: the output buffers   *)
(* and the input cache of tls_transport.c, the response parser of http1.c  *)
(* and the actor loop of http2_pool.c that drives them, one request at a   *)
(* time.  The wire carries tokens: a head, a chunk size, a body byte, an   *)
(* end of line.  The server answers in any framing and may end the         *)
(* connection anywhere.                                                    *)
(***************************************************************************)
EXTENDS Naturals, Sequences, SequencesExt, FiniteSets

CONSTANTS Mode,         \* "plain", "ssl" (OpenSSL) or "tls" (own records)
          Bodies(_),    \* the kinds of the k-th request and their bytes: <<"get", 0>>, <<"packet", n>> (counted),
                        \* <<"piece", n>> and <<"stream", n>> (chunked)
          Answers(_),   \* the token sequences a server may answer it with
          MaxRequests,  \* bound: requests of the connection
          CacheLimit,   \* 65536 or 49152: input kept while it cannot be parsed
          RecordLimit,  \* plaintext of one record or one SSL_write
          Window        \* receive window of a request

VARIABLES ch, req, srv

http1Vars == <<ch, req, srv>>

NoParser == [state |-> "head", remaining |-> 0, close |-> FALSE, delimited |-> FALSE]
NoReq == [k |-> 0, role |-> "none", left |-> 0, headers |-> FALSE, ended |-> FALSE, send_ended |-> FALSE]

Packet(role) == role \in {"packet", "piece"}
Chunked(role) == role \in {"stream", "piece"}
Active == req.k # 0 /\ ~ (req.ended /\ req.send_ended)

-----------------------------------------------------------------------------
(* http1.c *)

\* A head token is <<"head", status, framing, length, close>>; a body without
\* length or chunks lasts until the end of the connection.
headers(p, t) ==
  IF t[2] = "info" THEN p
  ELSE [state |-> IF t[3] = "chunked" THEN "size" ELSE "body", remaining |-> IF t[3] = "length" THEN t[4] ELSE 1,
        close |-> t[5] \/ t[3] = "close", delimited |-> t[3] = "close"]

Event(r, kind, p, rest) == [r |-> r, kind |-> kind, p |-> p, rest |-> rest]
Await(p, data, eof) == Event(IF eof THEN "error" ELSE "more", "none", p, data)

\* core_http1_next: the next event in the input, and the input behind it.  The
\* parser moves on, and input is used up, even when there is no event yet.
RECURSIVE Body(_, _, _, _)
Body(p, data, eof, capacity) ==
  LET t == data[1]
      to(state) == Body([p EXCEPT !.state = state], Tail(data), eof, capacity)
  IN  CASE p.state \in {"body", "chunk"} /\ p.remaining = 0 ->
             IF p.state = "chunk" THEN Body([p EXCEPT !.state = "line"], data, eof, capacity)
             ELSE Event("event", "end", [p EXCEPT !.state = "done"], data)
        [] p.state \in {"body", "chunk"} /\ data = <<>> ->
             IF eof /\ p.delimited THEN Event("event", "end", [p EXCEPT !.state = "done", !.remaining = 0], data)
             ELSE Await(p, data, eof)
        [] p.state \in {"body", "chunk"} /\ data # <<>> /\ p.remaining > 0 ->
             IF capacity = 0 THEN Event("more", "none", p, data)
             ELSE Event("event", "data", [p EXCEPT !.remaining = IF p.delimited THEN @ ELSE @ - 1], Tail(data))
        [] p.state \in {"line", "size", "trailer"} /\ data = <<>> -> Await(p, data, eof)
        [] p.state = "line" /\ data # <<>> ->
             IF t[1] = "crlf" THEN to("size") ELSE Event("error", "none", p, data)
        [] p.state = "size" /\ data # <<>> ->
             IF t[1] # "size" THEN Event("error", "none", p, data)
             ELSE Body([p EXCEPT !.remaining = t[2], !.state = IF t[2] > 0 THEN "chunk" ELSE "trailer"], Tail(data), eof, capacity)
        [] p.state = "trailer" /\ data # <<>> ->
             IF t[1] = "crlf" THEN Event("event", "end", [p EXCEPT !.state = "done"], Tail(data))
             ELSE IF t[1] = "field" THEN to("trailer") ELSE Event("error", "none", p, data)

core_http1_next(p, data, eof, capacity) ==
  CASE p.state = "head" /\ data = <<>> -> Await(p, data, eof)
    [] p.state = "head" /\ data # <<>> ->
         IF data[1][1] = "head" THEN Event("event", "head", headers(p, data[1]), Tail(data)) ELSE Event("error", "none", p, data)
    [] p.state = "done" -> Event(IF data = <<>> THEN "more" ELSE "error", "none", p, data)
    [] OTHER -> Body(p, data, eof, capacity)

-----------------------------------------------------------------------------
(* Output *)

\* xmux_transport_send_frame: chunked bodies get a size and an end of line, a
\* frame of no bytes being the last chunk; the last frame of a piece adds it.
Framed(role, n, last) ==
  LET data == [i \in 1..n |-> <<"d", req.k>>]
  IN  IF ~ Chunked(role) THEN data
      ELSE <<<<"size", n>>>> \o data \o <<<<"crlf">>>> \o (IF role = "piece" /\ n > 0 /\ last THEN <<<<"size", 0>>, <<"crlf">>>> ELSE <<>>)

Enqueue(c, tokens) == [c EXCEPT !.plain = @ \o tokens, !.enqueued = @ + Len(tokens)]

Fail == ch' = [ch EXCEPT !.pc = "failed"] /\ UNCHANGED <<req, srv>>

\* What advance_streams does besides starting requests and sending bodies: it
\* reopens the window for what was read, and drops a request that is over.  A
\* packet answered before its body is out leaves the stream of requests
\* undelimited: its reset shuts the socket.
Shut(q) == ch.shut \/ (q.ended /\ ~ q.send_ended /\ Packet(q.role))

Over(q) == q.ended /\ (Packet(q.role) \/ q.send_ended)

Advance(c, q) ==
  /\ ch' = [c EXCEPT !.pc = IF c.draining /\ (q.k = 0 \/ Over(q)) THEN "stopped" ELSE "flush", !.shut = Shut(q),
                     !.room = @ + c.credit, !.credit = 0]
  /\ req' = IF Over(q) THEN NoReq ELSE q
  /\ UNCHANGED srv

\* xmux_transport_request and start_request: one request at a time, and none
\* while input is left or ended.
StartRequest ==
  /\ ch.pc = "advance" /\ req.k = 0 /\ ~ ch.draining /\ ch.started < MaxRequests
  /\ IF ch.id # 0 \/ ch.cache # <<>> \/ ch.eof THEN Fail
     ELSE \E b \in Bodies(ch.started + 1) :
            Advance(Enqueue([ch EXCEPT !.started = @ + 1, !.id = ch.started + 1, !.parser = NoParser, !.room = Window, !.credit = 0],
                            <<<<"req", ch.started + 1, b[1], b[2]>>>>),
                    [NoReq EXCEPT !.k = ch.started + 1, !.role = b[1], !.left = b[2], !.send_ended = b[1] = "get"])

\* advance_streams: some bytes of the body, or the end of a chunked one.  A
\* response that is over takes the connection away from a stream.
SendFrame ==
  /\ ch.pc = "advance" /\ req.k # 0 /\ ~ req.send_ended /\ (Packet(req.role) => ~ req.ended)
  /\ IF ch.id # req.k THEN Fail
     ELSE \E n \in 0..req.left :
            LET last == n = 0 \/ (Packet(req.role) /\ n = req.left) IN
            /\ n = 0 => Chunked(req.role)
            /\ Advance(Enqueue(ch, Framed(req.role, n, last)), [req EXCEPT !.left = IF last THEN 0 ELSE @ - n, !.send_ended = last])

NothingToSend == ch.pc = "advance" /\ Advance(ch, req)

\* xmux_transport_flush, plain socket or OpenSSL: any part is taken; OpenSSL
\* must be offered the same length again after it refused.
Written(c, n) == [c EXCEPT !.plain = SubSeq(@, n + 1, Len(@)), !.flushed = @ + n, !.write_length = 0, !.sent = @ \o SubSeq(c.plain, 1, n)]

FlushDirect ==
  /\ ch.pc = "flush" /\ ch.mode # "tls"
  /\ LET offered == IF ch.mode = "plain" THEN Len(ch.plain)
                    ELSE IF ch.write_length # 0 THEN ch.write_length
                    ELSE IF Len(ch.plain) > RecordLimit THEN RecordLimit ELSE Len(ch.plain)
     IN  IF ch.shut /\ offered > 0 THEN Fail
         ELSE /\ \E n \in 0..offered :
                   ch' = IF n = 0 THEN [ch EXCEPT !.pc = "collect", !.write_length = IF ch.mode = "ssl" THEN offered ELSE 0]
                         ELSE [Written(ch, n) EXCEPT !.pc = "collect", !.moved = TRUE]
              /\ UNCHANGED <<req, srv>>

\* The project's own TLS: one record at a time, sealed from the plain output
\* and then written in parts; its bytes count as flushed when all of it is out.
\* wire is the part of the record still to be written, in tokens and one for
\* the record's own bytes.
Sealed(c) ==
  IF c.wire = 0 /\ c.plain # <<>>
  THEN LET n == IF Len(c.plain) > RecordLimit THEN RecordLimit ELSE Len(c.plain)
       IN  [c EXCEPT !.record = SubSeq(c.plain, 1, n), !.plain = SubSeq(@, n + 1, Len(@)), !.wire = n + 1]
  ELSE c

Sent_Early(c, n) == [c EXCEPT !.wire = @ - n, !.record = <<>>, !.sent = IF c.wire = n THEN @ \o c.record ELSE @, !.flushed = @ + Len(c.record)]

Sent(c, n) ==
  IF c.wire = n THEN [c EXCEPT !.wire = 0, !.record = <<>>, !.sent = @ \o c.record, !.flushed = @ + Len(c.record)]
  ELSE [c EXCEPT !.wire = @ - n]

FlushRecords ==
  /\ ch.pc = "flush" /\ ch.mode = "tls"
  /\ LET c == Sealed(ch)
     IN  IF ch.shut /\ c.wire > 0 THEN Fail
         ELSE /\ \E n \in 0..c.wire :
                   ch' = IF n = 0 THEN [c EXCEPT !.pc = "collect"]
                         ELSE [Sent(c, n) EXCEPT !.pc = "collect", !.moved = @ \/ c.wire = n]
              /\ UNCHANGED <<req, srv>>

-----------------------------------------------------------------------------
(* Input *)

\* xmux_transport_collect.  The socket gives some of what has arrived; at its
\* end a plain socket and OpenSSL report the end of input, and so does a
\* close_notify in a record of our own TLS, where a bare end is an error.
Room(c) == ~ c.eof /\ Len(c.cache) < CacheLimit

Closed == srv.over # "no" \/ ch.shut
Silent == srv.down = <<>> /\ ~ Closed

Ends(c) ==
  {[c EXCEPT !.pc = "read", !.eof = TRUE, !.moved = TRUE] : x \in IF c.mode # "tls" \/ srv.over = "clean" THEN {1} ELSE {}}
  \cup {[c EXCEPT !.pc = "failed"] : x \in IF c.mode = "plain" \/ srv.over = "clean" THEN {} ELSE {1}}

CollectDirect ==
  /\ ch.pc = "collect" /\ ch.mode # "tls"
  /\ \/ /\ ~ Room(ch) \/ Silent
        /\ ch' = [ch EXCEPT !.pc = "read"] /\ UNCHANGED srv
     \/ /\ Room(ch) /\ srv.down # <<>>
        /\ \E n \in 1..Len(srv.down) :
             /\ Len(ch.cache) + n <= CacheLimit
             /\ ch' = [ch EXCEPT !.pc = "read", !.moved = TRUE, !.cache = @ \o SubSeq(srv.down, 1, n)]
             /\ srv' = [srv EXCEPT !.down = SubSeq(@, n + 1, Len(@))]
     \/ /\ Room(ch) /\ srv.down = <<>> /\ Closed
        /\ ch' \in Ends(ch) /\ UNCHANGED srv
  /\ UNCHANGED req

\* Records are opened until there is input to parse; what was received behind
\* it stays in xmux_raw_input.
CollectRecords ==
  /\ ch.pc = "collect" /\ ch.mode = "tls"
  /\ \/ /\ ~ Room(ch) \/ (ch.raw = <<>> /\ Silent)
        /\ ch' = [ch EXCEPT !.pc = "read"] /\ UNCHANGED srv
     \/ /\ Room(ch) /\ (ch.raw # <<>> \/ srv.down # <<>>)
        /\ \E n \in IF ch.raw # <<>> THEN {0} ELSE 1..Len(srv.down) :
             LET raw == ch.raw \o SubSeq(srv.down, 1, n) IN
             /\ ch' = [ch EXCEPT !.pc = "read", !.moved = TRUE, !.cache = Append(@, raw[1]), !.raw = Tail(raw)]
             /\ srv' = [srv EXCEPT !.down = SubSeq(@, n + 1, Len(@))]
     \/ /\ Room(ch) /\ ch.raw = <<>> /\ srv.down = <<>> /\ Closed
        /\ ch' \in Ends(ch) /\ UNCHANGED srv
  /\ UNCHANGED req

\* xmux_transport_events, and the wait of the actor: none after progress.
PollIn(c) == Room(c) /\ ~ c.blocked

Wait(c, blocked) == [c EXCEPT !.pc = IF c.moved THEN "advance" ELSE "asleep", !.moved = FALSE, !.blocked = blocked]

\* xmux_transport_read_frame for HTTP/1.1, and process_frame on its event.
Consumed(e, c) == [c EXCEPT !.parser = e.p, !.cache = e.rest]

Blocked(c) == c.room = 0 /\ c.cache # <<>> /\ c.parser.state \in {"body", "chunk"} /\ c.parser.remaining > 0

Log(c, what) == [c EXCEPT !.events = Append(@, what)]

ReadFrame ==
  /\ ch.pc = "read" /\ ch.id # 0
  /\ LET e == core_http1_next(ch.parser, ch.cache, ch.eof, ch.room)
         c == Consumed(e, ch)
         bad == e.r = "error" \/ (e.kind = "head" /\ (ch.cache[1][2] = "bad" \/ (ch.cache[1][2] = "ok" /\ req.headers)))
     IN  IF bad THEN Fail
         ELSE /\ CASE e.r = "more" -> ch' = Wait(c, Blocked(c)) /\ UNCHANGED req
                   [] e.kind = "head" ->
                        /\ ch' = [c EXCEPT !.moved = TRUE, !.draining = @ \/ (ch.cache[1][2] = "ok" /\ e.p.close)]
                        /\ req' = [req EXCEPT !.headers = @ \/ ch.cache[1][2] = "ok"]
                   [] e.kind = "data" ->
                        /\ ch' = Log([c EXCEPT !.moved = TRUE, !.room = @ - 1], <<ch.id, ch.cache[Len(ch.cache) - Len(e.rest)]>>)
                        /\ UNCHANGED req
                   [] e.kind = "end" ->
                        /\ ch' = Log([c EXCEPT !.moved = TRUE, !.id = 0, !.draining = @ \/ e.p.close], <<ch.id, <<"end">>>>)
                        /\ req' = [req EXCEPT !.ended = TRUE]
              /\ UNCHANGED srv

ReadIdle ==
  /\ ch.pc = "read" /\ ch.id = 0
  /\ IF ch.eof /\ ~ ch.told
     THEN IF Active THEN Fail
          ELSE ch' = [ch EXCEPT !.told = TRUE, !.draining = TRUE, !.moved = TRUE] /\ UNCHANGED <<req, srv>>
     ELSE ch' = Wait(ch, FALSE) /\ UNCHANGED <<req, srv>>

PollOut(c) == c.plain # <<>> \/ c.wire > 0

\* The socket is ready, or the actor is woken: by a client that has data or by
\* one that has read some.
Ready == (PollIn(ch) /\ ~ Silent) \/ PollOut(ch)

Wake ==
  /\ ch.pc = "asleep" /\ (ch.woken \/ Ready \/ (~ req.send_ended /\ req.k # 0) \/ (req.k = 0 /\ ch.started < MaxRequests))
  /\ ch' = [ch EXCEPT !.pc = "advance", !.woken = FALSE]
  /\ UNCHANGED <<req, srv>>

\* The client reads a byte and wakes the actor, which finds the byte in its
\* socket pair even if it was not asleep.
Read ==
  /\ ch.pc \notin {"failed", "stopped"} /\ ch.room + ch.credit < Window
  /\ ch' = [ch EXCEPT !.credit = @ + 1, !.woken = TRUE]
  /\ UNCHANGED <<req, srv>>

-----------------------------------------------------------------------------
(* The server *)

\* It answers the requests it has seen in order, token by token.
Seen == {t[2] : t \in {ch.sent[i] : i \in {j \in DOMAIN ch.sent : ch.sent[j][1] = "req"}}}

Numbered(a, k) ==
  [i \in DOMAIN a |-> IF a[i][1] = "d" THEN <<"d", k, Cardinality({j \in 1..i : a[j][1] = "d"})>> ELSE a[i]]

Answer ==
  /\ srv.over = "no" /\ srv.plan = <<>> /\ srv.k + 1 \in Seen
  /\ \E a \in Answers(srv.k + 1) : srv' = [srv EXCEPT !.k = @ + 1, !.plan = Numbered(a, srv.k + 1)]
  /\ UNCHANGED <<ch, req>>

Send ==
  /\ srv.over = "no" /\ srv.plan # <<>> /\ Len(srv.down) < CacheLimit
  /\ srv' = [srv EXCEPT !.down = Append(@, srv.plan[1]), !.plan = Tail(@),
                        !.n = IF srv.plan[1][1] = "d" THEN srv.plan[1][3] ELSE IF srv.plan[1][1] = "head" THEN 0 ELSE @,
                        !.until = IF srv.plan[1][1] = "head" THEN srv.plan[1][3] = "close" ELSE @]
  /\ UNCHANGED <<ch, req>>

\* It closes, cleanly after a whole answer or not.
End ==
  /\ srv.over = "no"
  /\ srv' = [srv EXCEPT !.over = "cut"] \/ (srv.plan = <<>> /\ srv' = [srv EXCEPT !.over = "clean"])
  /\ UNCHANGED <<ch, req>>

Http1Init ==
  /\ \E m \in Mode :
       ch = [mode |-> m, pc |-> "advance", plain |-> <<>>, wire |-> 0, record |-> <<>>, write_length |-> 0,
             enqueued |-> 0, flushed |-> 0, sent |-> <<>>, cache |-> <<>>, raw |-> <<>>, eof |-> FALSE, told |-> FALSE,
             id |-> 0, parser |-> NoParser, room |-> Window, credit |-> 0, woken |-> FALSE, started |-> 0, draining |-> FALSE, shut |-> FALSE,
             moved |-> FALSE, blocked |-> FALSE, events |-> <<>>]
  /\ req = NoReq
  /\ srv = [k |-> 0, plan |-> <<>>, down |-> <<>>, over |-> "no", n |-> 0, until |-> FALSE]

Http1Next ==
  \/ StartRequest \/ SendFrame \/ NothingToSend \/ FlushDirect \/ FlushRecords
  \/ CollectDirect \/ CollectRecords \/ ReadFrame \/ ReadIdle \/ Wake \/ Read
  \/ Answer \/ Send \/ End

Http1Spec == Http1Init /\ [][Http1Next]_http1Vars

-----------------------------------------------------------------------------
Events(k) == [i \in 1..Len(SelectSeq(ch.events, LAMBDA e : e[1] = k)) |-> SelectSeq(ch.events, LAMBDA e : e[1] = k)[i][2]]

\* On a connection that carries one response after another, every request gets
\* the bytes of its own response, all in order, and an end only behind the last
\* of them; a response cut short never ends, except where the end of the
\* connection is all that delimits it and cannot be told from a cut.
ResponsesSeparate ==
  \A k \in 1..ch.started :
    LET e == Events(k)
        ended == e # <<>> /\ Last(e) = <<"end">>
        n == IF ended THEN Len(e) - 1 ELSE Len(e)
    IN  /\ \A i \in 1..n : e[i] = <<"d", k, i>>
        /\ ended /\ srv.k = k /\ srv.plan # <<>> /\ srv.plan[1] # <<"junk">> => srv.until /\ srv.over = "cut" /\ ch.mode # "tls"
        /\ ended /\ srv.k = k => n = srv.n

Requests == {i \in DOMAIN ch.sent : ch.sent[i][1] = "req"}

\* The server finds every request where it expects one: behind the whole body
\* of the request before it, be that counted or chunked.
RequestsDelimited ==
  \A i \in Requests, j \in Requests :
    i < j /\ (\A m \in Requests : m <= i \/ m >= j) =>
      LET body == SubSeq(ch.sent, i + 1, j - 1)
          role == ch.sent[i][3]
          zeros == {m \in DOMAIN body : body[m] = <<"size", 0>>}
      IN  CASE role = "get" -> body = <<>>
            [] role = "packet" -> Len(body) = ch.sent[i][4]
            [] Chunked(role) -> zeros = {Len(body) - 1} /\ Last(body) = <<"crlf">>

\* The counts behind the fences of the pool: a byte is counted as flushed when
\* the socket has it, not while a part of its record is still to be written,
\* and none is counted twice or forgotten over partial writes.
FlushedExact ==
  /\ ch.flushed = Len(ch.sent)
  /\ ch.enqueued = ch.flushed + Len(ch.record) + Len(ch.plain)

\* The actor never sleeps on input it could use: input that poll cannot report
\* any more, or that it was not asked to report, waits only for the client to
\* read.
NoInputAsleep ==
  ch.pc = "asleep" /\ ~ ch.woken /\ ~ ch.eof /\ (ch.raw # <<>> \/ (~ Silent /\ ~ PollIn(ch))) => ch.room = 0 /\ ch.credit = 0

\* The exchanges of a connection do not run into each other, and the actor's
\* view of it is exact: what it counts as sent is sent, and it sleeps only
\* when there is nothing to do.
Http1Faithful == ResponsesSeparate /\ RequestsDelimited /\ FlushedExact /\ NoInputAsleep
=============================================================================
