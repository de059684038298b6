----------------------------- MODULE WebSocket -----------------------------
(***************************************************************************)
(* The WebSocket and HTTPUpgrade carriers (websocket.c, tls_websocket.c,   *)
(* tls_httpupgrade.c and the parts of tls13_reality.c that write, read,    *)
(* tick and finish them).  Both switch protocols with one HTTP exchange;   *)
(* a WebSocket carrier then frames what it writes and decodes what it      *)
(* reads, an HTTPUpgrade carrier passes bytes through.  What the server    *)
(* sends is a sequence of tokens (a header line, the two parts of a frame  *)
(* header, a byte of a payload) that reads cut anywhere.                   *)
(***************************************************************************)
EXTENDS Integers, Sequences, SequencesExt, FiniteSetsExt

CONSTANTS Carriers,     \* the carriers, each [kind, early]: early data allowed
          Answers,      \* responses a server may give: [status, lines]
          Scripts(_),   \* frames a server may send behind its response, by kind
          MaxWrites,    \* bound: writes of the relay
          MaxPings,     \* bound: heartbeats
          Short,        \* the longest size coded in the first two bytes, and control payload
          CORE_WS_MESSAGE_LIMIT,
          Heartbeat     \* is a heartbeat period configured?

VARIABLES c,     \* tls13_conn_t
          wire,  \* tokens of the server not yet read
          plan   \* what the server does: its answer, its frames and what they mean

wsVars == <<c, wire, plan>>

Extended == -1
Control(op) == op \in {"close", "ping", "pong"}

Fresh == [active |-> FALSE, header |-> <<>>, fin |-> TRUE, opcode |-> "none", fragmented |-> FALSE, text |-> FALSE, left |-> 0, strict |-> FALSE,
          message_length |-> 0, remaining |-> 0, control |-> <<>>, closed |-> FALSE, failed |-> FALSE]

-----------------------------------------------------------------------------
(* The server.  A frame is [fin, op, ext, data]; ext: the size is coded in   *)
(* the long form.  A byte of a text is ASCII "a", a first byte "l1" or "l2", *)
(* a continuation "c", or one, "x", that may not follow an "l2" directly.    *)
FrameTokens(f, i) ==
  LET size == Len(f.data)
      head == IF f.ext THEN <<<<"head", f.fin, f.op, Extended>>, <<"size", size>>>> ELSE <<<<"head", f.fin, f.op, size>>>>
  IN  head \o [j \in 1..size |-> <<"byte", f.data[j], i, j>>]

Lines(a) == <<<<"status", a.status>>>> \o [i \in DOMAIN a.lines |-> <<"line">> \o a.lines[i]] \o <<<<"blank">>>>

Stream(p) == Lines(p.answer) \o FlattenSeq([i \in DOMAIN p.script |-> FrameTokens(p.script[i], i)])

-----------------------------------------------------------------------------
(* websocket.c *)

Values(lines, name) == SelectSeq([i \in DOMAIN lines |-> IF lines[i][2] = name THEN lines[i][3] ELSE "none"], LAMBDA v : v # "none")
Has(lines, name, v) == \E i \in DOMAIN Values(lines, name) : Values(lines, name)[i] = v

\* Upgrade and Connection may be repeated lists; the accept value comes once;
\* a subprotocol is only accepted as the echo of early data; no extension is.
core_ws_validate_upgrade(lines, early) ==
  LET rest == Tail(lines) IN
  /\ lines[1][2]
  /\ \A name \in {"upgrade", "connection"} : Has(rest, name, "ok") /\ ~ Has(rest, name, "invalid")
  /\ Values(rest, "accept") = <<"ok">>
  /\ Values(rest, "protocol") \in (IF early THEN {<<>>, <<"echo">>} ELSE {<<>>})
  /\ Values(rest, "extensions") = <<>>

core_httpupgrade_validate(lines) ==
  /\ lines[1][2]
  /\ \A name \in {"upgrade", "connection"} : Values(Tail(lines), name) = <<"ok">>

utf8_byte(d, k) ==
  IF d.left > 0
  THEN IF k = "c" \/ (k = "x" /\ ~ d.strict) THEN [d EXCEPT !.left = @ - 1, !.strict = FALSE] ELSE [d EXCEPT !.failed = TRUE]
  ELSE CASE k = "a" -> d
         [] k = "l1" -> [d EXCEPT !.left = 1, !.strict = FALSE]
         [] k = "l2" -> [d EXCEPT !.left = 2, !.strict = TRUE]
         [] OTHER -> [d EXCEPT !.failed = TRUE]

utf8(d, bytes) == FoldLeft(LAMBDA acc, t : IF acc.failed THEN acc ELSE utf8_byte(acc, t[2]), d, bytes)

\* A frame header is complete: head is its first part, size its length.
frame_header(d, head, size) ==
  LET fin == head[2]
      op == head[3]
      minimal == head[4] # Extended \/ size > Short
      fits == IF Control(op) THEN fin /\ size <= Short /\ (op = "close" => size # 1)
              ELSE (op = "cont") = d.fragmented /\ size <= CORE_WS_MESSAGE_LIMIT - (IF op = "cont" THEN d.message_length ELSE 0)
      x == [d EXCEPT !.header = <<>>, !.fin = fin, !.opcode = op, !.remaining = size, !.active = TRUE]
  IN  IF op = "reserved" \/ ~ minimal \/ ~ fits THEN [d EXCEPT !.failed = TRUE]
      ELSE IF Control(op) THEN [x EXCEPT !.control = <<>>]
      ELSE IF op = "cont" THEN [x EXCEPT !.message_length = @ + size]
      ELSE [x EXCEPT !.text = op = "text", !.left = 0, !.message_length = size, !.fragmented = ~ fin]

MessageOver_Any(d) == d.fin

MessageOver(d) == ~ Control(d.opcode) /\ d.fin

frame_end(d) ==
  LET done == MessageOver(d)
      reason == utf8(Fresh, SubSeq(d.control, 3, Len(d.control)))
      badText == done /\ d.text /\ d.left > 0
      badClose == d.opcode = "close" /\ d.control # <<>> /\ ((\E i \in 1..2 : d.control[i][2] # "code") \/ reason.failed \/ reason.left > 0)
  IN  IF badText \/ badClose THEN [d EXCEPT !.failed = TRUE]
      ELSE [d EXCEPT !.fragmented = IF done THEN FALSE ELSE @, !.message_length = IF done THEN 0 ELSE @,
                     !.closed = d.opcode = "close", !.active = FALSE]

Event(d, used, r, op, data) == [d |-> d, used |-> used, r |-> r, op |-> op, data |-> data]
Invalid(d) == Event([d EXCEPT !.failed = TRUE], 0, -1, "none", <<>>)

Ended(d) == IF d.failed \/ d.remaining > 0 THEN d ELSE frame_end(d)

\* The next bytes of a payload.
Consumed(d, bytes) ==
  LET moved == [d EXCEPT !.remaining = @ - Len(bytes)] IN
  IF Control(d.opcode) THEN [moved EXCEPT !.control = @ \o bytes] ELSE IF d.text THEN utf8(moved, bytes) ELSE moved

\* One round of core_ws_decode: a part of a header, or bytes of a payload;
\* x is the decoder behind it.  "more": there is nothing to report yet.
Round(x, used, bytes) ==
  IF x.failed THEN Invalid(x)
  ELSE IF Control(x.opcode) /\ ~ x.active /\ x.header = <<>> THEN Event(x, used, 1, x.opcode, x.control)
  ELSE IF bytes # <<>> /\ ~ Control(x.opcode) THEN Event(x, used, 1, x.opcode, bytes)
  ELSE Event(x, used, 0, "more", <<>>)

Decode(d, input, used) ==
  LET next == input[used + 1]
      bytes == SubSeq(input, used + 1, used + Min({Len(input) - used, d.remaining}))
  IN  IF used = Len(input) THEN Event(d, used, 0, "none", <<>>)
      ELSE IF d.active THEN Round(Ended(Consumed(d, bytes)), used + Len(bytes), bytes)
      ELSE IF next[1] = "head" /\ next[4] = Extended THEN Event([d EXCEPT !.header = next], used + 1, 0, "more", <<>>)
      ELSE Round(Ended(IF next[1] = "size" THEN frame_header(d, d.header, next[2]) ELSE frame_header(d, next, next[4])), used + 1, <<>>)

RECURSIVE Again(_, _)
Again(e, input) == IF e.op = "more" THEN Again(Decode(e.d, input, e.used), input) ELSE e

\* core_ws_decode: up to the next piece of data or the next control frame.
core_ws_decode(d, input) == Again(Decode(d, input, 0), input)

-----------------------------------------------------------------------------
(* tls_websocket.c *)

\* ws_write_frame: a frame, whole and masked, goes to the wire.
ws_write_frame(x, op, data) == [x EXCEPT !.sent = Append(@, [op |-> op, data |-> data])]

\* What ws_fill_app_cache does with a decoded event.
Handled(x, e) ==
  LET y == [x EXCEPT !.decoder = e.d, !.net_cache = SubSeq(@, e.used + 1, Len(@))]
      payload == [i \in DOMAIN e.data |-> e.data[i][2]]
  IN  CASE e.r = -1 -> [y EXCEPT !.failed = TRUE]
        [] e.r = 1 /\ ~ Control(e.op) -> [y EXCEPT !.app_cache = @ \o e.data]
        [] e.op = "ping" -> ws_write_frame(y, "pong", payload)
        [] e.op = "close" /\ ~ x.close_sent -> [ws_write_frame(y, "close", payload) EXCEPT !.close_sent = TRUE]
        [] OTHER -> y

\* ws_fill_app_cache, as far as it gets without reading.
RECURSIVE ws_fill(_)
ws_fill(x) ==
  IF x.failed \/ x.decoder.closed \/ x.app_cache # <<>> \/ x.net_cache = <<>> THEN x
  ELSE ws_fill(Handled(x, core_ws_decode(x.decoder, x.net_cache)))

\* find_double_crlf: the response has been received up to its end.
Blank(tokens) == {i \in DOMAIN tokens : tokens[i][1] = "blank"}
HeaderEnd(tokens) == CHOOSE i \in Blank(tokens) : TRUE

\* ws_upgrade: the request, with the early data in it, then the response, and
\* what was read behind it is left to the decoder.
ws_upgrade(x, early, cut) ==
  LET head == HeaderEnd(wire)
      ok == core_ws_validate_upgrade(SubSeq(wire, 1, head - 1), early # <<>>)
      y == [x EXCEPT !.sent = Append(@, [op |-> "request", data |-> early])]
  IN  IF ~ ok THEN [y EXCEPT !.failed = TRUE]
      ELSE [y EXCEPT !.upgraded = TRUE, !.net_cache = SubSeq(wire, head + 1, cut), !.heartbeat = IF Heartbeat THEN "armed" ELSE "off"]

\* httpupgrade_response, once the response is complete.
httpupgrade_response(x, input) ==
  LET head == HeaderEnd(input) IN
  IF Blank(input) = {} THEN [x EXCEPT !.net_cache = input]
  ELSE IF ~ core_httpupgrade_validate(SubSeq(input, 1, head - 1)) THEN [x EXCEPT !.failed = TRUE]
  ELSE [x EXCEPT !.upgraded = TRUE, !.net_cache = SubSeq(input, head + 1, Len(input))]

\* With early data the WebSocket exchange is left to the first write, the
\* HTTPUpgrade response to the first read; without, the caller waits for the
\* response, and may read some of what follows it.
ws_connect ==
  /\ c.state = "new" /\ c.kind = "ws"
  /\ \/ /\ c.early > 0
        /\ c' = [c EXCEPT !.state = "open"] /\ wire' = wire
     \/ /\ c.early = 0
        /\ \E cut \in HeaderEnd(wire)..Len(wire) :
             /\ c' = [ws_upgrade(c, <<>>, cut) EXCEPT !.state = "open"]
             /\ wire' = SubSeq(wire, cut + 1, Len(wire))
  /\ UNCHANGED plan

httpupgrade_connect ==
  /\ c.state = "new" /\ c.kind = "httpupgrade"
  /\ LET x == [c EXCEPT !.sent = <<[op |-> "request", data |-> <<>>]>>, !.state = "open"] IN
     \/ /\ c.early > 0
        /\ c' = x /\ wire' = wire
     \/ /\ c.early = 0
        /\ \E cut \in HeaderEnd(wire)..Len(wire) :
             /\ c' = httpupgrade_response(x, SubSeq(wire, 1, cut))
             /\ wire' = SubSeq(wire, cut + 1, Len(wire))
  /\ UNCHANGED plan

Usable == c.state = "open" /\ ~ c.failed

\* tls13_write_app.
Early(x, early, data) == IF x.failed \/ early THEN x ELSE ws_write_frame(x, "data", data)

Write ==
  /\ Usable /\ c.writes < MaxWrites
  /\ ~ c.send_closed /\ (c.kind = "ws" => ~ c.close_sent /\ ~ c.decoder.closed)
  /\ \E n \in 1..2 :
       LET data == [j \in 1..n |-> <<c.writes + 1, j>>]
           x == [c EXCEPT !.writes = @ + 1, !.written = @ \o data]
           early == n <= c.early
       IN  \/ /\ c.kind = "httpupgrade" \/ c.upgraded
              /\ c' = ws_write_frame(x, "data", data)
              /\ wire' = wire
           \/ /\ c.kind = "ws" /\ ~ c.upgraded
              /\ \E cut \in HeaderEnd(wire)..Len(wire) :
                   /\ c' = Early(ws_upgrade(x, IF early THEN data ELSE <<>>, cut), early, data)
                   /\ wire' = SubSeq(wire, cut + 1, Len(wire))
  /\ UNCHANGED plan

Take(x) == [x EXCEPT !.app_cache = <<>>, !.read = @ \o x.app_cache, !.ended = x.app_cache = <<>> /\ x.decoder.closed]

\* tls13_read_app of a WebSocket carrier: what is cached, else what arrives.
ReadWs ==
  /\ Usable /\ c.kind = "ws" /\ c.upgraded /\ ~ c.ended
  /\ \E x \in {ws_fill(c)} : LET idle == ~ x.failed /\ x.app_cache = <<>> /\ ~ x.decoder.closed IN
       \/ ~ idle /\ c' = Take(x) /\ wire' = wire
       \/ /\ idle /\ wire # <<>>
          /\ \E n \in 1..Len(wire) :
               /\ c' = Take(ws_fill([x EXCEPT !.net_cache = SubSeq(wire, 1, n)]))
               /\ wire' = SubSeq(wire, n + 1, Len(wire))
       \/ /\ idle /\ wire = <<>>
          /\ c' = [x EXCEPT !.failed = TRUE] /\ wire' = wire
  /\ UNCHANGED plan

\* httpupgrade_read_app: first the rest of the response, then what came
\* behind it, then the socket itself.
ReadHttpUpgrade ==
  /\ Usable /\ c.kind = "httpupgrade" /\ ~ c.ended
  /\ \/ /\ c.upgraded /\ c.net_cache # <<>>
        /\ \E n \in 1..Len(c.net_cache) :
             c' = [c EXCEPT !.read = @ \o SubSeq(c.net_cache, 1, n), !.net_cache = SubSeq(@, n + 1, Len(@))]
        /\ wire' = wire
     \/ /\ c.upgraded /\ c.net_cache = <<>> /\ wire # <<>>
        /\ \E n \in 1..Len(wire) :
             c' = [c EXCEPT !.read = @ \o SubSeq(wire, 1, n)] /\ wire' = SubSeq(wire, n + 1, Len(wire))
     \/ /\ c.upgraded /\ c.net_cache = <<>> /\ wire = <<>>
        /\ c' = [c EXCEPT !.ended = TRUE] /\ wire' = wire
     \/ /\ ~ c.upgraded
        /\ \E n \in 1..Len(wire) :
             /\ wire' = SubSeq(wire, n + 1, Len(wire))
             /\ c' = httpupgrade_response(c, c.net_cache \o SubSeq(wire, 1, n))
  /\ UNCHANGED plan

\* tls13_idle_timeout, tls13_tick: the period is over and a ping goes out.
Elapse ==
  /\ Usable /\ c.heartbeat = "armed" /\ ~ c.ended
  /\ c' = [c EXCEPT !.heartbeat = "due"]
  /\ UNCHANGED <<wire, plan>>

TickDue == c.heartbeat = "due" /\ ~ c.close_sent /\ ~ c.decoder.closed

tls13_tick ==
  /\ Usable /\ TickDue /\ c.pings < MaxPings
  /\ c' = [ws_write_frame(c, "ping", <<>>) EXCEPT !.heartbeat = "armed", !.pings = @ + 1]
  /\ UNCHANGED <<wire, plan>>

\* tls13_finish_write: a WebSocket carrier says Close once; an HTTPUpgrade
\* carrier ends its stream.
tls13_finish_write ==
  /\ Usable /\ ~ c.send_closed /\ (c.kind = "ws" => c.upgraded)
  /\ c' = [(IF c.kind = "ws" /\ c.close_sent THEN c ELSE ws_write_frame(c, "close", <<>>)) EXCEPT !.close_sent = TRUE, !.send_closed = TRUE]
  /\ UNCHANGED <<wire, plan>>

-----------------------------------------------------------------------------
\* A script read off its frames: the message frame i belongs to, and which
\* frames are legal.
Start(s, i) == CHOOSE k \in 1..i : s[k].op \in {"text", "binary"} /\ \A j \in k + 1..i : s[j].op \notin {"text", "binary"}
Open(s, i) == \E k \in 1..i - 1 : s[k].op \in {"text", "binary", "cont"} /\ ~ s[k].fin /\ \A j \in k + 1..i - 1 : Control(s[j].op)
Message(s, i) == FlattenSeq([k \in 1..i |-> IF k >= Start(s, i) /\ ~ Control(s[k].op) THEN s[k].data ELSE <<>>])

Characters == {<<"a">>, <<"l1", "c">>, <<"l1", "x">>, <<"l2", "c", "c">>, <<"l2", "c", "x">>}
Texts == UNION {{FlattenSeq(t) : t \in [1..n -> Characters]} : n \in 0..CORE_WS_MESSAGE_LIMIT}

Legal(s, i) ==
  LET f == s[i] IN
  /\ f.op # "reserved" /\ f.ext = (Len(f.data) > Short)
  /\ Control(f.op) => f.fin /\ ~ f.ext
  /\ f.op = "close" => f.data = <<>> \/ (Len(f.data) > 1 /\ f.data[1] = "code" /\ f.data[2] = "code" /\ SubSeq(f.data, 3, Len(f.data)) \in Texts)
  /\ ~ Control(f.op) => /\ (f.op = "cont") = Open(s, i)
                        /\ Len(Message(s, i)) <= CORE_WS_MESSAGE_LIMIT
                        /\ s[Start(s, i)].op = "text" /\ f.fin => Message(s, i) \in Texts

\* The first frame that ends the connection: a Close, or an illegal frame.
Ends(s) == {i \in DOMAIN s : s[i].op = "close" \/ ~ Legal(s, i)}

DataOf(s, n) == SelectSeq(FlattenSeq([i \in 1..n |-> IF Control(s[i].op) THEN <<>> ELSE FrameTokens(s[i], i)]), LAMBDA t : t[1] = "byte")
PingsOf(s, n) == LET pings == SelectSeq(SubSeq(s, 1, n), LAMBDA f : f.op = "ping") IN [i \in DOMAIN pings |-> pings[i].data]

Meaning(s) ==
  LET first == Min(Ends(s) \cup {Len(s) + 1}) IN
  [closes |-> first <= Len(s) /\ Legal(s, first), endless |-> first > Len(s), data |-> DataOf(s, first - 1), all |-> DataOf(s, Len(s)),
   pings |-> PingsOf(s, first - 1), asked |-> PingsOf(s, Len(s))]

-----------------------------------------------------------------------------
WsInit ==
  /\ \E carrier \in Carriers : \E answer \in Answers : \E script \in Scripts(carrier.kind) :
       /\ plan = [answer |-> answer, script |-> script, meaning |-> Meaning(script)]
       /\ c = [kind |-> carrier.kind, early |-> carrier.early, state |-> "new", upgraded |-> FALSE, net_cache |-> <<>>, app_cache |-> <<>>, decoder |-> Fresh,
               close_sent |-> FALSE, send_closed |-> FALSE, heartbeat |-> "off", failed |-> FALSE, ended |-> FALSE,
               writes |-> 0, pings |-> 0, written |-> <<>>, sent |-> <<>>, read |-> <<>>]
  /\ wire = Stream(plan)

WsNext ==
  ws_connect \/ httpupgrade_connect \/ Write \/ ReadWs \/ ReadHttpUpgrade \/ Elapse \/ tls13_tick \/ tls13_finish_write

WsSpec == WsInit /\ [][WsNext]_wsVars

-----------------------------------------------------------------------------
Accepted ==
  LET lines == SubSeq(Lines(plan.answer), 1, Len(plan.answer.lines) + 1)
  IN  IF c.kind = "ws" THEN core_ws_validate_upgrade(lines, c.sent[1].data # <<>>) ELSE core_httpupgrade_validate(lines)

\* However the server's stream is cut into reads, the relay gets the bytes of
\* the data frames in order, whatever control frames stand between the
\* fragments; it sees the end of the stream only at a Close and with all data
\* before it; and the connection fails only for a bad response, an illegal
\* frame or a stream that ends without a Close.
DeliveredExactly ==
  IF c.kind = "ws"
  THEN LET m == plan.meaning IN
       /\ IsPrefix(c.read \o c.app_cache, IF m.closes THEN m.data ELSE m.all)
       /\ c.ended => m.closes /\ c.read = m.data
       /\ c.failed => ~ Accepted \/ ~ m.closes
       /\ c.failed /\ m.endless => ~ Accepted \/ c.read = m.all
  ELSE LET behind == SubSeq(Stream(plan), Len(Lines(plan.answer)) + 1, Len(Stream(plan))) IN
       /\ IsPrefix(c.read, behind)
       /\ c.ended => c.read = behind
       /\ c.failed => ~ Accepted

Sent(ops) == SelectSeq(c.sent, LAMBDA f : f.op \in ops)
Payload(frames) == FlattenSeq([i \in DOMAIN frames |-> frames[i].data])

\* What the relay wrote reaches the wire once and in order, as early data of
\* the request or in frames; one request comes first, at most one Close comes
\* last, behind which only answers to pings go out; and pings are answered in
\* order with their own payload, all of them before a Close is reported.
UploadFramed ==
  /\ ~ c.failed => Payload(Sent({"request", "data"})) = c.written
  /\ \A i \in DOMAIN c.sent : (c.sent[i].op = "request") = (i = 1)
  /\ Len(Sent({"close"})) <= 1
  /\ \A i, j \in DOMAIN c.sent : i < j /\ c.sent[i].op = "close" => c.sent[j].op = "pong"
  /\ c.kind = "ws" => LET pongs == [i \in DOMAIN Sent({"pong"}) |-> Sent({"pong"})[i].data]
                          m == plan.meaning
                      IN  IsPrefix(pongs, m.asked) /\ (c.decoder.closed => pongs = m.pings)

\* The carrier is faithful in both directions.
CarrierFaithful == DeliveredExactly /\ UploadFramed
=============================================================================
