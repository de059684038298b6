-------------------------------- MODULE Grpc --------------------------------
(***************************************************************************)
(* The download side of the gRPC transport: the streaming decoder of       *)
(* grpc.c and grpc_pool_read of tls_http2.c.  Messages arrive cut anywhere *)
(* in the DATA of an HTTP/2 stream; the decoder keeps the last data field  *)
(* of a message until the message is whole, or, in multi mode, passes the  *)
(* bytes of every data field on at once.  Buffered messages of all streams *)
(* share one budget.  A byte of a message is a token.                      *)
(***************************************************************************)
EXTENDS Integers, Sequences, SequencesExt, FiniteSetsExt, TLC

CONSTANTS Stream,             \* connections, each with its reader
          Answers(_),         \* the messages a server may send on a stream, each a sequence of fields
          GRPC_BUFFER_LIMIT,  \* bytes all buffered messages may hold
          MaxShift,           \* continuation bytes of a varint
          Fixed,              \* bytes of a fixed-size value
          ReadSize,           \* bytes a read may ask for
          MaxGroups           \* nested groups

VARIABLES dec,            \* core_grpc_decoder_t and the caches of the connection
          grpc_reserved,
          net             \* what the server sent and the HTTP/2 stream still holds

grpcVars == <<dec, grpc_reserved, net>>

\* A connection whose caches and decoder hold nothing.
Opened(reserved, multi, over) ==
  [header_used |-> 0, remaining |-> 0, phase |-> "tag", shift |-> 0, groups |-> <<>>, field |-> 0, wire |-> "none",
   field_remaining |-> 0, chunks |-> <<>>, ready |-> FALSE, failed |-> FALSE, reserved |-> reserved,
   multi |-> multi, net |-> <<>>, app |-> <<>>, read |-> <<>>, read_failed |-> FALSE, over |-> over]

Quiet == [sent |-> <<>>, data |-> <<>>, end |-> "no", whole |-> TRUE]

-----------------------------------------------------------------------------
(* The server.  A field is [f, w, n, more]: its number, its wire type, the   *)
(* bytes of its value and the continuation bytes in front of its tag.        *)
Copies(n, t) == [i \in 1..n |-> t]

FieldBytes(x) ==
  Copies(x.more, <<"more">>) \o <<<<"tag", x.f, x.w>>>> \o
    (CASE x.w = "bytes" -> <<<<"value", x.n>>>> \o Copies(x.n, <<"d", x.f>>)
       [] x.w = "lie" -> <<<<"value", x.n + 1>>>> \o Copies(x.n, <<"d", x.f>>)
       [] x.w = "fixed" -> Copies(x.n, <<"d", x.f>>)
       [] x.w = "varint" -> <<<<"value", 0>>>>
       [] x.w \in {"start", "end"} -> <<>>)

MessageBytes(m, k) ==
  LET body == FlattenSeq([i \in DOMAIN m |-> [j \in DOMAIN FieldBytes(m[i]) |-> FieldBytes(m[i])[j] \o <<k, i, j>>]])
  IN  <<<<"header">>, <<"length", Len(body)>>>> \o body

\* What a server does on a stream: messages, then its end, or a reset that
\* may come at any time.  How much of it is there when the reader looks is
\* chosen by the read.
Server(s) ==
  /\ net[s].end = "no" /\ dec[s].over # "closed"
  /\ \E sent \in Answers(s) : \E end \in {"end", "reset"} :
       net' = [net EXCEPT ![s] = [sent |-> sent, end |-> end, whole |-> TRUE, data |-> FlattenSeq([k \in DOMAIN sent |-> MessageBytes(sent[k], k)])]]
  /\ UNCHANGED <<dec, grpc_reserved>>

\* It turns out to have ended the stream within the last message.
Truncate(s) ==
  LET n == Len(net[s].sent) IN
  /\ net[s].end = "end" /\ n > 0 /\ Len(net[s].data) \in 1..Len(MessageBytes(net[s].sent[n], n)) - 1
  /\ net' = [net EXCEPT ![s].data = <<>>, ![s].whole = FALSE]
  /\ UNCHANGED <<dec, grpc_reserved>>

-----------------------------------------------------------------------------
(* grpc.c *)


release_message(d) == [d EXCEPT !.chunks = <<>>, !.reserved = 0, !.ready = FALSE]

Invalid(d) == [d |-> [release_message(d) EXCEPT !.failed = TRUE], out |-> <<>>, used |-> 0, r |-> -1]
Result(d, out, used, r) == [d |-> d, out |-> out, used |-> used, r |-> r]

\* A whole message is ready to be read, or in multi mode over.
Complete(d) == [d EXCEPT !.header_used = 0, !.ready = ~ d.multi]

\* The last byte of a varint, by what it stands for.
Tagged(d, f, w) ==
  CASE f = 0 \/ (w = "start" /\ Len(d.groups) = MaxGroups) -> [d EXCEPT !.failed = TRUE]
    [] f # 0 /\ w = "start" /\ Len(d.groups) < MaxGroups -> [d EXCEPT !.groups = Append(@, f)]
    [] f # 0 /\ w = "end" -> IF d.groups # <<>> /\ Last(d.groups) = f THEN [d EXCEPT !.groups = Front(@)] ELSE [d EXCEPT !.failed = TRUE]
    [] f # 0 /\ w = "fixed" -> IF d.remaining < Fixed THEN [d EXCEPT !.failed = TRUE] ELSE [d EXCEPT !.field_remaining = Fixed, !.phase = "data"]
    [] f # 0 /\ w = "varint" -> [d EXCEPT !.phase = "skip"]
    [] f # 0 /\ w \in {"bytes", "lie"} -> [d EXCEPT !.phase = "length"]

\* A second data field of a message replaces the first.
Sized(d, n) ==
  IF n > d.remaining THEN [d EXCEPT !.failed = TRUE]
  ELSE [d EXCEPT !.field_remaining = n, !.phase = IF n > 0 THEN "data" ELSE "tag",
                 !.chunks = IF d.groups = <<>> /\ d.field = 1 /\ ~ d.multi THEN <<>> ELSE @]

Varint(d, t) ==
  LET x == [d EXCEPT !.remaining = @ - 1]
      y == [x EXCEPT !.shift = 0]
  IN  IF t[1] = "more" THEN IF d.shift = MaxShift THEN [x EXCEPT !.failed = TRUE] ELSE [x EXCEPT !.shift = @ + 1]
      ELSE IF d.phase = "tag" THEN Tagged([y EXCEPT !.field = t[2], !.wire = t[3]], t[2], t[3])
      ELSE IF d.phase = "length" THEN Sized(y, t[2])
      ELSE [y EXCEPT !.phase = "tag"]

append_data(chunks, bytes) == chunks \o bytes

\* core_grpc_decode, with what the budget has left.
RECURSIVE core_grpc_decode(_, _, _, _)
core_grpc_decode(d, input, used, room) ==
  IF d.failed THEN Invalid(d)
  ELSE IF d.ready THEN Result(d, <<>>, used, 1)
  ELSE IF input = <<>> THEN Result(d, <<>>, used, 0)
  ELSE IF d.header_used = 0 THEN core_grpc_decode([d EXCEPT !.header_used = 1], Tail(input), used + 1, room)
  ELSE IF d.header_used = 1
  THEN LET n == input[1][2]
           x == [d EXCEPT !.header_used = 2, !.remaining = n, !.phase = "tag", !.shift = 0, !.groups = <<>>]
       IN  IF n = 0 THEN core_grpc_decode(Complete(x), Tail(input), used + 1, room)
           ELSE IF d.multi THEN core_grpc_decode(x, Tail(input), used + 1, room)
           ELSE IF n > room THEN Result([x EXCEPT !.failed = TRUE], <<>>, used + 1, -1)
           ELSE core_grpc_decode([x EXCEPT !.reserved = n], Tail(input), used + 1, room)
  ELSE LET take == IF d.phase # "data" THEN 1 ELSE Min({d.field_remaining, Len(input)})
           bytes == SubSeq(input, 1, take)
           wanted == d.phase = "data" /\ d.groups = <<>> /\ d.field = 1 /\ d.wire = "bytes"
           moved == [d EXCEPT !.field_remaining = @ - take, !.remaining = @ - take,
                              !.phase = IF d.field_remaining = take THEN "tag" ELSE @,
                              !.chunks = IF wanted /\ ~ d.multi THEN append_data(@, bytes) ELSE @]
           x == IF d.phase = "data" THEN moved ELSE Varint(d, input[1])
           whole == x.remaining = 0
           rest == SubSeq(input, take + 1, Len(input))
       IN  IF x.failed \/ (whole /\ (x.phase # "tag" \/ x.shift # 0 \/ x.groups # <<>>)) THEN Invalid(x)
           ELSE IF wanted /\ d.multi THEN Result(IF whole THEN Complete(x) ELSE x, bytes, used + take, 1)
           ELSE core_grpc_decode(IF whole THEN Complete(x) ELSE x, rest, used + take, room)

\* core_grpc_read: the next bytes of a message that is ready; with its last
\* byte the message is released.
core_grpc_read(d, capacity) ==
  LET n == Min({Len(d.chunks), capacity})
      x == [d EXCEPT !.app = SubSeq(d.chunks, 1, n), !.chunks = SubSeq(@, n + 1, Len(@))]
  IN  IF x.chunks = <<>> THEN release_message(x) ELSE x

core_grpc_complete(d) == ~ d.failed /\ d.header_used = 0

-----------------------------------------------------------------------------
(* tls_http2.c *)

\* grpc_fill_app_cache: until there is something for the reader, out of a
\* message that is ready or out of what has been received.
RECURSIVE grpc_fill_app_cache(_, _)
grpc_fill_app_cache(d, room) ==
  IF d.app # <<>> \/ d.read_failed THEN d
  ELSE IF d.ready
  THEN LET x == core_grpc_read(d, ReadSize) IN grpc_fill_app_cache(x, room + d.reserved - x.reserved)
  ELSE IF d.net = <<>> THEN d
  ELSE LET g == core_grpc_decode(d, d.net, 0, room)
           x == [g.d EXCEPT !.net = SubSeq(d.net, g.used + 1, Len(d.net)), !.app = g.out, !.read_failed = g.r = -1]
       IN  grpc_fill_app_cache(x, room - (x.reserved - d.reserved))

Take(d, capacity) ==
  LET n == Min({Len(d.app), capacity})
  IN  [d EXCEPT !.app = SubSeq(@, n + 1, Len(@)), !.read = @ \o SubSeq(d.app, 1, n)]

Store(s, d) ==
  /\ dec' = [dec EXCEPT ![s] = d]
  /\ grpc_reserved' = grpc_reserved + d.reserved - dec[s].reserved

\* grpc_pool_read: what is cached, else what the stream gives: bytes, nothing
\* yet, an end that must fall between messages, or a failure.
Ended(d) == [d EXCEPT !.over = IF core_grpc_complete(d) /\ d.net = <<>> THEN "end" ELSE "failed"]

PoolRead(s, capacity) ==
  LET room == GRPC_BUFFER_LIMIT - grpc_reserved
      filled == grpc_fill_app_cache(dec[s], room)
      failed == [filled EXCEPT !.over = "failed"]
  IN  /\ dec[s].over = "no"
      /\ \/ /\ filled.app # <<>>
            /\ Store(s, Take(filled, capacity)) /\ UNCHANGED net
         \/ /\ filled.app = <<>> /\ filled.read_failed
            /\ Store(s, failed) /\ UNCHANGED net
         \/ /\ filled.app = <<>> /\ ~ filled.read_failed /\ net[s].data # <<>>
            /\ \E n \in 1..Len(net[s].data) :
                 LET fed == [filled EXCEPT !.net = @ \o SubSeq(net[s].data, 1, n)]
                     d == grpc_fill_app_cache(fed, room - (filled.reserved - dec[s].reserved))
                 IN  /\ Store(s, IF d.read_failed /\ d.app = <<>> THEN [d EXCEPT !.over = "failed"] ELSE Take(d, capacity))
                     /\ net' = [net EXCEPT ![s].data = SubSeq(@, n + 1, Len(@))]
         \/ /\ filled.app = <<>> /\ ~ filled.read_failed /\ net[s].data = <<>> /\ net[s].end = "end"
            /\ Store(s, Ended(filled)) /\ UNCHANGED net
         \/ /\ filled.app = <<>> /\ ~ filled.read_failed /\ net[s].end = "reset"
            /\ Store(s, failed) /\ UNCHANGED net

\* core_grpc_clear, when the connection is closed: at its end or before.
core_grpc_clear(s) ==
  /\ dec[s].over # "closed"
  /\ Store(s, Opened(release_message(dec[s]).reserved, dec[s].multi, "closed"))
  /\ net' = [net EXCEPT ![s] = Quiet]

GrpcInit ==
  /\ \E multi \in BOOLEAN : dec = [s \in Stream |-> Opened(0, multi, "no")]
  /\ grpc_reserved = 0
  /\ net = [s \in Stream |-> Quiet]

GrpcNext ==
  \E s \in Stream :
    \/ Server(s) \/ Truncate(s) \/ core_grpc_clear(s)
    \/ \E capacity \in 1..ReadSize : PoolRead(s, capacity)

GrpcSpec == GrpcInit /\ [][GrpcNext]_grpcVars

-----------------------------------------------------------------------------
\* What a message means, read off its fields.
Depth(m, i) == Cardinality({j \in 1..i - 1 : m[j].w = "start"}) - Cardinality({j \in 1..i - 1 : m[j].w = "end"})

DataFields(m, multi) ==
  LET fields == {i \in DOMAIN m : m[i].f = 1 /\ m[i].w = "bytes" /\ Depth(m, i) = 0}
  IN  IF multi \/ fields = {} THEN fields ELSE {Max(fields)}

WellFormed(m) ==
  /\ \A i \in DOMAIN m : m[i].w # "lie" /\ m[i].more <= MaxShift /\ m[i].f > 0
  /\ \A i \in DOMAIN m : Depth(m, i + 1) \in 0..MaxGroups
  /\ Depth(m, Len(m) + 1) = 0

Data(m, k, multi) == SelectSeq(MessageBytes(m, k), LAMBDA t : t[1] = "d" /\ t[4] \in DataFields(m, multi))
Content(s) == FlattenSeq([k \in DOMAIN net[s].sent |-> Data(net[s].sent[k], k, dec[s].multi)])

\* However the messages are cut and the reads sized, the reader gets the data
\* of the messages sent, in order: the last data field of each, or in multi
\* mode all of them, and nothing of other fields or of nested groups.  It is
\* told that the stream ended only when it has all of it.
MessagesDecoded ==
  \A s \in Stream :
    /\ IsPrefix(dec[s].read, Content(s))
    /\ dec[s].over = "end" => net[s].whole /\ dec[s].read = Content(s) /\ \A k \in DOMAIN net[s].sent : WellFormed(net[s].sent[k])

\* The budget counts what the streams hold, never more than its limit, and a
\* stream that neither buffers a message nor has one to read holds nothing,
\* whether messages were read, found invalid or dropped with their stream.
BudgetExact ==
  /\ grpc_reserved = FoldSet(LAMBDA s, acc : acc + dec[s].reserved, 0, Stream)
  /\ grpc_reserved <= GRPC_BUFFER_LIMIT
  /\ \A s \in Stream : dec[s].reserved > 0 => (dec[s].header_used = 2 \/ dec[s].ready) /\ ~ dec[s].failed /\ dec[s].over # "closed"
  /\ \A s \in Stream : Len(dec[s].chunks) <= dec[s].reserved

=============================================================================
