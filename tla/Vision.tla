------------------------------- MODULE Vision -------------------------------
(***************************************************************************)
(* The Vision flow of src/vision.c as client_worker_run (src/main.c) uses  *)
(* it.  The sender pads the client's stream in blocks, watches the TLS     *)
(* records inside it, and ends the padding with END or DIRECT; after       *)
(* DIRECT it stops using the outer TLS connection and writes raw bytes.    *)
(* The receiver is the unpadder at the other end, which sees the same      *)
(* bytes in other pieces.                                                  *)
(*                                                                         *)
(* Bytes are small numbers.  Fixed-size fields shrink: the 16 bytes of the *)
(* UUID to Len(UUID), the 5 of a block header to command, content length   *)
(* and padding length, the 5 of a TLS record header to type and length,    *)
(* the 4 of a handshake message header likewise.  The body of a hello is   *)
(* judged by its first byte (vision_hello_body finds it well formed or     *)
(* not).  The other direction enters through what its hello sets.          *)
(***************************************************************************)
EXTENDS Integers, Sequences, FiniteSets, SequencesExt

CONSTANTS
    UUID,        \* the bytes that open the padded stream
    Streams,     \* the client streams, sequences of bytes
    MaxChunk,    \* 0xFFFF, the longest content of a block
    ClientReads, \* how much the client may have written when it is read
    Pads,        \* the padding lengths the random source gives
    PadByte,     \* what padding is filled with
    RecordMax,   \* the longest outer TLS record
    Capacities,  \* the room a read from the outer connection may have
    WireMax,     \* how much may be under way when the client is read
    PadPackets,  \* VLESS_VISION_PAD_PACKETS
    MinCipher    \* the shortest TLS 1.3 application record

VARIABLES
    input,       \* the client's whole stream
    pos,         \* how much of it the relay has read
    allowRaw,    \* allow_raw_vision
    wrap,        \* vision_wrap_t
    upDirect,    \* upstream_direct of the sender
    net,         \* outer records and raw pieces on their way
    cache,       \* app_cache of the receiving connection
    unpad,       \* vision_unpad_t of the receiver
    downDirect,  \* downstream_direct of the receiver
    out,         \* what the receiver has passed on
    ends,        \* history: how far ahead of the receiver blocks end
    cut          \* history: where in input padding ended, and why

vars == <<input, pos, allowRaw, wrap, upDirect, net, cache, unpad, downDirect,
          out, ends, cut>>

CMD_CONTINUE == 0
CMD_END == 1
CMD_DIRECT == 2
HeaderLen == 3

ChangeCipher == 20
Alert == 21
Handshake == 22
Application == 23
ClientHello == 1
GoodHello == 1

-----------------------------------------------------------------------------
(* The observer of the client's TLS records.                               *)

Least(a, b) == IF a < b THEN a ELSE b

NoReader == [record_used |-> 0, type |-> 0, size |-> 0, record_left |-> 0,
             message_used |-> 0, message_left |-> 0, message |-> 0, hello |-> TRUE,
             records |-> 0, last_application |-> FALSE]

\* vision_wrap_init.
WrapInit == [uuid_sent |-> FALSE, padding_active |-> TRUE, packets_left |-> PadPackets,
             client_hello_seen |-> FALSE, server_hello_seen |-> FALSE,
             tls13_confirmed |-> FALSE, tls_disabled |-> FALSE, direct_sent |-> FALSE,
             tls |-> NoReader]

Disabled(w) == [w EXCEPT !.tls_disabled = TRUE]

\* One byte of a handshake message: its type, its length, or its body.  A
\* hello too short or malformed makes the stream something else than TLS.
HandshakeByte(w, b) ==
    LET t == w.tls
        atEnd == t.message_left = 1
        good == IF t.message_used = 2 THEN b = GoodHello ELSE t.hello
    IN  CASE t.message_used = 0 ->
               [w EXCEPT !.tls.message = b, !.tls.message_used = 1]
          [] t.message_used = 1 ->
               IF t.message = ClientHello /\ b = 0
                 THEN Disabled(w)
                 ELSE [w EXCEPT !.tls.message_left = b,
                                !.tls.message_used = IF b = 0 THEN 0 ELSE 2]
          [] OTHER ->
               IF t.message = ClientHello /\ ~good
                 THEN Disabled(w)
                 ELSE [w EXCEPT !.tls.message_left = @ - 1,
                                !.tls.hello = good,
                                !.tls.message_used = IF atEnd THEN 0 ELSE 3,
                                !.client_hello_seen = @ \/ (atEnd /\ t.message = ClientHello)]

\* A record is complete.
RecordDone(w) ==
    IF w.tls.record_left # 0 \/ w.tls_disabled
      THEN w
      ELSE [w EXCEPT !.tls.records = @ + 1,
                     !.tls.last_application =
                         w.tls.type = Application /\ w.tls.size # 0,
                     !.tls.record_used = 0]

BadHeader(w, size) ==
    LET t == w.tls IN
    \/ t.type = Application /\ w.tls13_confirmed /\ size < MinCipher
    \/ t.type = Handshake /\ size = 0
    \/ t.type = ChangeCipher /\ size # 1
    \/ t.type \notin {Handshake, ChangeCipher} /\ t.message_used # 0

\* One byte of the stream.
ObserveByte(w, b) ==
    LET t == w.tls
        counted(v) == [v EXCEPT !.tls.record_left = @ - 1]
    IN  CASE w.tls_disabled -> w
          [] ~w.tls_disabled /\ t.record_used = 0 ->
               IF b \in ChangeCipher..Application
                 THEN [w EXCEPT !.tls.type = b, !.tls.record_used = 1,
                                !.tls.last_application = FALSE]
                 ELSE Disabled(w)
          [] ~w.tls_disabled /\ t.record_used = 1 ->
               IF BadHeader(w, b)
                 THEN Disabled(w)
                 ELSE RecordDone([w EXCEPT !.tls.record_used = 2, !.tls.size = b,
                                           !.tls.record_left = b])
          [] OTHER ->
               IF t.type = ChangeCipher /\ b # 1
                 THEN Disabled(w)
                 ELSE RecordDone(counted(IF t.type = Handshake THEN HandshakeByte(w, b)
                                                               ELSE w))

\* vision_observe_tls on the client's side.
Observe(w, chunk) ==
    FoldLeft(ObserveByte, [w EXCEPT !.tls.last_application = FALSE], chunk)

-----------------------------------------------------------------------------
(* Wrapping.                                                               *)

\* vision_build_block.
Block(w, command, content, pad) ==
    (IF w.uuid_sent THEN <<>> ELSE UUID)
      \o <<command, Len(content), pad>> \o content \o [i \in 1..pad |-> PadByte]

\* The command of the next block, given the observed state o.
Command(w, o) ==
    LET complete == IF o.tls_disabled THEN 1 ELSE o.tls.records - w.tls.records
        partial == ~o.tls_disabled /\ (o.tls.record_used # 0 \/ o.tls.message_used # 0)
    IN  CASE ~o.tls_disabled /\ o.client_hello_seen /\ o.server_hello_seen
               /\ o.tls.last_application ->
                 IF o.tls13_confirmed THEN CMD_DIRECT ELSE CMD_END
          [] OTHER -> IF ~partial /\ complete # 0 /\ complete >= w.packets_left
                        THEN CMD_END ELSE CMD_CONTINUE

\* What vision_wrap_chunk leaves, given the observed state o.
Wrapped(w, o) ==
    LET complete == IF o.tls_disabled THEN 1 ELSE o.tls.records - w.tls.records
        command == Command(w, o)
    IN  [o EXCEPT !.uuid_sent = TRUE,
                  !.packets_left = IF complete >= @ THEN 0 ELSE @ - complete,
                  !.padding_active = command = CMD_CONTINUE,
                  !.direct_sent = command = CMD_DIRECT]

\* vision_wrap_payload_buffer: blocks of at most MaxChunk while padding is
\* active, the rest as it is.  pads holds the padding of each block.
RECURSIVE WrapPayload(_, _, _)
WrapPayload(w, data, pads) ==
    IF ~w.padding_active \/ data = <<>>
      THEN [wrap |-> w, bytes |-> data, blocks |-> <<>>]
      ELSE LET n == Least(Len(data), MaxChunk)
               chunk == SubSeq(data, 1, n)
               o == Observe(w, chunk)
               block == Block(w, Command(w, o), chunk, Head(pads))
               rest == WrapPayload(Wrapped(w, o), SubSeq(data, n + 1, Len(data)), Tail(pads))
           IN  [wrap |-> rest.wrap, bytes |-> block \o rest.bytes,
                blocks |-> <<[size |-> Len(block), content |-> n]>> \o rest.blocks]

-----------------------------------------------------------------------------
(* Unpadding.  -1 in the three counters means outside a block.             *)

\* vision_unpad_init.
UnpadInit == [remaining_command |-> -1, remaining_content |-> -1,
              remaining_padding |-> -1, current_command |-> CMD_CONTINUE,
              completed_block |-> FALSE, stash |-> <<>>]

\* vision_unpad_complete and vision_unpad_is_raw.
UnpadComplete(u) ==
    /\ u.stash = <<>> /\ u.remaining_content <= 0 /\ u.remaining_padding <= 0
    /\ \/ u.remaining_command = -1
       \/ u.remaining_command = HeaderLen /\ u.completed_block

IsRaw(u) == UnpadComplete(u) /\ u.current_command \in {CMD_END, CMD_DIRECT}

Outside(u) == u.remaining_command = -1 /\ u.remaining_content = -1 /\ u.remaining_padding = -1

InHeader(u) == [u EXCEPT !.remaining_command = HeaderLen, !.remaining_content = 0,
                         !.remaining_padding = 0]

Skip(u, n) == [u EXCEPT !.stash = SubSeq(@, n + 1, Len(@))]

\* One header byte.
HeaderByte(u) ==
    LET b == Head(u.stash)
        v == [Skip(u, 1) EXCEPT !.remaining_command = @ - 1]
    IN  CASE u.remaining_command = 3 -> [v EXCEPT !.current_command = b]
          [] u.remaining_command = 2 -> [v EXCEPT !.remaining_content = b]
          [] u.remaining_command = 1 -> [v EXCEPT !.remaining_padding = b]

Result(u, bytes, direct) == [unpad |-> u, bytes |-> bytes, direct |-> direct]

\* Mutant: what follows the last block in the same read is dropped.
BlockEnd_DropsTail(u, bytes) ==
    Result([u EXCEPT !.remaining_command = -1, !.remaining_content = -1,
                     !.remaining_padding = -1, !.completed_block = TRUE, !.stash = <<>>],
           bytes, u.current_command = CMD_DIRECT)

\* The end of a block: after CONTINUE another header, after anything else
\* what is left of the stash goes out as it is.
BlockEnd(u, bytes) ==
    Result([u EXCEPT !.remaining_command = -1, !.remaining_content = -1,
                     !.remaining_padding = -1, !.completed_block = TRUE, !.stash = <<>>],
           bytes \o u.stash, u.current_command = CMD_DIRECT)

\* The loop of vision_unpad_feed_buffer, with what it has put out so far.
RECURSIVE Unpad(_, _)
Unpad(u, bytes) ==
    LET ended == u.current_command \in {CMD_END, CMD_DIRECT}
        content == Least(Len(u.stash), u.remaining_content)
        afterContent == [Skip(u, content) EXCEPT !.remaining_content = @ - content]
        padding == IF afterContent.remaining_content # 0 THEN 0
                   ELSE Least(Len(afterContent.stash), u.remaining_padding)
        v == [Skip(afterContent, padding) EXCEPT !.remaining_padding = @ - padding]
        put == bytes \o SubSeq(u.stash, 1, content)
    IN  CASE Outside(u) /\ u.stash = <<>> -> Result(u, bytes, FALSE)
          [] Outside(u) /\ u.stash # <<>> ->
               IF ~ended /\ Len(u.stash) < Len(UUID) /\ IsPrefix(u.stash, UUID)
                 THEN Result(u, bytes, FALSE)
               ELSE IF ended \/ ~IsPrefix(UUID, u.stash)
                 THEN Result([u EXCEPT !.stash = <<>>], bytes \o u.stash, FALSE)
                 ELSE Unpad([InHeader(Skip(u, Len(UUID))) EXCEPT !.current_command = 0], bytes)
          [] u.remaining_command > 0 ->
               IF u.stash = <<>> THEN Result(u, bytes, FALSE)
                                 ELSE Unpad(HeaderByte(u), bytes)
          [] OTHER ->
               IF v.remaining_content > 0 \/ v.remaining_padding > 0
                 THEN Result(v, put, FALSE)
               ELSE IF v.current_command = CMD_CONTINUE
                 THEN Unpad([InHeader(v) EXCEPT !.completed_block = TRUE], put)
                 ELSE BlockEnd(v, put)

\* vision_unpad_feed_buffer.
Feed(u, data) == Unpad([u EXCEPT !.stash = @ \o data], <<>>)

-----------------------------------------------------------------------------
(* The two relays.                                                         *)

NoCut == [at |-> 0, plain |-> FALSE, direct |-> FALSE]

Init ==
    /\ input \in Streams
    /\ pos = 0
    /\ allowRaw \in BOOLEAN
    /\ wrap = WrapInit
    /\ upDirect = FALSE
    /\ net = <<>>
    /\ cache = <<>>
    /\ unpad = UnpadInit
    /\ downDirect = FALSE
    /\ out = <<>>
    /\ ends = {0}
    /\ cut = NoCut

Raw(data) == <<[raw |-> TRUE, data |-> data]>>

\* reality_write_app_records: one record after the other.
Records(data) ==
    [i \in 1..((Len(data) + RecordMax - 1) \div RecordMax) |->
        [raw |-> FALSE,
         data |-> SubSeq(data, (i - 1) * RecordMax + 1,
                         Least(i * RecordMax, Len(data)))]]

SumSizes(blocks) == FoldLeft(LAMBDA a, b : a + b.size, 0, blocks)
UnderWay == Len(cache) + FoldLeft(LAMBDA a, b : a + Len(b.data), 0, net)

\* vision_wrap_bootstrap_buffer: no first payload came in time.
Bootstrap ==
    /\ pos = 0 /\ ~wrap.uuid_sent
    /\ \E pad \in Pads :
         LET block == Block(wrap, CMD_CONTINUE, <<>>, pad)
         IN  /\ net' = net \o Records(block)
             /\ ends' = {0, Len(block)}
    /\ wrap' = [wrap EXCEPT !.uuid_sent = TRUE]
    /\ UNCHANGED <<input, pos, allowRaw, upDirect, cache, unpad, downDirect, out, cut>>

\* The next n bytes of the client: raw after DIRECT, padded while padding is
\* active, through the outer connection otherwise.
Read(n) ==
    /\ UnderWay <= WireMax
    /\ allowRaw => n <= MaxChunk
    /\ pos + n <= Len(input)
    /\ pos' = pos + n

SendRaw(n) ==
    /\ upDirect /\ Read(n)
    /\ net' = net \o Raw(SubSeq(input, pos + 1, pos + n))
    /\ UNCHANGED <<input, allowRaw, wrap, upDirect, cache, unpad, downDirect, out,
                   ends, cut>>

SendPadded(n) ==
    /\ ~upDirect /\ wrap.padding_active /\ Read(n)
    /\ \E pads \in [1..2 -> Pads] :
         LET r == WrapPayload(wrap, SubSeq(input, pos + 1, pos + n), pads)
             content == FoldLeft(LAMBDA a, b : a + b.content, 0, r.blocks)
         IN  /\ wrap' = r.wrap
             /\ net' = net \o Records(r.bytes)
             /\ ends' = ends \cup {UnderWay + SumSizes(SubSeq(r.blocks, 1, i)) :
                                     i \in 1..Len(r.blocks)}
             /\ upDirect' = (r.wrap.direct_sent /\ allowRaw)
             /\ cut' = IF r.wrap.padding_active THEN cut
                       ELSE [at |-> pos + content, plain |-> r.wrap.tls_disabled,
                             direct |-> r.wrap.direct_sent]
    /\ UNCHANGED <<input, allowRaw, cache, unpad, downDirect, out>>

SendPlain(n) ==
    /\ ~upDirect /\ ~wrap.padding_active /\ Read(n)
    /\ net' = net \o Records(SubSeq(input, pos + 1, pos + n))
    /\ UNCHANGED <<input, allowRaw, wrap, upDirect, cache, unpad, downDirect, out,
                   ends, cut>>

\* The server's hello, or something that is not TLS, in the other direction.
ServerHello(tls13) ==
    /\ ~wrap.tls_disabled /\ ~wrap.server_hello_seen
    /\ wrap' = [wrap EXCEPT !.server_hello_seen = TRUE, !.tls13_confirmed = tls13]
    /\ UNCHANGED <<input, pos, allowRaw, upDirect, net, cache, unpad, downDirect, out,
                   ends, cut>>

ServerNotTls ==
    /\ ~wrap.tls_disabled
    /\ wrap' = Disabled(wrap)
    /\ UNCHANGED <<input, pos, allowRaw, upDirect, net, cache, unpad, downDirect, out,
                   ends, cut>>

\* A read of up to capacity bytes through the outer connection, unpadded or passed on.
ReadOuter(capacity) ==
    /\ ~downDirect
    /\ \/ cache # <<>>
       \/ net # <<>> /\ ~Head(net).raw
    /\ LET data == IF cache # <<>> THEN cache ELSE Head(net).data
           k == Least(capacity, Len(data))
           got == SubSeq(data, 1, k)
           r == Feed(unpad, got)
       IN  /\ cache' = SubSeq(data, k + 1, Len(data))
           /\ net' = IF cache # <<>> THEN net ELSE Tail(net)
           /\ ends' = {e - k : e \in {d \in ends : d >= k}}
           /\ IF IsRaw(unpad)
                THEN /\ out' = out \o got
                     /\ UNCHANGED <<unpad, downDirect>>
                ELSE /\ out' = out \o r.bytes
                     /\ unpad' = r.unpad
                     /\ downDirect' = (r.direct /\ allowRaw)
    /\ UNCHANGED <<input, pos, allowRaw, wrap, upDirect, cut>>

\* tls13_read_raw: whatever comes next on the socket, records included.
ReadRaw(capacity) ==
    /\ downDirect /\ net # <<>>
    /\ LET data == Head(net).data
           k == Least(capacity, Len(data))
       IN  /\ out' = out \o SubSeq(data, 1, k)
           /\ net' = IF k = Len(data) THEN Tail(net)
                     ELSE [net EXCEPT ![1].data = SubSeq(data, k + 1, Len(data))]
    /\ UNCHANGED <<input, pos, allowRaw, wrap, upDirect, cache, unpad, downDirect,
                   ends, cut>>

\* The stream has been carried to its end.
Finished ==
    /\ pos = Len(input) /\ net = <<>> /\ cache = <<>>
    /\ UNCHANGED vars

Next ==
    \/ Bootstrap
    \/ \E n \in ClientReads : SendRaw(n) \/ SendPadded(n) \/ SendPlain(n)
    \/ \E tls13 \in BOOLEAN : ServerHello(tls13)
    \/ ServerNotTls
    \/ \E capacity \in Capacities : ReadOuter(capacity) \/ ReadRaw(capacity)
    \/ Finished

Spec == Init /\ [][Next]_vars

-----------------------------------------------------------------------------
(* What the two ends promise each other.                                   *)

\* However the stream is cut into blocks, records and reads, the receiver
\* passes on exactly the client's bytes, in order, and once nothing is under
\* way it has passed on all of them: no padding, no header and no UUID-like
\* data is taken for the other (vision.c:410-529).
OutputIsInput ==
    /\ IsPrefix(out, input)
    /\ net = <<>> /\ cache = <<>> => Len(out) = pos

\* Where the records of a stream end, from the lengths alone.
RECURSIVE RecordEnds(_, _)
RecordEnds(s, at) ==
    IF at + 2 > Len(s) \/ at + 2 + s[at + 2] > Len(s)
      THEN {}
      ELSE {[at |-> at + 2 + s[at + 2], type |-> s[at + 1]]}
             \cup RecordEnds(s, at + 2 + s[at + 2])

\* Both ends leave the outer connection at the same byte: a raw piece never
\* reaches a reader that still opens records, and a reader that has gone raw
\* has nothing left in its cache and no record in front of it
\* (main.c:1279-1285 and 1414-1421).  As long as the stream still passes for
\* TLS that byte is where one of its records ends, for DIRECT an application
\* record (vision_wrap_chunk, vision.c:309-315).
SwitchAgreed ==
    /\ ~downDirect /\ cache = <<>> /\ net # <<>> => ~Head(net).raw
    /\ downDirect => cache = <<>> /\ \A i \in 1..Len(net) : net[i].raw
    /\ \/ wrap.padding_active \/ cut.plain
       \/ \E e \in RecordEnds(input, 0) :
            e.at = cut.at /\ (cut.direct => e.type = Application)

\* The end of the outer connection is accepted exactly between two blocks: a
\* stream that stops inside the UUID, a header, the content or the padding is
\* reported as truncated (vision_unpad_complete, main.c:1364).
TruncationSeen ==
    ends # {} => (UnpadComplete(unpad) <=> 0 \in ends)

\* Padding is transparent: the bytes come out as they went in, sender and
\* receiver leave the outer connection at the same byte, the end of a record,
\* and a stream cut within a block is noticed.
VisionFaithful == OutputIsInput /\ SwitchAgreed /\ TruncationSeen
=============================================================================
