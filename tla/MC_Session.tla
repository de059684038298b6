----------------------------- MODULE MC_Session -----------------------------
(***************************************************************************)
(* What serves one client, from accept to the bytes of its carrier: the    *)
(* deadlines of a thread, the listener and its client threads, Vision, the *)
(* XHTTP session over its own HTTP/2 connection, and a pool connection     *)
(* that speaks HTTP/1.1.  Each works in behaviours of its own while the    *)
(* others rest.                                                            *)
(*                                                                         *)
(* Worker: two threads for one slot, and a session of every route and      *)
(* protocol.  Vision: a TLS handshake followed by application data that    *)
(* looks like the UUID, a hello spread over two records with a change of   *)
(* cipher, a malformed hello, and bytes that are not TLS at all.  Session: *)
(* windows of a few units, of which SETTINGS take away or add some in the  *)
(* middle of a body.  HTTP/1.1: a request of every kind and one behind it  *)
(* on the same connection, and every way a response is delimited.          *)
(***************************************************************************)
EXTENDS Deadline, ClientWorker, Sequences

VARIABLES part,
          input, pos, allowRaw, wrap, upDirect, net, cache,
          unpad, downDirect, out, ends, cut,                    \* Vision
          mode, c, peer, frames, step,                          \* Http2Conn
          ch, req, srv                                          \* Http1Channel

visionVars == <<input, pos, allowRaw, wrap, upDirect, net, cache, unpad, downDirect, out, ends, cut>>
connVars == <<mode, c, peer, frames, step>>
http1Vars == <<ch, req, srv>>

-----------------------------------------------------------------------------
Via(r, p, s, d) == [route |-> r, protocol |-> p, sniff |-> s, delayed |-> d]
Sessions == {Via("block", "vless", TRUE, FALSE), Via("direct", "vless", TRUE, FALSE),
             Via("direct", "vless", FALSE, FALSE), Via("proxy", "socks5", TRUE, TRUE),
             Via("proxy", "socks5", FALSE, FALSE), Via("proxy", "vless", TRUE, FALSE),
             Via("proxy", "vision", FALSE, FALSE), Via("proxy", "trojan", TRUE, FALSE),
             Via("proxy", "vmess", FALSE, FALSE)}

ClientStreams ==
  {<<22, 3, 1, 1, 1,  23, 2, 7, 8,  23, 1, 7>>,
   <<22, 2, 1, 2,  22, 2, 1, 9,  20, 1, 1,  23, 2, 0, 2>>,
   <<22, 3, 1, 1, 0,  23, 0,  7, 8>>,
   <<7, 8, 2, 0, 0, 7>>}

FramesUnderWay(m) == IF m \in {"packet-up", "stream-up"} THEN 1 ELSE 2
DataFrames(m) == CASE m = "packet-up" -> 1 [] m = "stream-up" -> 2 [] OTHER -> 3

Response(status, framing, n, close) == <<"head", status, framing, n, close>>
Byte == <<"d">>
Chunk == <<<<"size", 1>>, Byte, <<"crlf">>>>
Requests(k) == IF k = 1 THEN {<<"get", 0>>, <<"packet", 2>>, <<"piece", 2>>, <<"stream", 1>>} ELSE {<<"packet", 1>>}
Responses(k) ==
  IF k = 2 THEN {<<Response("ok", "length", 1, FALSE), Byte>>}
  ELSE {<<Response("info", "length", 0, FALSE), Response("ok", "length", 1, FALSE), Byte>>,
        <<Response("ok", "chunked", 0, FALSE)>> \o Chunk \o Chunk \o <<<<"size", 0>>, <<"field">>, <<"crlf">>>>,
        <<Response("ok", "close", 0, TRUE), Byte, Byte>>,
        <<Response("ok", "length", 0, FALSE), <<"junk">>>>,
        <<Response("bad", "length", 0, TRUE)>>}

Vision == INSTANCE Vision WITH
            UUID <- <<7, 8>>, Streams <- ClientStreams, MaxChunk <- 3, ClientReads <- {1, 3, 4}, Pads <- {0, 1},
            PadByte <- 7, RecordMax <- 6, Capacities <- {1, 4}, WireMax <- 3, PadPackets <- 3, MinCipher <- 2
Conn == INSTANCE Http2Conn WITH
            net <- frames, pc <- step, Modes <- {"packet-up", "stream-up", "stream-one", "grpc"}, Alps <- {3},
            DefaultWindow <- 2, ClientWindow <- 3, ConnWindow <- 4, Threshold <- 2, MaxFrame <- 2, MaxWindow <- 8,
            NoLimit <- 100, Initials <- {1, 3}, Limits <- {2}, MaxId <- 5, MaxNet <- FramesUnderWay, MaxAsk <- 2,
            MaxExtras <- 2, MaxData <- DataFrames
Http1 == INSTANCE Http1Channel WITH
            Mode <- {"plain", "ssl", "tls"}, Bodies <- Requests, Answers <- Responses,
            MaxRequests <- 2, CacheLimit <- 2, RecordLimit <- 2, Window <- 1

-----------------------------------------------------------------------------
MCInit ==
  /\ part \in {"deadline", "worker", "vision", "conn", "http1"}
  /\ DeadlineInit /\ WorkerInit
  /\ IF part = "vision" THEN Vision!Init
     ELSE /\ input = 0 /\ pos = 0 /\ allowRaw = 0 /\ wrap = 0 /\ upDirect = 0 /\ net = 0 /\ cache = 0
          /\ unpad = 0 /\ downDirect = 0 /\ out = 0 /\ ends = 0 /\ cut = 0
  /\ IF part = "conn" THEN Conn!ConnInit ELSE mode = 0 /\ c = 0 /\ peer = 0 /\ frames = 0 /\ step = 0
  /\ IF part = "http1" THEN Http1!Http1Init ELSE ch = 0 /\ req = 0 /\ srv = 0

\* The listener, a session and a connection may come to rest; a thread can
\* always use its deadlines, and Vision always reaches the end of the stream.
Rest == part \notin {"deadline", "vision"} /\ UNCHANGED <<deadlineVars, workerVars, visionVars, connVars, http1Vars>>

MCNext ==
  /\ UNCHANGED part
  /\ \/ part = "deadline" /\ DeadlineNext /\ UNCHANGED <<workerVars, visionVars, connVars, http1Vars>>
     \/ part = "worker" /\ WorkerNext /\ UNCHANGED <<deadlineVars, visionVars, connVars, http1Vars>>
     \/ part = "vision" /\ Vision!Next /\ UNCHANGED <<deadlineVars, workerVars, connVars, http1Vars>>
     \/ part = "conn" /\ Conn!ConnNext /\ UNCHANGED <<deadlineVars, workerVars, visionVars, http1Vars>>
     \/ part = "http1" /\ Http1!Http1Next /\ UNCHANGED <<deadlineVars, workerVars, visionVars, connVars>>
     \/ Rest

MCSpec == MCInit /\ [][MCNext]_<<part, deadlineVars, workerVars, visionVars, connVars, http1Vars>>

-----------------------------------------------------------------------------
\* Vision passes the client's bytes on unchanged through padding and the
\* switch to raw records, and notices a truncated stream (vision.c).
VisionFaithful == part = "vision" => Vision!VisionFaithful

\* The session's windows and the peer's are the same up to what is under way,
\* through SETTINGS in the middle of a body, resets and crossed ends of POSTs
\* (h2_write_data_parts, h2_note_recv_data).
WindowsAgree == part = "conn" => Conn!WindowsAgree

\* The session opens no more streams than the peer allows and fails only for a
\* cause the peer gave.
PeerRespected == part = "conn" => Conn!PeerRespected

\* Over HTTP/1.1 with keep-alive every response goes to its own request and
\* every request starts where the server expects it; the flushed counts behind
\* the fences are exact over partial records, and the actor does not sleep on
\* input it has already buffered.
Http1Faithful == part = "http1" => Http1!Http1Faithful
=============================================================================
