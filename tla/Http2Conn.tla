----------------------------- MODULE Http2Conn -----------------------------
(***************************************************************************)
(* A client HTTP/2 connection that is not pooled (tls_http2.c, http2.c):   *)
(* the thread of one session starts the requests of its XHTTP mode, or of  *)
(* gRPC, reads frames when it wants data, and also reads them in the       *)
(* middle of a write, whenever the peer's windows or the peer's limit on   *)
(* concurrent streams make it wait.  All it knows of the peer comes from   *)
(* those frames, which may have been sent long before it reads them.       *)
(*                                                                         *)
(* What the client sends reaches the peer at once and what the peer sends  *)
(* waits in net.  This loses no behaviour: a peer frame sent without       *)
(* knowledge of a client frame may as well have been sent before it.       *)
(* Payload is counted in units; header fields other than the status, the   *)
(* content length and padding are left out.                                *)
(***************************************************************************)
EXTENDS Integers, Sequences, FiniteSets, SequencesExt

CONSTANTS
    Modes,          \* "packet-up", "stream-up", "stream-one", "grpc"
    Alps,           \* initial windows that may arrive in the handshake
    DefaultWindow,  \* H2_DEFAULT_WINDOW
    ClientWindow,   \* H2_CLIENT_INITIAL_WINDOW
    ConnWindow,     \* H2_DEFAULT_WINDOW + H2_CONNECTION_WINDOW_INC
    Threshold,      \* H2_WINDOW_UPDATE_THRESHOLD
    MaxFrame,       \* h2_peer_max_frame_size
    MaxWindow,      \* 0x7FFFFFFF
    NoLimit,        \* UINT32_MAX, the concurrency before any SETTINGS
    Initials,       \* initial windows the peer may announce
    Limits,         \* concurrency limits the peer may announce
    \* Bounds of the model.
    MaxId,          \* last stream identifier the session may open
    MaxNet(_),      \* frames in flight, by mode
    MaxAsk,         \* units of one write
    MaxExtras,      \* SETTINGS, grants, 1xx responses, split header blocks, faults
    MaxData(_)      \* units of download, by mode

VARIABLES
    mode, c, peer, net,
    pc              \* where the session thread is, and what it still has to write

connVars == <<mode, c, peer, net, pc>>

Ids == {i \in 1..MaxId : i % 2 = 1}
Main == 1           \* c->h2_stream_id
NoBlock == [s |-> 0, end |-> FALSE, status |-> 0]

\* Fields every frame has; a frame overrides the ones it uses.
Frame(k, s) == [k |-> k, s |-> s, n |-> 0, end |-> FALSE, more |-> FALSE,
                status |-> 0, init |-> 0, conc |-> 0]

----------------------------------------------------------------------------
(* The client's view, and how a frame of the client changes the peer's.    *)

Entry(done) == [headers |-> FALSE, ended |-> FALSE, reset |-> FALSE,
                done |-> done, win |-> ClientWindow]

\* xhttp_h2_begin and h2_send_client_preface, with the settings of the
\* handshake when there are any.
Begun(alps) ==
    [next |-> 3, settings |-> alps.seen, acks |-> 1, block |-> NoBlock,
     init |-> alps.init, conc |-> alps.conc,
     conn |-> DefaultWindow, main |-> alps.init, up |-> 0, upw |-> 0,
     rwin |-> ConnWindow, pendConn |-> 0, pendStream |-> 0,
     resp |-> (Main :> Entry(mode \notin {"grpc", "stream-one"})),
     eof |-> FALSE, cancelled |-> FALSE, goaway |-> FALSE, failed |-> FALSE]

h2_response_active(cc) ==
    Cardinality({s \in DOMAIN cc.resp :
                    ~cc.resp[s].ended \/ ~cc.resp[s].done})

\* The peer's streams: requests it has seen and has not seen end both ways.
PeerOpen(p) == {s \in Ids : /\ p.req[s] # "idle" /\ ~p.reset[s]
                            /\ ~(p.req[s] = "ended" /\ p.rsp[s] = "ended")}

\* A HEADERS frame opens a stream at the peer.
Requested(p, s, done) ==
    [p EXCEPT !.req[s] = IF done THEN "ended" ELSE "open",
              !.win[s] = p.init, !.cred[s] = ClientWindow,
              !.crowded = @ \/ Cardinality(PeerOpen(p)) >= p.conc]

\* A DATA frame uses the windows the peer has granted.
Received(p, s, n, end) ==
    [p EXCEPT !.win[0] = @ - n, !.win[s] = @ - n,
              !.req[s] = IF end THEN "ended" ELSE @,
              !.overrun = @ \/ p.win[0] < n \/ p.win[s] < n]

----------------------------------------------------------------------------
(* Writing.  pc.at is "start", "idle", "capacity", "body" or "write".      *)

\* The relay closes the connection: nothing else of it matters.
Failed(cc) == [failed |-> TRUE]
At(w) == pc.at = w /\ ~c.failed
Idle == [at |-> "idle", s |-> 0, left |-> 0]

\* The request stream a write goes to (h2_write_data_parts).
Upload == IF mode = "stream-up" THEN c.up ELSE Main
UploadWindow == IF mode = "stream-up" THEN c.upw ELSE c.main

h2_stream_writable(s) ==
    /\ ~(c.cancelled /\ s = Upload)
    /\ ~(s \in DOMAIN c.resp /\ c.resp[s].reset)

\* core_http2_alps_parse: the defaults, or the settings of the handshake.
HandshakeSettings ==
    {[seen |-> FALSE, init |-> DefaultWindow, conc |-> NoLimit]} \cup
    {[seen |-> TRUE, init |-> i, conc |-> Min(Limits)] : i \in Alps}

\* xhttp_h2_start_mode, grpc_h2_start: the first request.
Start ==
    /\ At("start")
    /\ \E alps \in HandshakeSettings :
          /\ c' = Begun(alps)
          /\ peer' = Requested([peer EXCEPT !.init = alps.init, !.conc = alps.conc,
                                            !.settled = alps.seen],
                               Main, mode \notin {"grpc", "stream-one"})
    /\ pc' = IF mode = "stream-up" THEN [Idle EXCEPT !.at = "capacity"] ELSE Idle
    /\ UNCHANGED <<mode, net>>

\* xhttp_h2_post_packet is called: it first waits in h2_request_capacity.
PostPacket ==
    /\ At("idle") /\ mode = "packet-up" /\ c.next <= MaxId
    /\ pc' = [Idle EXCEPT !.at = "capacity"]
    /\ UNCHANGED <<mode, c, peer, net>>

\* h2_request_capacity gives up once the peer has said GOAWAY.
CapacityGone ==
    /\ At("capacity") /\ c.goaway
    /\ c' = Failed(c)
    /\ UNCHANGED <<mode, peer, net, pc>>

\* h2_request_capacity lets the request start.
Roomy == ~c.goaway /\ h2_response_active(c) < c.conc

\* A new request stream of the client.
Opened(done) == [c EXCEPT !.next = @ + 2, !.resp = @ @@ (c.next :> Entry(done))]

\* xhttp_h2_send_stream_up_request.
OpenUpload ==
    /\ At("capacity") /\ mode = "stream-up" /\ Roomy
    /\ c' = [Opened(FALSE) EXCEPT !.up = c.next, !.upw = c.init]
    /\ peer' = Requested(peer, c.next, FALSE)
    /\ pc' = Idle
    /\ UNCHANGED <<mode, net>>

\* xhttp_h2_post_packet with n units of body, 0 when the packet travels in
\* the headers.
OpenPost ==
    /\ At("capacity") /\ mode = "packet-up" /\ Roomy
    /\ \E n \in 0..MaxAsk :
          /\ c' = IF n = 0 THEN Opened(TRUE)
                  ELSE [Opened(FALSE) EXCEPT !.up = c.next, !.upw = c.init]
          /\ peer' = Requested(peer, c.next, n = 0)
          /\ pc' = IF n = 0 THEN Idle ELSE [at |-> "body", s |-> c.next, left |-> n]
    /\ UNCHANGED <<mode, net>>

Blocked(window) == c.conn <= 0 \/ window <= 0

\* One round of h2_send_xhttp_body.
SendBody ==
    /\ At("body") /\ h2_stream_writable(pc.s) /\ ~Blocked(c.upw)
    /\ LET chunk == Min({pc.left, MaxFrame, c.conn, c.upw})
           last  == chunk = pc.left
           sent  == [c EXCEPT !.conn = @ - chunk, !.upw = @ - chunk]
       IN /\ c' = IF ~last THEN sent
                  ELSE [sent EXCEPT
                           !.up = 0, !.upw = 0,
                           !.resp = IF @[pc.s].ended
                                    THEN Restrict(@, DOMAIN @ \ {pc.s})
                                    ELSE [@ EXCEPT ![pc.s].done = TRUE]]
          /\ peer' = Received(peer, pc.s, chunk, last)
          /\ pc' = IF last THEN Idle ELSE [pc EXCEPT !.left = @ - chunk]
    /\ UNCHANGED <<mode, net>>

\* The peer has closed the POST: the packet cannot be delivered.
BodyRefused ==
    /\ At("body") /\ ~h2_stream_writable(pc.s)
    /\ c' = Failed(c)
    /\ UNCHANGED <<mode, peer, net, pc>>

\* h2_write_data_parts is called on the request stream.
WriteData ==
    /\ At("idle") /\ mode # "packet-up" /\ h2_stream_writable(Upload)
    /\ \E n \in 1..MaxAsk : pc' = [at |-> "write", s |-> Upload, left |-> n]
    /\ UNCHANGED <<mode, c, peer, net>>

SendData ==
    /\ At("write") /\ h2_stream_writable(pc.s) /\ ~Blocked(UploadWindow)
    /\ LET chunk == Min({pc.left, MaxFrame, c.conn, UploadWindow})
       IN /\ c' = IF mode = "stream-up"
                  THEN [c EXCEPT !.conn = @ - chunk, !.upw = @ - chunk]
                  ELSE [c EXCEPT !.conn = @ - chunk, !.main = @ - chunk]
          /\ peer' = Received(peer, pc.s, chunk, FALSE)
          /\ pc' = IF chunk = pc.left THEN Idle ELSE [pc EXCEPT !.left = @ - chunk]
    /\ UNCHANGED <<mode, net>>

\* The peer no longer wants the request: EPIPE, the download goes on.
WriteRefused ==
    /\ At("write") /\ ~h2_stream_writable(pc.s)
    /\ pc' = Idle
    /\ UNCHANGED <<mode, c, peer, net>>

----------------------------------------------------------------------------
(* Reading.                                                                *)

\* When the thread calls h2_pump_one_frame: to fill the cache of an idle
\* session (h2_fill_app_cache), while it waits for capacity or for a
\* window, and before each round of a gRPC write (tls13_drain_h2_input).
MayPump ==
    /\ ~c.failed
    /\ \/ pc.at = "idle" /\ ~c.eof
       \/ pc.at = "capacity" /\ ~c.goaway
       \/ pc.at = "body" /\ Blocked(c.upw) /\ h2_stream_writable(pc.s)
       \/ pc.at = "write" /\ (mode = "grpc" \/ Blocked(UploadWindow))
                          /\ h2_stream_writable(pc.s)

\* core_http2_validate_frame, and the check of h2_read_frame that a frame
\* names a stream that was opened.  h2_validation.continuation and
\* h2_header_stream_id are set and cleared by the same frames.
Verdict(f) ==
    CASE \/ ~c.settings /\ f.k # "settings"
         \/ c.block.s # 0 /\ ~(f.k = "continuation" /\ f.s = c.block.s)
         \/ c.block.s = 0 /\ f.k = "continuation"
         \/ f.k = "ack" /\ c.acks = 0
         \/ f.k = "settings" /\ f.init > MaxWindow
         \/ f.k \in {"data", "headers", "rst"} /\ f.s = 0
         \/ f.k = "window" /\ f.n = 0 /\ f.s = 0 -> "connection"
      [] f.k = "window" /\ f.n = 0               -> "stream"
      [] /\ f.k \in {"data", "headers", "rst", "window"} /\ f.s # 0
         /\ f.s \notin {Main, c.up} /\ f.s >= c.next -> "connection"
      [] OTHER -> "valid"

Known(s) == s \in DOMAIN c.resp
Removed(cc, s) == [cc EXCEPT !.resp = Restrict(@, DOMAIN @ \ {s})]

\* A stream error: the client resets the stream, and gives up its own.
StreamError(f) ==
    /\ Verdict(f) = "stream"
    /\ LET reset == IF ~Known(f.s) THEN c
                    ELSE IF c.resp[f.s].done THEN Removed(c, f.s)
                    ELSE [c EXCEPT !.resp[f.s].reset = TRUE,
                                   !.resp[f.s].ended = TRUE]
       IN c' = IF f.s = Main THEN Failed(c) ELSE reset
    /\ peer' = [peer EXCEPT !.reset[f.s] = TRUE]

ConnectionError(f) ==
    /\ Verdict(f) = "connection"
    /\ c' = Failed(c) /\ UNCHANGED peer

Settings_MainOnly(f) ==
    /\ f.k = "settings" /\ Verdict(f) = "valid"
    /\ LET delta == f.init - c.init
       IN /\ c' = [c EXCEPT !.conc = f.conc, !.init = f.init, !.main = @ + delta,
                            !.acks = IF c.settings THEN @ ELSE 1, !.settings = TRUE]
          /\ peer' = [peer EXCEPT
                !.conc = f.conc, !.init = f.init,
                !.win = [s \in DOMAIN @ |->
                           IF s = 0 \/ peer.req[s] = "idle" THEN @[s] ELSE @[s] + delta]]

\* SETTINGS: the change of the initial window applies to the streams that
\* have a window, and is acknowledged.
Settings(f) ==
    /\ f.k = "settings" /\ Verdict(f) = "valid"
    /\ LET delta == f.init - c.init
           over  == \/ c.main + delta > MaxWindow
                    \/ c.up # 0 /\ c.upw + delta > MaxWindow
       IN IF over THEN c' = Failed(c) /\ UNCHANGED peer
          ELSE /\ c' = [c EXCEPT !.conc = f.conc, !.init = f.init,
                                 !.main = @ + delta,
                                 !.upw = IF c.up # 0 THEN @ + delta ELSE @,
                                 !.acks = IF c.settings THEN @ ELSE 1,
                                 !.settings = TRUE]
               /\ peer' = [peer EXCEPT
                     !.conc = f.conc, !.init = f.init,
                     !.win = [s \in DOMAIN @ |->
                                IF s = 0 \/ peer.req[s] = "idle" THEN @[s] ELSE @[s] + delta]]

Acknowledged(f) ==
    /\ f.k = "ack" /\ Verdict(f) = "valid"
    /\ c' = [c EXCEPT !.acks = @ - 1] /\ UNCHANGED peer

WindowUpdate(f) ==
    /\ f.k = "window" /\ Verdict(f) = "valid"
    /\ LET h2_add_send_window(w) == w + f.n
           grown == CASE f.s = 0    -> [c EXCEPT !.conn = h2_add_send_window(@)]
                      [] f.s = Main -> [c EXCEPT !.main = h2_add_send_window(@)]
                      [] f.s = c.up -> [c EXCEPT !.upw = h2_add_send_window(@)]
                      [] OTHER      -> c
       IN c' = IF Max({grown.conn, grown.main, grown.upw}) > MaxWindow
               THEN Failed(c) ELSE grown
    /\ UNCHANGED peer

\* The response to stream s has ended at the client.
Ended(cc, s) ==
    IF s = Main THEN [cc EXCEPT !.resp[s].ended = TRUE, !.eof = TRUE]
    ELSE IF cc.resp[s].done THEN Removed(cc, s)
    ELSE [cc EXCEPT !.resp[s].ended = TRUE]

\* h2_finish_headers, core_http2_response_headers, core_grpc_response_headers.
\* Status 0 stands for trailers.
h2_finish_headers(cc, s, status, end) ==
    IF s \notin DOMAIN cc.resp \/ cc.resp[s].reset THEN cc
    ELSE LET r == cc.resp[s] IN
         CASE r.ended -> Failed(cc)
           [] status = 100 -> IF r.headers \/ end THEN Failed(cc) ELSE cc
           [] ~r.headers /\ status # 200 -> Failed(cc)
           [] r.headers /\ (status # 0 \/ ~end) -> Failed(cc)
           [] OTHER -> LET seen == [cc EXCEPT !.resp[s].headers = TRUE]
                       IN IF end THEN Ended(seen, s) ELSE seen

Headers(f) ==
    /\ f.k = "headers" /\ Verdict(f) = "valid"
    /\ c' = IF f.more THEN [c EXCEPT !.block = [s |-> f.s, end |-> f.end, status |-> f.status]]
            ELSE h2_finish_headers(c, f.s, f.status, f.end)
    /\ UNCHANGED peer

Continuation(f) ==
    /\ f.k = "continuation" /\ Verdict(f) = "valid"
    /\ c' = IF f.more THEN c
            ELSE h2_finish_headers([c EXCEPT !.block = NoBlock],
                                   f.s, c.block.status, c.block.end)
    /\ UNCHANGED peer

\* A POST withdrawn while its body is being sent is a reason to fail.
Withdrawn(f) == [peer EXCEPT !.fault = @ \/ (mode = "packet-up" /\ Known(f.s))]

Reset_Strict(f) ==
    /\ f.k = "rst" /\ Verdict(f) = "valid"
    /\ c' = IF f.n = 0 /\ Known(f.s) /\ c.resp[f.s].ended
            THEN [c EXCEPT !.resp[f.s].reset = TRUE, !.resp[f.s].done = TRUE,
                           !.cancelled = @ \/ (f.s = Upload /\ mode # "packet-up")]
            ELSE Failed(c)
    /\ peer' = Withdrawn(f)

\* RST_STREAM after the whole response only withdraws the request.
Reset(f) ==
    /\ f.k = "rst" /\ Verdict(f) = "valid"
    /\ c' = CASE f.s # Main /\ ~Known(f.s) -> c
              [] f.n = 0 /\ ((Known(f.s) /\ c.resp[f.s].ended) \/ (f.s = Main /\ c.eof)) ->
                    [c EXCEPT !.resp[f.s].reset = TRUE, !.resp[f.s].done = TRUE,
                              !.cancelled = @ \/ (f.s = Upload /\ mode # "packet-up")]
              [] OTHER -> Failed(c)
    /\ peer' = Withdrawn(f)

\* GOAWAY: f.s is the last stream served, f.n the error.
Goaway(f) ==
    /\ f.k = "goaway" /\ Verdict(f) = "valid"
    /\ LET lost == \/ f.n # 0 \/ Main > f.s
                   \/ \E s \in DOMAIN c.resp : ~c.resp[s].ended /\ s > f.s
       IN c' = IF lost THEN Failed(c) ELSE [c EXCEPT !.goaway = TRUE]
    /\ UNCHANGED peer

\* h2_note_recv_data: what is not for the session is granted again at once,
\* what is for it once enough has come in.
h2_note_recv_data(cc, p, s, n, delivered) ==
    LET stream == s \in DOMAIN cc.resp /\ ~cc.resp[s].reset IN
    IF n > cc.rwin \/ (stream /\ n > cc.resp[s].win) THEN <<Failed(cc), p>>
    ELSE IF ~delivered
    THEN <<cc, [p EXCEPT !.cred[0] = @ + n,
                         !.cred[s] = IF stream /\ ~cc.resp[s].ended THEN @ + n ELSE @]>>
    ELSE LET conn == cc.pendConn + n
             strm == cc.pendStream + n
         IN IF conn < Threshold /\ strm < Threshold
            THEN <<[cc EXCEPT !.rwin = @ - n, !.resp[s].win = @ - n,
                              !.pendConn = conn, !.pendStream = strm], p>>
            ELSE <<[cc EXCEPT !.rwin = @ - n + conn, !.resp[s].win = @ - n + strm,
                              !.pendConn = 0, !.pendStream = 0],
                   [p EXCEPT !.cred[0] = @ + conn, !.cred[Main] = @ + strm]>>

Data(f) ==
    /\ f.k = "data" /\ Verdict(f) = "valid"
    /\ LET entry == Known(f.s)
           late  == entry /\ c.resp[f.s].reset
           wrong == entry /\ ~late /\ (~c.resp[f.s].headers \/ c.resp[f.s].ended)
           \* core_http2_response_data marks the end before the credit is noted.
           seen  == IF entry /\ ~late /\ f.end THEN [c EXCEPT !.resp[f.s].ended = TRUE] ELSE c
           noted == h2_note_recv_data(seen, peer, f.s, f.n, ~late /\ f.s = Main)
           done  == IF f.end /\ entry /\ ~late
                    THEN IF mode = "grpc" THEN Failed(noted[1]) ELSE Ended(noted[1], f.s)
                    ELSE noted[1]
       IN IF wrong THEN c' = Failed(c) /\ UNCHANGED peer
          ELSE /\ c' = IF noted[1].failed THEN noted[1] ELSE done
               /\ peer' = noted[2]

\* h2_pump_one_frame.
Pump ==
    /\ MayPump /\ net # <<>>
    /\ net' = Tail(net)
    /\ LET f == Head(net) IN
          \/ StreamError(f) \/ ConnectionError(f)
          \/ Settings(f) \/ Acknowledged(f) \/ WindowUpdate(f)
          \/ Headers(f) \/ Continuation(f) \/ Reset(f) \/ Goaway(f) \/ Data(f)
    /\ UNCHANGED <<mode, pc>>

----------------------------------------------------------------------------
(* A peer that keeps to RFC 9113 until it gives the session a reason to    *)
(* fail, and then falls silent.                                            *)

PeerMay == Len(net) < MaxNet(mode) /\ pc.at # "start" /\ ~c.failed /\ ~peer.fault
Send(f, p) == /\ net' = Append(net, f) /\ peer' = p
              /\ UNCHANGED <<mode, c, pc>>
Extra == peer.extras < MaxExtras
Between == PeerMay /\ peer.settled /\ ~peer.owes /\ peer.block.s = 0

PeerSettings ==
    /\ PeerMay /\ peer.block.s = 0 /\ Extra
    /\ \E i \in Initials, l \in Limits :
          Send([Frame("settings", 0) EXCEPT !.init = i, !.conc = l],
               [peer EXCEPT !.settled = TRUE, !.extras = @ + 1])

PeerAck == /\ PeerMay /\ peer.settled /\ peer.owes
           /\ Send(Frame("ack", 0), [peer EXCEPT !.owes = FALSE])

\* A grant the client has not read yet counts as granted.
PeerGrant ==
    /\ Between /\ Extra
    /\ \E s \in {0} \cup PeerOpen(peer) :
          /\ peer.win[s] < MaxWindow - Max(Initials)
          /\ Send([Frame("window", s) EXCEPT !.n = 1],
                  [peer EXCEPT !.win[s] = @ + 1, !.extras = @ + 1])

PeerHeaders ==
    /\ Between
    /\ \E s \in PeerOpen(peer), status \in {0, 100, 200, 404}, end, more \in BOOLEAN :
          /\ status \in {100, 200, 404} => peer.rsp[s] = "none"
          /\ status = 0 => peer.rsp[s] = "open" /\ end
          /\ status = 100 => ~end /\ ~more
          /\ status = 200 /\ mode = "grpc" => ~end
          /\ status = 404 => end /\ ~more
          /\ status \in {100, 404} \/ more => Extra
          /\ Send([Frame("headers", s) EXCEPT !.status = status, !.end = end, !.more = more],
                  [peer EXCEPT !.rsp[s] = CASE end -> "ended" [] status = 100 -> @ [] OTHER -> "open",
                               !.block = IF more THEN [NoBlock EXCEPT !.s = s] ELSE NoBlock,
                               !.extras = IF status = 100 \/ more THEN @ + 1 ELSE @,
                               !.fault = status = 404])

PeerContinue ==
    /\ PeerMay /\ peer.block.s # 0
    /\ Send(Frame("continuation", peer.block.s), [peer EXCEPT !.block = NoBlock])

PeerData ==
    /\ Between
    /\ \E s \in PeerOpen(peer), n \in 1..2, end \in BOOLEAN :
          /\ peer.rsp[s] = "open"
          /\ n <= peer.cred[0] /\ n <= peer.cred[s] /\ peer.ndata + n <= MaxData(mode)
          /\ end => mode # "grpc"
          /\ Send([Frame("data", s) EXCEPT !.n = n, !.end = end],
                  [peer EXCEPT !.cred[0] = @ - n, !.cred[s] = @ - n, !.ndata = @ + n,
                               !.rsp[s] = IF end THEN "ended" ELSE @])

\* NO_ERROR is for a request the peer needs no more of.
PeerReset ==
    /\ Between
    /\ \E s \in PeerOpen(peer), n \in {0, 1} :
          /\ n = 0 => peer.rsp[s] = "ended"
          /\ n # 0 => Extra
          /\ Send([Frame("rst", s) EXCEPT !.n = n],
                  [peer EXCEPT !.reset[s] = TRUE, !.fault = n # 0])

PeerGoaway ==
    /\ Between /\ Extra
    /\ \E last \in {Max({s \in Ids : peer.req[s] # "idle"}), 1}, n \in {0, 1} :
          Send([Frame("goaway", last) EXCEPT !.n = n],
               [peer EXCEPT !.fault = TRUE])

\* A frame RFC 9113 does not allow.
PeerFault ==
    /\ PeerMay /\ Extra
    /\ \E f \in {Frame("window", s) : s \in {0} \cup PeerOpen(peer)} \cup
                {Frame("ack", 0), Frame("data", MaxId), Frame("continuation", Main)} \cup
                {[Frame("settings", 0) EXCEPT !.init = i, !.conc = Min(Limits)] :
                    i \in MaxWindow..(MaxWindow + 1)} :
          Send(f, [peer EXCEPT !.fault = TRUE])

ConnInit ==
    /\ mode \in Modes
    /\ c = [failed |-> FALSE]
    /\ peer = [init |-> DefaultWindow, conc |-> NoLimit, settled |-> FALSE,
               owes |-> TRUE, block |-> NoBlock,
               win |-> [s \in {0} \cup Ids |-> IF s = 0 THEN DefaultWindow ELSE 0],
               cred |-> [s \in {0} \cup Ids |-> IF s = 0 THEN ConnWindow ELSE 0],
               req |-> [s \in Ids |-> "idle"], rsp |-> [s \in Ids |-> "none"],
               reset |-> [s \in Ids |-> FALSE], crowded |-> FALSE, overrun |-> FALSE,
               extras |-> 0, ndata |-> 0, fault |-> FALSE]
    /\ net = <<>>
    /\ pc = [Idle EXCEPT !.at = "start"]

ConnNext ==
    \/ Start \/ PostPacket \/ CapacityGone \/ OpenUpload \/ OpenPost \/ SendBody \/ BodyRefused
    \/ WriteData \/ SendData \/ WriteRefused \/ Pump
    \/ PeerSettings \/ PeerAck \/ PeerGrant \/ PeerHeaders \/ PeerContinue
    \/ PeerData \/ PeerReset \/ PeerGoaway \/ PeerFault

----------------------------------------------------------------------------
Live == pc.at # "start" /\ ~c.failed
Units(frames) == FoldSeq(LAMBDA f, t : t + f.n, 0, frames)
Granted(s) == Units(SelectSeq(net, LAMBDA f : f.k = "window" /\ f.s = s))
Coming(S) == Units(SelectSeq(net, LAMBDA f : f.k = "data" /\ f.s \in S))

\* What the client believes it may send and what the peer is ready to take
\* differ by the grants still in flight, on the connection and on every
\* stream being written, whatever SETTINGS change in the middle of a body:
\* h2_write_data_parts and h2_send_xhttp_body never send more than the peer
\* has allowed, and lose none of what it allows.
UploadCreditAgrees ==
    /\ ~peer.overrun
    /\ Live => /\ peer.win[0] = c.conn + Granted(0)
               /\ peer.win[Main] = c.main + Granted(Main)
               /\ c.up # 0 => peer.win[c.up] = c.upw + Granted(c.up)

\* What h2_note_recv_data keeps back is exactly what the peer lacks: credit
\* that is neither at the peer, nor in flight as data, nor pending at the
\* client does not exist, whether the data is for the session, for the
\* answer to a POST or for a stream that was reset.  So a peer that keeps to
\* its credit is never refused, and its download never starves.
DownloadCreditAgrees ==
    Live =>
      /\ peer.cred[0] + Coming(Ids) + c.pendConn = ConnWindow
      /\ c.rwin + c.pendConn = ConnWindow
      /\ peer.cred[Main] + Coming({Main}) + c.pendStream = ClientWindow
      /\ c.resp[Main].win + c.pendStream = ClientWindow
      /\ \A s \in DOMAIN c.resp \ {Main} :
            ~c.resp[s].ended => peer.cred[s] + Coming({s}) = ClientWindow

\* Both directions of flow control agree with the peer's.
WindowsAgree == UploadCreditAgrees /\ DownloadCreditAgrees

\* h2_request_capacity opens a request only when the peer, which may have
\* ended streams the client still counts but never the reverse, serves fewer
\* streams than the limit the client has acknowledged.
ConcurrencyRespected == ~peer.crowded

\* The session fails only when the peer gave it a reason: a reset, a refusal,
\* a GOAWAY or a frame out of place.  In particular no legal frame that
\* crosses the end of a POST (a grant, a reset or trailers for a stream the
\* client has already forgotten) takes the connection down.
ConnFailsForCause == c.failed => peer.fault

\* A peer that keeps to the protocol is neither crowded nor cut off.
PeerRespected == ConcurrencyRespected /\ ConnFailsForCause
=============================================================================
