----------------------------- MODULE RelayLoop -----------------------------
(***************************************************************************)
(* The relay loop of one client connection (client_worker_run in main.c,   *)
(* from the request just handed to the carrier to the last close): one     *)
(* thread that copies client -> upstream through the carrier's output      *)
(* queue and upstream -> client through the output buffer, and carries     *)
(* each side's end of stream to the other side.                            *)
(*                                                                         *)
(* Data is counted in units, because both directions are FIFO.  A unit     *)
(* from the server is, in this order, the 101 answer of HTTPUpgrade early  *)
(* data, the fragments of the VLESS response header, payload.  The carrier *)
(* is a plain socket (also TLS), an HTTPUpgrade or WebSocket stream (which *)
(* read ahead into a cache), or a stream of the HTTP/2 pool, whose queues  *)
(* are served by another thread and whose file descriptor is a             *)
(* notification socket.  Memory waiting is modelled in RelayMemory, Vision *)
(* in Vision; both are left out here.                                      *)
(***************************************************************************)
EXTENDS Integers, FiniteSets

CONSTANTS Modes,        \* records [protocol, carrier, first] to start from
          MaxUp,        \* bound: units the client sends
          MaxDown,      \* bound: payload units the server sends
          OutLimit,     \* memory->output.limit, in units
          WireLimit,    \* the carrier's output queue (256 KiB)
          WireRoom,     \* free room needed to read from the client (128 KiB)
          HeaderUnits   \* fragments the VLESS response header arrives in

ASSUME RelayAssumption ==
    /\ \A n \in {MaxUp, MaxDown, OutLimit, WireLimit, WireRoom, HeaderUnits} : n \in Nat \ {0}
    /\ WireRoom < WireLimit
    /\ Modes \subseteq [protocol : {"vless", "trojan"},
                        carrier : {"plain", "upgrade", "ws", "pool"}, first : BOOLEAN]

VARIABLES pc, mode,
          clientEof, upstreamEof, upstreamFailed, clientSendClosed, clientHup,
          protocolReady, clientReady, upstreamReady, output, finishing, writable,
          waitingInitial, waitingFence, deadline, expired,
          unread, sent, clientFin, clientReset, clientRoom, delivered,
          wire, fence, sendClosed, finishSent, netRoom, stopped,
          arrived, cached, served, serverFin, serverCut, upgradeLeft, headerLeft, notified

flags      == <<clientEof, upstreamEof, upstreamFailed>>
readyVars  == <<clientReady, upstreamReady>>
pollVars   == <<finishing, writable>>
timeVars   == <<waitingInitial, waitingFence, deadline, expired>>
clientVars == <<unread, sent, clientFin, clientReset, clientRoom, delivered>>
upVars     == <<wire, fence, sendClosed, finishSent, netRoom, stopped>>
peerVars   == <<served, serverFin, serverCut>>
readVars   == <<arrived, cached, upgradeLeft, headerLeft, notified>>
vars == <<pc, mode, flags, pollVars, clientSendClosed, clientHup, protocolReady, readyVars, output,
          timeVars, clientVars, upVars, peerVars, readVars>>

Minimum(a, b) == IF a < b THEN a ELSE b

Pool   == mode.carrier = "pool"
Trojan == mode.protocol = "trojan"

\* The request is already in the carrier's queue (or on the wire) when the
\* loop starts, together with the client's first payload if it came early.
\* The deadline of the connection runs on, unless the client has yet to speak:
\* then it is paused at once, or, behind HTTPUpgrade, once the request is out.
Init ==
    /\ mode \in Modes
    /\ pc = "top"
    /\ clientEof = FALSE /\ upstreamEof = FALSE /\ upstreamFailed = FALSE
    /\ clientSendClosed = FALSE /\ clientHup = FALSE /\ protocolReady = FALSE
    /\ clientReady = FALSE /\ upstreamReady = FALSE /\ output = 0
    /\ finishing = FALSE /\ writable = FALSE
    /\ waitingInitial = (~mode.first /\ ~Trojan)
    /\ waitingFence = (waitingInitial /\ mode.carrier = "upgrade")
    /\ deadline = IF waitingInitial /\ ~waitingFence THEN "paused" ELSE "active"
    /\ expired = FALSE
    /\ unread = 0 /\ sent = 0 /\ clientFin = FALSE /\ clientReset = FALSE
    /\ clientRoom = 0 /\ delivered = 0
    /\ wire = IF Trojan \/ mode.carrier \in {"upgrade", "pool"} THEN 1 ELSE 0
    /\ fence = IF Pool THEN 0 ELSE wire
    /\ sendClosed = FALSE /\ finishSent = FALSE /\ netRoom = 0 /\ stopped = FALSE
    /\ arrived = 0 /\ cached = 0 /\ served = 0 /\ serverFin = FALSE /\ serverCut = FALSE
    /\ upgradeLeft = IF mode.carrier = "upgrade" THEN 1 ELSE 0
    /\ headerLeft = IF Trojan THEN 0 ELSE HeaderUnits
    /\ notified = FALSE

-----------------------------------------------------------------------------
\* What the loop asks of the deadline and of the carrier.

OutOfTime == deadline = "active" /\ expired

\* Mutant: the first word does not resume the deadline.
Resumed_Forgotten == deadline

Resumed == IF deadline = "paused" THEN "active" ELSE deadline

RequestPending == upgradeLeft > 0 \/ (IF Pool THEN wire > 0 /\ ~serverCut /\ ~stopped ELSE fence > 0)

WriteCapacity ==
    IF sendClosed \/ (Pool /\ (stopped \/ serverCut)) THEN 0
    ELSE WireLimit - wire

ReserveWrite == Pool => WriteCapacity >= WireRoom

\* tls13_has_pending_input: what can be read without waiting for the socket.
PendingInput == cached > 0 \/ (Pool /\ (serverFin \/ serverCut))

\* tls13_finish_pending, for a carrier that has not failed.
Finishing ==
    /\ ~upstreamFailed /\ sendClosed
    /\ IF Pool THEN ~finishSent /\ ~stopped /\ ~serverCut ELSE wire > 0 \/ ~finishSent

FinishFails == Pool /\ serverCut

NeedsWrite == ~Pool /\ wire > 0

Break == pc' = "end"

\* Mutant: a failed upstream leaves the client's side open.
FailUpstream_KeepsClient == clientEof' = clientEof /\ upstreamEof' = TRUE /\ upstreamFailed' = TRUE

\* upstream_failed=client_eof=upstream_eof=1
FailUpstream == clientEof' = TRUE /\ upstreamEof' = TRUE /\ upstreamFailed' = TRUE

-----------------------------------------------------------------------------
\* The loop.

GivesUp == ~protocolReady /\ OutOfTime

\* Mutant: the end of the stream overtakes the queue.
FinishReached_Ahead(n) == sendClosed

\* The requested end of stream is due once n bytes of the queue are sent.
FinishReached(n) == sendClosed /\ wire = n

\* What is left of the request when n bytes of the queue are sent.
FenceLeft(n) == fence - Minimum(n, fence)

\* Top of the loop: give up before the protocol is ready once the deadline has
\* passed; tls13_flush sends what fits of the queue, and passes on a requested
\* end of stream behind the last byte.  The pool flushes in its own thread.
Flush ==
    /\ pc = "top"
    /\ IF GivesUp
       THEN Break /\ UNCHANGED <<flags, upVars>>
       ELSE /\ pc' = "fence"
            /\ IF upstreamFailed \/ Pool
               THEN UNCHANGED <<flags, upVars>>
               ELSE IF serverCut /\ wire > 0
                    THEN FailUpstream /\ UNCHANGED upVars
                    ELSE LET n == Minimum(wire, netRoom)
                         IN  /\ wire' = wire - n
                             /\ fence' = FenceLeft(n)
                             /\ netRoom' = netRoom - n
                             /\ finishSent' = (finishSent \/ FinishReached(n))
                             /\ UNCHANGED <<flags, sendClosed, stopped>>
    /\ UNCHANGED <<mode, pollVars, clientSendClosed, clientHup, protocolReady, readyVars, output,
                   timeVars, clientVars, peerVars, readVars>>

\* The request has left: pause the deadline while the client has not spoken,
\* and count Trojan as ready.  An upload the peer has stopped ends the client's
\* direction.
Fence ==
    /\ pc = "fence"
    /\ LET out     == ~upstreamFailed /\ ~RequestPending
           fenced  == out /\ waitingFence
           readied == out /\ Trojan /\ ~protocolReady
           halted  == ~clientEof /\ stopped
       IN  IF fenced /\ OutOfTime
           THEN Break /\ UNCHANGED <<waitingFence, deadline, protocolReady, clientEof, sendClosed>>
           ELSE /\ pc' = "send"
                /\ waitingFence' = (waitingFence /\ ~fenced)
                /\ protocolReady' = (protocolReady \/ readied)
                /\ deadline' = IF readied THEN "ended"
                               ELSE IF fenced /\ waitingInitial /\ ~clientEof /\ deadline = "active"
                               THEN "paused" ELSE deadline
                /\ clientEof' = (clientEof \/ halted)
                /\ sendClosed' = (sendClosed \/ halted)
    /\ UNCHANGED <<mode, pollVars, upstreamEof, upstreamFailed, clientSendClosed, clientHup, readyVars, output,
                   waitingInitial, expired, clientVars, wire, fence, finishSent, netRoom, stopped,
                   peerVars, readVars>>

ClientWritable == (Trojan => protocolReady) /\ ~clientEof /\ WriteCapacity >= WireRoom

EndDue(n) == upstreamEof /\ output = n /\ ~clientSendClosed

\* Send what the client takes, end the client's stream behind the last byte of
\* an ended upstream, and leave the loop when both directions are over.  What
\* the loop polls for is settled here: finishing and client_writable are not
\* looked at again before it sleeps.
Send ==
    /\ pc = "send"
    /\ LET n      == Minimum(output, clientRoom)
           closes == EndDue(n)
           failed == Pool /\ ~upstreamFailed /\ serverCut /\ cached = 0
       IN  IF output > 0 /\ (clientReset \/ OutOfTime)
           THEN Break /\ UNCHANGED <<output, delivered, clientRoom, clientSendClosed, flags, pollVars>>
           ELSE /\ output' = output - n
                /\ delivered' = delivered + n
                /\ clientRoom' = clientRoom - n
                /\ IF closes /\ clientReset
                   THEN Break /\ UNCHANGED <<clientSendClosed, flags, pollVars>>
                   ELSE /\ clientSendClosed' = (clientSendClosed \/ closes)
                        /\ IF failed THEN FailUpstream ELSE UNCHANGED flags
                        /\ finishing' = (Finishing /\ ~failed)
                        /\ writable' = (ClientWritable /\ ~failed)
                        /\ pc' = IF clientEof' /\ upstreamEof' /\ ~finishing' /\ output' = 0
                                 THEN "end" ELSE "wait"
    /\ UNCHANGED <<mode, clientHup, protocolReady, readyVars, timeVars, unread, sent, clientFin,
                   clientReset, upVars, peerVars, readVars>>

OutputRoom     == output < OutLimit
ClientReadable == unread > 0 \/ clientFin \/ clientReset
ClientHangup   == clientReset \/ (clientFin /\ clientSendClosed)

\* The descriptors the loop polls, and the events that wake it.
PollsClient    == writable \/ output > 0 \/ (~clientEof /\ ~clientHup)
PollsUpstream  == (~upstreamEof /\ OutputRoom) \/ finishing
UpstreamEvent  == IF Pool THEN notified ELSE arrived > 0 \/ serverFin \/ serverCut
ClientWakes    == PollsClient /\ \/ writable /\ ClientReadable
                                 \/ output > 0 /\ clientRoom > 0
                                 \/ ClientHangup
UpstreamWakes  == \/ PollsUpstream /\ UpstreamEvent
                  \/ NeedsWrite /\ (netRoom > 0 \/ serverCut)

\* Input is at hand: only look whether the client has something too.
WaitPending ==
    /\ pc = "wait"
    /\ ~upstreamEof /\ OutputRoom /\ PendingInput
    /\ upstreamReady' = TRUE
    /\ clientReady' = (writable /\ ClientReadable /\ ~OutOfTime)
    /\ pc' = "client"
    /\ UNCHANGED <<mode, pollVars, flags, clientSendClosed, clientHup, protocolReady, output,
                   timeVars, clientVars, upVars, peerVars, readVars>>

\* Nothing at hand: poll.  A hang-up of the client is looked into at once.
Wait ==
    /\ pc = "wait"
    /\ ~(~upstreamEof /\ OutputRoom /\ PendingInput)
    /\ ClientWakes \/ UpstreamWakes \/ OutOfTime
    /\ LET hup  == PollsClient /\ ClientHangup
           gone == hup /\ unread = 0 /\ ~clientReset
       IN  IF OutOfTime
           THEN pc' = "top" /\ UNCHANGED <<readyVars, clientEof, sendClosed, clientHup>>
           ELSE IF hup /\ unread = 0 /\ (clientReset \/ FinishFails)
           THEN Break /\ UNCHANGED <<readyVars, clientEof, sendClosed, clientHup>>
           ELSE /\ pc' = "client"
                /\ clientEof' = (clientEof \/ gone)
                /\ sendClosed' = (sendClosed \/ gone)
                /\ clientHup' = (clientHup \/ (hup /\ ~gone))
                /\ clientReady' = (PollsClient /\ ((writable /\ ClientReadable) \/ ClientHangup))
                /\ upstreamReady' = (OutputRoom /\ PollsUpstream /\ UpstreamEvent)
    /\ UNCHANGED <<mode, pollVars, upstreamEof, upstreamFailed, clientSendClosed, protocolReady, output, timeVars,
                   clientVars, wire, fence, finishSent, netRoom, stopped, peerVars, readVars>>

\* Read from the client; its first word sets the paused deadline going again.
Client ==
    /\ pc = "client"
    /\ IF ~(clientReady /\ ~clientEof /\ ReserveWrite)
       THEN pc' = "upstream" /\ UNCHANGED <<clientEof, timeVars, unread, sendClosed>>
       ELSE /\ deadline' = IF waitingInitial THEN Resumed ELSE deadline
            /\ waitingInitial' = FALSE
            /\ waitingFence' = (waitingFence /\ ~waitingInitial)
            /\ UNCHANGED expired
            /\ IF (deadline' = "active" /\ expired) \/ (unread = 0 /\ (clientReset \/ FinishFails))
               THEN Break /\ UNCHANGED <<clientEof, unread, sendClosed>>
               ELSE IF unread = 0
               THEN clientEof' = TRUE /\ sendClosed' = TRUE /\ pc' = "top" /\ UNCHANGED unread
               ELSE unread' = unread - 1 /\ pc' = "write" /\ UNCHANGED <<clientEof, sendClosed>>
    /\ UNCHANGED <<mode, pollVars, upstreamEof, upstreamFailed, clientSendClosed, clientHup, protocolReady, readyVars,
                   output, sent, clientFin, clientReset, clientRoom, delivered, wire, fence, finishSent,
                   netRoom, stopped, peerVars, readVars>>

\* Write what was read upstream.  A write the peer no longer wants (EPIPE) ends
\* the client's direction, any other failure the connection.
Write ==
    /\ pc = "write"
    /\ IF Pool /\ stopped
       THEN clientEof' = TRUE /\ pc' = "upstream" /\ UNCHANGED wire
       ELSE IF (Pool /\ serverCut) \/ wire = WireLimit
       THEN Break /\ UNCHANGED <<clientEof, wire>>
       ELSE wire' = wire + 1 /\ pc' = "upstream" /\ UNCHANGED clientEof
    /\ UNCHANGED <<mode, pollVars, upstreamEof, upstreamFailed, clientSendClosed, clientHup, protocolReady, readyVars,
                   output, timeVars, clientVars, fence, sendClosed, finishSent, netRoom, stopped,
                   peerVars, readVars>>

\* Nothing to read after all: the pool's notification was for the upload.
UpstreamIdle ==
    /\ pc = "upstream"
    /\ ~upstreamReady \/ upstreamEof \/ (Pool /\ ~PendingInput)
    /\ pc' = "top"
    /\ notified' = (notified /\ ~upstreamReady)
    /\ UNCHANGED <<mode, pollVars, flags, clientSendClosed, clientHup, protocolReady, readyVars, output, timeVars,
                   clientVars, upVars, peerVars, arrived, cached, upgradeLeft, headerLeft>>

Reads == pc = "upstream" /\ upstreamReady /\ ~upstreamEof /\ (Pool => PendingInput)

\* A read that finds the end of the stream, a failure, or nothing yet.  The end
\* ends the server's direction only, except for WebSocket, whose close frame
\* closes both; before the VLESS header is complete it ends the connection.
UpstreamEnds ==
    /\ Reads /\ arrived + cached = 0
    /\ notified' = (Pool /\ (serverFin \/ serverCut))
    /\ IF serverCut \/ (serverFin /\ upgradeLeft > 0)
       THEN FailUpstream /\ pc' = "top" /\ UNCHANGED sendClosed
       ELSE IF serverFin /\ ~Trojan /\ ~protocolReady
       THEN Break /\ UNCHANGED <<flags, sendClosed>>
       ELSE /\ pc' = "top"
            /\ upstreamEof' = serverFin
            /\ clientEof' = (clientEof \/ (serverFin /\ mode.carrier = "ws"))
            /\ sendClosed' = (sendClosed \/ (serverFin /\ mode.carrier = "ws"))
            /\ UNCHANGED upstreamFailed
    /\ UNCHANGED <<mode, pollVars, clientSendClosed, clientHup, protocolReady, readyVars, output, timeVars, clientVars,
                   wire, fence, finishSent, netRoom, stopped, peerVars, arrived, cached, upgradeLeft, headerLeft>>

LeftCached(fill, source, used) == IF fill \/ cached > 0 THEN source - used ELSE 0

\* A read that finds data: it drops the 101 answer, and takes one unit behind
\* it.  WebSocket and a pending upgrade read ahead into the cache.
UpstreamData ==
    /\ Reads /\ arrived + cached > 0
    /\ LET fill   == cached = 0 /\ (mode.carrier = "ws" \/ upgradeLeft > 0)
           source == IF cached > 0 THEN cached ELSE arrived
           used   == Minimum(source, upgradeLeft + 1)
           got    == used > upgradeLeft
           header == got /\ ~Trojan /\ ~protocolReady
           parsed == header /\ headerLeft = 1
       IN  /\ cached' = LeftCached(fill, source, used)
           /\ arrived' = IF cached > 0 THEN arrived ELSE IF fill THEN 0 ELSE arrived - used
           /\ upgradeLeft' = 0
           /\ headerLeft' = IF header THEN headerLeft - 1 ELSE headerLeft
           /\ protocolReady' = (protocolReady \/ parsed)
           /\ deadline' = IF parsed THEN "ended" ELSE IF header /\ waitingInitial THEN Resumed ELSE deadline
           /\ waitingInitial' = (waitingInitial /\ ~header)
           /\ output' = IF got /\ ~header THEN output + 1 ELSE output
           /\ notified' = (Pool /\ (source > used \/ serverFin \/ serverCut))
    /\ pc' = "top"
    /\ UNCHANGED <<mode, pollVars, flags, clientSendClosed, clientHup, readyVars, waitingFence, expired, clientVars,
                   upVars, peerVars>>

Loop == \/ Flush \/ Fence \/ Send \/ WaitPending \/ Wait \/ Client \/ Write
        \/ UpstreamIdle \/ UpstreamEnds \/ UpstreamData

-----------------------------------------------------------------------------
\* The client, the network, the pool's thread and the server.

ClientUnchanged == UNCHANGED <<mode, pollVars, pc, flags, clientSendClosed, clientHup, protocolReady, readyVars,
                               output, timeVars, upVars, peerVars, readVars>>

ClientSends ==
    /\ pc # "end" /\ sent < MaxUp /\ ~clientFin /\ ~clientReset
    /\ sent' = sent + 1 /\ unread' = unread + 1
    /\ ClientUnchanged /\ UNCHANGED <<clientFin, clientReset, clientRoom, delivered>>

ClientCloses ==
    /\ pc # "end" /\ ~clientFin /\ ~clientReset
    /\ clientFin' = TRUE
    /\ ClientUnchanged /\ UNCHANGED <<unread, sent, clientReset, clientRoom, delivered>>

ClientResets ==
    /\ pc # "end" /\ ~clientReset
    /\ clientReset' = TRUE
    /\ ClientUnchanged /\ UNCHANGED <<unread, sent, clientFin, clientRoom, delivered>>

ClientReceives ==
    /\ pc # "end" /\ clientRoom = 0
    /\ clientRoom' = 1
    /\ ClientUnchanged /\ UNCHANGED <<unread, sent, clientFin, clientReset, delivered>>

CarrierUnchanged == UNCHANGED <<mode, pollVars, pc, flags, clientSendClosed, clientHup, protocolReady, readyVars,
                                output, clientVars, arrived, upgradeLeft, headerLeft>>

NetworkDrains ==
    /\ pc # "end" /\ ~Pool /\ netRoom = 0
    /\ netRoom' = 1
    /\ CarrierUnchanged
    /\ UNCHANGED <<timeVars, wire, fence, sendClosed, finishSent, stopped, peerVars, cached, notified>>

\* The pool's thread sends from the stream's queue, or the end behind it.
ActorSends ==
    /\ pc # "end" /\ Pool /\ ~serverCut /\ ~stopped /\ ~finishSent
    /\ wire > 0 \/ sendClosed
    /\ wire' = IF wire > 0 THEN wire - 1 ELSE 0
    /\ finishSent' = (wire = 0)
    /\ notified' = TRUE
    /\ CarrierUnchanged /\ UNCHANGED <<timeVars, fence, sendClosed, netRoom, stopped, peerVars, cached>>

ServerUnits == MaxDown + (IF Trojan THEN 0 ELSE HeaderUnits) + (IF mode.carrier = "upgrade" THEN 1 ELSE 0)

ServerUnchanged == UNCHANGED <<mode, pollVars, pc, flags, clientSendClosed, clientHup, protocolReady, readyVars, output,
                               timeVars, clientVars, fence, sendClosed, finishSent, netRoom,
                               upgradeLeft, headerLeft>>

ServerSends ==
    /\ pc # "end" /\ ~serverFin /\ ~serverCut /\ fence = 0 /\ served < ServerUnits
    /\ served' = served + 1
    /\ arrived' = IF Pool THEN 0 ELSE arrived + 1
    /\ cached' = IF Pool THEN cached + 1 ELSE cached
    /\ notified' = Pool
    /\ ServerUnchanged /\ UNCHANGED <<serverFin, serverCut, wire, stopped>>

ServerEnds ==
    /\ pc # "end" /\ ~serverFin /\ ~serverCut
    /\ serverFin' = TRUE /\ notified' = Pool
    /\ ServerUnchanged /\ UNCHANGED <<arrived, cached, served, serverCut, wire, stopped>>

\* The connection breaks (a reset, a failed record, a pool stream that failed).
ServerFails ==
    /\ pc # "end" /\ ~serverCut
    /\ serverCut' = TRUE /\ notified' = Pool
    /\ ServerUnchanged /\ UNCHANGED <<arrived, cached, served, serverFin, wire, stopped>>

\* RST_STREAM(NO_ERROR) behind a complete response: stop_upload drops the queue.
PeerStops ==
    /\ pc # "end" /\ Pool /\ serverFin /\ ~serverCut /\ ~stopped /\ ~finishSent
    /\ stopped' = TRUE /\ wire' = 0 /\ notified' = TRUE
    /\ ServerUnchanged /\ UNCHANGED <<arrived, cached, served, serverFin, serverCut>>

Expire ==
    /\ pc # "end" /\ deadline = "active" /\ ~expired
    /\ expired' = TRUE
    /\ UNCHANGED <<mode, pollVars, pc, flags, clientSendClosed, clientHup, protocolReady, readyVars, output,
                   waitingInitial, waitingFence, deadline, clientVars, upVars, peerVars, readVars>>

Environment == \/ ClientSends \/ ClientCloses \/ ClientResets \/ ClientReceives
               \/ NetworkDrains \/ ActorSends
               \/ ServerSends \/ ServerEnds \/ ServerFails \/ PeerStops \/ Expire

Next == Loop \/ Environment

Spec == Init /\ [][Next]_vars

\* The loop runs; the network, the pool's thread and a reading client go on.
FairSpec == Spec /\ WF_vars(Loop) /\ WF_vars(NetworkDrains) /\ WF_vars(ActorSends) /\ WF_vars(ClientReceives)

-----------------------------------------------------------------------------
\* Properties.

Prelude == (IF Trojan THEN 0 ELSE HeaderUnits - headerLeft)
           + (IF mode.carrier = "upgrade" THEN 1 - upgradeLeft ELSE 0)

\* Every unit the server sent is either still in the carrier, in the output
\* buffer or with the client: read-ahead, header parsing and partial sends
\* neither lose nor repeat payload (main.c 1179-1187, 1340-1425).
DownloadConserved == served = Prelude + arrived + cached + output + delivered

\* The client sees the end of the stream only behind the server's last unit:
\* unless the upstream failed, shutdown(cfd,SHUT_WR) (main.c 1188-1191) means
\* the server ended and everything it sent has been handed over.
EndBehindDownload ==
    clientSendClosed /\ ~upstreamFailed =>
        serverFin /\ (Trojan \/ protocolReady) /\ arrived + cached + output = 0

\* The server sees the end of the upload only behind the client's last unit
\* (tls13_finish_write queues the end, tls13_flush and the pool send it behind
\* the queue).  A WebSocket close frame from the server closes both directions.
EndBehindUpload ==
    finishSent /\ ~(mode.carrier = "ws" /\ serverFin) => clientFin /\ unread = 0 /\ wire = 0

\* No byte is lost in the relay and no end overtakes one: what the server
\* sent is delivered or still on its way, the client's socket is shut only
\* behind all of it, and the upload is finished only behind all the client
\* sent.
EndsBehindData == DownloadConserved /\ EndBehindDownload /\ EndBehindUpload

\* When the loop goes to sleep, the deadline is paused only while both sides
\* are silent and the request is out, it runs from the first word on until the
\* protocol is ready, and never again after that (main.c 1156-1173, 1246, 1373).
DeadlineMatchesWaiting ==
    pc = "wait" /\ ~upstreamFailed =>
        /\ (deadline = "ended") = protocolReady
        /\ deadline = "paused" => /\ sent = unread /\ (Trojan \/ headerLeft = HeaderUnits) /\ (~clientEof \/ stopped)
                                  /\ mode.carrier = "upgrade" => ~RequestPending
        /\ ~protocolReady /\ (sent > unread \/ (~Trojan /\ headerLeft < HeaderUnits)) => deadline = "active"

\* The loop ends (and frees the client's slot) once a break before the server's
\* end is there, and over a carrier with a socket of its own once both sides have
\* ended, whatever was buffered, as long as the client reads and the network
\* moves.  (A pooled stream whose response has ended is not polled any more.)
EndsWithItsPeers ==
    ((~Pool /\ clientFin /\ serverFin) \/ (serverCut /\ ~upstreamEof)) ~> (pc = "end")

\* A connection whose deadline passes is given up, unless it became ready.
TimeoutEnds == OutOfTime ~> (pc = "end" \/ protocolReady)

\* A relay ends: when both peers have ended or the carrier is cut, and when
\* the server does not answer within the handshake deadline.
RelayEnds == EndsWithItsPeers /\ TimeoutEnds

\* What tests/test_xray.py says of RST_STREAM(NO_ERROR) behind a complete
\* response: the relay ends without waiting for the client to close
\* ("reset did not release the client without client FIN").
ResetReleasesClient == stopped ~> (pc = "end")
=============================================================================
