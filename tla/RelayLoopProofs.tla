-------------------------- MODULE RelayLoopProofs --------------------------
(***************************************************************************)
(* Proofs about the relay loop, for every carrier and protocol, any amount *)
(* of data and any sizes of the buffers: data is conserved and an end of   *)
(* stream never overtakes it, and the deadline runs when it should.        *)
(*                                                                         *)
(* The argument for the download: an ended upstream that did not fail has  *)
(* been read to the end, so the units left are in the output buffer, and   *)
(* the client's socket is shut with an empty one.  For the upload: the end *)
(* is requested only when the client has ended and everything it sent was  *)
(* read (or the peer has closed or stopped the upload), nothing is written *)
(* once the client's direction is over, and the end is passed on behind    *)
(* the queue.  For the deadline: it is paused only while the loop waits    *)
(* for the first word, and each way to stop waiting resumes it.            *)
(***************************************************************************)
EXTENDS RelayLoop, TLAPS

Places == {"top", "fence", "send", "wait", "client", "write", "upstream", "end"}

Placed == mode \in Modes /\ pc \in Places /\ deadline \in {"active", "paused", "ended"}

Flagged ==
  /\ clientEof \in BOOLEAN /\ upstreamEof \in BOOLEAN /\ upstreamFailed \in BOOLEAN
  /\ clientSendClosed \in BOOLEAN /\ protocolReady \in BOOLEAN /\ clientReady \in BOOLEAN
  /\ waitingInitial \in BOOLEAN /\ waitingFence \in BOOLEAN
  /\ clientFin \in BOOLEAN /\ clientReset \in BOOLEAN /\ sendClosed \in BOOLEAN /\ finishSent \in BOOLEAN
  /\ stopped \in BOOLEAN /\ serverFin \in BOOLEAN /\ serverCut \in BOOLEAN

Counted ==
  /\ output \in Nat /\ unread \in Nat /\ sent \in Nat /\ clientRoom \in Nat /\ delivered \in Nat
  /\ wire \in Nat /\ fence \in Nat /\ netRoom \in Nat
  /\ arrived \in Nat /\ cached \in Nat /\ served \in Nat
  /\ upgradeLeft \in {0, 1} /\ headerLeft \in 0..HeaderUnits

TypeOK == Placed /\ Flagged /\ Counted

\* What precedes the payload is there as the carrier and the protocol have it,
\* and a pool stream has its data in the cache.
PreludeInv ==
  /\ mode.carrier # "upgrade" => upgradeLeft = 0
  /\ Trojan => headerLeft = 0
  /\ ~Trojan => (protocolReady <=> headerLeft = 0)
  /\ Pool => arrived = 0

\* An ended upstream has been read to the end unless it failed, and the
\* client's socket is shut behind the output buffer of an ended upstream.
DownInv ==
  /\ DownloadConserved
  /\ upstreamFailed => upstreamEof
  /\ upstreamEof /\ ~upstreamFailed => serverFin /\ (Trojan \/ protocolReady) /\ arrived = 0 /\ cached = 0
  /\ clientSendClosed => upstreamEof /\ output = 0

\* The end of the upload is requested when the client's direction is over, and
\* passed on behind the queue; only a pool stream is stopped, and then its end
\* is not passed on.  Nothing is written once the client's direction is over.
UpInv ==
  /\ sendClosed => clientEof
  /\ sendClosed /\ ~(mode.carrier = "ws" /\ serverFin) /\ ~stopped => clientFin /\ unread = 0
  /\ finishSent => sendClosed /\ wire = 0 /\ ~stopped
  /\ stopped => Pool
  /\ pc = "write" => ~clientEof
  /\ pc = "client" /\ clientReady => ClientReadable

\* The deadline has ended when the protocol is ready.  It is paused while the
\* loop waits for the first word, which neither side has spoken, and behind
\* HTTPUpgrade only when the request is out.
TimeInv ==
  /\ deadline = "ended" <=> protocolReady
  /\ waitingInitial => sent = unread /\ ~Trojan /\ headerLeft = HeaderUnits
  /\ deadline = "paused" =>
       /\ waitingInitial
       /\ ~upstreamFailed => ~clientEof \/ stopped
       /\ mode.carrier = "upgrade" => ~RequestPending

Inv == TypeOK /\ PreludeInv /\ DownInv /\ UpInv /\ TimeInv

-----------------------------------------------------------------------------
(* What each conjunct looks at: a step that leaves that alone keeps it. *)

flagsSeen ==
  <<clientEof, upstreamEof, upstreamFailed, clientSendClosed, protocolReady, clientReady, waitingInitial,
    waitingFence, clientFin, clientReset, sendClosed, finishSent, stopped, serverFin, serverCut>>
countsSeen ==
  <<output, unread, sent, clientRoom, delivered, wire, fence, netRoom, arrived, cached, served,
    upgradeLeft, headerLeft>>
preludeSeen == <<mode, upgradeLeft, headerLeft, protocolReady, arrived>>
unitsSeen == <<mode, served, headerLeft, upgradeLeft, arrived, cached, output, delivered, serverFin, protocolReady,
               clientSendClosed>>
upSeen == <<mode, sendClosed, clientEof, serverFin, stopped, clientFin, unread, finishSent, wire>>
pendingSeen == <<mode, upgradeLeft, wire, serverCut, stopped, fence>>
timeSeen == <<deadline, protocolReady, waitingInitial, sent, unread, mode, headerLeft>>

\* The conjuncts of the inductive invariant.
LEMMA Parts ==
  ASSUME Inv
  PROVE  Placed /\ Flagged /\ Counted /\ PreludeInv /\ DownInv /\ UpInv /\ TimeInv
  BY Zenon DEF Inv, TypeOK

\* The conjuncts after a step make the invariant after it.
LEMMA Whole ==
  ASSUME Placed', Flagged', Counted', PreludeInv', DownInv', UpInv', TimeInv'
  PROVE  Inv'
  BY Zenon DEF Inv, TypeOK

\* The VLESS response header comes in at least one fragment.
LEMMA HeaderCounted == HeaderUnits \in Nat /\ HeaderUnits > 0
  BY RelayAssumption

\* Whoever steps aside of the loop leaves its place.
LEMMA PlacedFrame == ASSUME Placed, UNCHANGED <<mode, pc, deadline>> PROVE Placed'
  BY Zenon DEF Placed

\* A step of the loop that leaves the mode and the deadline alone.
LEMMA PlacedMove == ASSUME Placed, UNCHANGED <<mode, deadline>>, pc' \in Places PROVE Placed'
  BY Zenon DEF Placed

\* The flags of the loop and its peers.
LEMMA FlaggedFrame == ASSUME Flagged, UNCHANGED flagsSeen PROVE Flagged'
  BY DEF Flagged, flagsSeen

\* The counters of both directions.
LEMMA CountedFrame == ASSUME Counted, UNCHANGED countsSeen PROVE Counted'
  BY Zenon DEF Counted, countsSeen

\* What precedes the payload.
LEMMA PreludeFrame == ASSUME PreludeInv, UNCHANGED preludeSeen PROVE PreludeInv'
  BY Zenon DEF PreludeInv, preludeSeen, Trojan, Pool

\* The units of the download.
LEMMA ConservedFrame ==
  ASSUME DownloadConserved, UNCHANGED unitsSeen
  PROVE  DownloadConserved'
  BY Zenon DEF DownloadConserved, Prelude, Trojan, unitsSeen

\* The download, with the flags of the upstream left alone.
LEMMA DownFrame ==
  ASSUME DownInv, UNCHANGED unitsSeen, UNCHANGED <<upstreamEof, upstreamFailed>>
  PROVE  DownInv'
<1>1. DownloadConserved'
  BY Zenon, ConservedFrame DEF DownInv
<1> QED
  BY Zenon, <1>1 DEF DownInv, unitsSeen, Trojan

\* An upstream that failed asks for nothing more.
LEMMA DownFails ==
  ASSUME DownInv, UNCHANGED unitsSeen, upstreamEof' = TRUE, upstreamFailed' = TRUE
  PROVE  DownInv'
<1>1. DownloadConserved'
  BY Zenon, ConservedFrame DEF DownInv
<1> QED
  BY Zenon, <1>1 DEF DownInv, unitsSeen

\* A step of the loop that is not about to write or to read from the client.
LEMMA UpFrame ==
  ASSUME UpInv, UNCHANGED upSeen, pc' \notin {"write", "client"}
  PROVE  UpInv'
<1>1. pc' # "write" /\ pc' # "client"
  OBVIOUS
<1> QED
  BY Zenon, <1>1 DEF UpInv, upSeen, Pool

\* A step that is none of the loop's.
LEMMA UpAside ==
  ASSUME UpInv, UNCHANGED upSeen, UNCHANGED <<pc, clientReady, clientReset>>
  PROVE  UpInv'
  BY Zenon DEF UpInv, upSeen, Pool, ClientReadable

\* Whether the request is still on its way.
LEMMA PendingFrame == ASSUME UNCHANGED pendingSeen PROVE RequestPending' <=> RequestPending
  BY Zenon DEF RequestPending, pendingSeen, Pool

\* The request stays out, and the upstream fails or the client's direction
\* stays as it was.
LEMMA TimeFrame ==
  ASSUME TimeInv, UNCHANGED timeSeen, RequestPending' => RequestPending, stopped => stopped',
         ~upstreamFailed' => ~upstreamFailed /\ (stopped' \/ clientEof' = clientEof)
  PROVE  TimeInv'
  BY DEF TimeInv, timeSeen, Trojan

-----------------------------------------------------------------------------
(* The steps of the loop. *)

USE DEF flags, readyVars, pollVars, timeVars, clientVars, upVars, peerVars, readVars

\* Top of the loop: the queue drains, and the end of the upload goes behind it.
LEMMA FlushKeeps ==
  ASSUME Inv, Flush
  PROVE  Inv'
<1> DEFINE n == Minimum(wire, netRoom)
<1>0. Placed /\ Flagged /\ Counted /\ PreludeInv /\ DownInv /\ UpInv /\ TimeInv
  BY Zenon, Parts
<1>1. UNCHANGED <<mode, clientSendClosed, protocolReady, clientReady, output, waitingInitial, waitingFence, deadline,
                  unread, sent, clientFin, clientReset, clientRoom, delivered, served, serverFin, serverCut,
                  arrived, cached, upgradeLeft, headerLeft>>
  BY Zenon DEF Flush
<1>2. UNCHANGED <<sendClosed, stopped>> /\ pc' \in {"end", "fence"}
  BY Zenon DEF Flush, Break, FailUpstream
<1>3. UNCHANGED <<clientEof, upstreamEof, upstreamFailed>> \/ (clientEof' = TRUE /\ upstreamEof' = TRUE /\ upstreamFailed' = TRUE)
  BY Zenon DEF Flush, FailUpstream
<1>4. \/ UNCHANGED <<wire, fence, netRoom, finishSent>>
      \/ /\ ~Pool /\ wire' = wire - n /\ fence' = fence - Minimum(n, fence) /\ netRoom' = netRoom - n
         /\ finishSent' \in BOOLEAN /\ (finishSent' <=> finishSent \/ (sendClosed /\ wire = n))
  BY Zenon DEF Flush, FenceLeft, FinishReached
<1>5. wire \in Nat /\ fence \in Nat /\ netRoom \in Nat
  BY Zenon, <1>0 DEF Counted
<1>6. Placed'
  BY <1>0, <1>1, <1>2, PlacedMove DEF Places
<1>7. Flagged'
  <2>1. finishSent' \in BOOLEAN /\ clientEof' \in BOOLEAN /\ upstreamEof' \in BOOLEAN /\ upstreamFailed' \in BOOLEAN
    BY Zenon, <1>0, <1>3, <1>4 DEF Flagged
  <2> QED
    BY <1>0, <1>1, <1>2, <2>1 DEF Flagged
<1>8. wire' \in Nat /\ fence' \in Nat /\ netRoom' \in Nat /\ fence' <= fence
  BY <1>4, <1>5 DEF Minimum
<1>9. Counted'
  BY Zenon, <1>0, <1>1, <1>8 DEF Counted
<1>10. PreludeInv'
  BY Zenon, <1>0, <1>1, PreludeFrame DEF preludeSeen
<1>11. DownInv'
  BY Zenon, <1>0, <1>1, <1>3, DownFrame, DownFails DEF unitsSeen
<1>12. UpInv'
  <2>0. (finishSent => sendClosed /\ wire = 0 /\ ~stopped) /\ (stopped => Pool)
    BY Zenon, <1>0 DEF UpInv
  <2>1. finishSent' => sendClosed /\ wire' = 0 /\ ~stopped
    <3>1. CASE UNCHANGED <<wire, fence, netRoom, finishSent>>
      BY Zenon, <2>0, <3>1
    <3>2. CASE ~Pool /\ wire' = wire - n /\ (finishSent' <=> finishSent \/ (sendClosed /\ wire = n))
      <4>1. (wire = 0 => wire' = 0) /\ (wire = n => wire' = 0)
        BY <1>5, <3>2 DEF Minimum
      <4> QED
        BY Zenon, <2>0, <3>2, <4>1
    <3> QED
      BY Zenon, <1>4, <3>1, <3>2
  <2>2. pc' # "write" /\ pc' # "client"
    BY <1>2
  <2> QED
    BY Zenon, <1>0, <1>1, <1>2, <1>3, <2>1, <2>2 DEF UpInv, Pool
<1>13. TimeInv'
  <2>1. RequestPending' => RequestPending
    BY <1>1, <1>2, <1>4, <1>5, <1>8 DEF RequestPending, Pool
  <2>2. stopped => stopped'
    BY Zenon, <1>2
  <2>3. ~upstreamFailed' => ~upstreamFailed /\ (stopped' \/ clientEof' = clientEof)
    BY Zenon, <1>3
  <2>4. UNCHANGED timeSeen
    BY Zenon, <1>1 DEF timeSeen
  <2> QED
    BY Zenon, <1>0, <2>1, <2>2, <2>3, <2>4, TimeFrame
<1> QED
  BY Zenon, <1>6, <1>7, <1>9, <1>10, <1>11, <1>12, <1>13, Whole

\* The request has left: the only place where the deadline is paused.
LEMMA FenceKeeps ==
  ASSUME Inv, Fence
  PROVE  Inv'
<1> DEFINE readied == ~upstreamFailed /\ ~RequestPending /\ Trojan /\ ~protocolReady
           pauses == ~upstreamFailed /\ ~RequestPending /\ waitingInitial /\ ~clientEof
<1>0. Placed /\ Flagged /\ Counted /\ PreludeInv /\ DownInv /\ UpInv /\ TimeInv
  BY Zenon, Parts
<1>1. UNCHANGED <<mode, upstreamEof, upstreamFailed, clientSendClosed, clientReady, output, waitingInitial,
                  unread, sent, clientFin, clientReset, clientRoom, delivered, wire, fence, finishSent, netRoom, stopped,
                  served, serverFin, serverCut, arrived, cached, upgradeLeft, headerLeft>>
  BY Zenon DEF Fence
<1>2. pc' \in {"end", "send"} /\ (waitingFence' \in BOOLEAN \/ waitingFence' = waitingFence)
  BY Zenon DEF Fence, Break
<1>3. \/ UNCHANGED <<clientEof, sendClosed>>
      \/ ~clientEof /\ stopped /\ clientEof' = TRUE /\ sendClosed' = TRUE
  BY Zenon, <1>0 DEF Fence, Flagged
<1>4. \/ UNCHANGED <<protocolReady, deadline>>
      \/ readied /\ protocolReady' = TRUE /\ deadline' = "ended"
      \/ pauses /\ protocolReady' = protocolReady /\ deadline = "active" /\ deadline' = "paused"
  BY Zenon, <1>0 DEF Fence, Flagged
<1> HIDE DEF readied, pauses
<1>5. Placed'
  BY <1>0, <1>1, <1>2, <1>4 DEF Placed, Places
<1>6. Flagged'
  <2>1. waitingFence' \in BOOLEAN /\ clientEof' \in BOOLEAN /\ sendClosed' \in BOOLEAN /\ protocolReady' \in BOOLEAN
    BY Zenon, <1>0, <1>2, <1>3, <1>4 DEF Flagged
  <2> QED
    BY <1>0, <1>1, <2>1 DEF Flagged
<1>7. Counted'
  BY Zenon, <1>0, <1>1, CountedFrame DEF countsSeen
<1>8. protocolReady' = protocolReady \/ (Trojan /\ ~upstreamFailed /\ protocolReady' = TRUE)
  BY Zenon, <1>4 DEF readied
<1>9. PreludeInv'
  BY <1>0, <1>1, <1>8 DEF PreludeInv, Trojan, Pool
<1>10. DownInv'
  <2>1. DownloadConserved'
    BY Zenon, <1>0, <1>1 DEF DownInv, DownloadConserved, Prelude, Trojan
  <2> QED
    BY Zenon, <1>0, <1>1, <1>8, <2>1 DEF DownInv, Trojan
<1>11. UpInv'
  <2>1. pc' # "write" /\ pc' # "client"
    BY <1>2
  <2> QED
    BY <1>0, <1>1, <1>3, <2>1 DEF UpInv, Pool
<1>12. TimeInv'
  <2>1. RequestPending' <=> RequestPending
    BY Zenon, <1>1, PendingFrame DEF pendingSeen
  <2>2. CASE UNCHANGED <<protocolReady, deadline>>
    BY <1>0, <1>1, <1>3, <2>1, <2>2 DEF TimeInv, Trojan
  <2>3. CASE readied /\ protocolReady' = TRUE /\ deadline' = "ended"
    <3>1. deadline' # "paused" /\ Trojan
      BY <2>3 DEF readied
    <3> QED
      BY Zenon, <1>0, <1>1, <2>3, <3>1 DEF TimeInv, Trojan
  <2>4. CASE pauses /\ protocolReady' = protocolReady /\ deadline = "active" /\ deadline' = "paused"
    <3>1. ~protocolReady /\ ~protocolReady' /\ deadline' # "ended"
      BY <1>0, <2>4 DEF TimeInv, Flagged
    <3> QED
      BY <1>0, <1>1, <1>3, <2>1, <2>4, <3>1 DEF TimeInv, Trojan, pauses
  <2> QED
    BY Zenon, <1>4, <2>2, <2>3, <2>4
<1> QED
  BY Zenon, <1>5, <1>6, <1>7, <1>9, <1>10, <1>11, <1>12, Whole

\* The output buffer drains, and the end of the download goes behind it.
LEMMA SendKeeps ==
  ASSUME Inv, Send
  PROVE  Inv'
<1> DEFINE n == Minimum(output, clientRoom)
<1>0. Placed /\ Flagged /\ Counted /\ PreludeInv /\ DownInv /\ UpInv /\ TimeInv
  BY Zenon, Parts
<1>1. UNCHANGED <<mode, protocolReady, clientReady, waitingInitial, waitingFence, deadline, unread, sent, clientFin,
                  clientReset, wire, fence, sendClosed, finishSent, netRoom, stopped, served, serverFin, serverCut,
                  arrived, cached, upgradeLeft, headerLeft>>
  BY Zenon DEF Send
<1>2. pc' \in {"end", "wait"}
  BY Zenon DEF Send, Break
<1>3. UNCHANGED <<clientEof, upstreamEof, upstreamFailed>> \/ (clientEof' = TRUE /\ upstreamEof' = TRUE /\ upstreamFailed' = TRUE)
  BY Zenon DEF Send, FailUpstream
<1>4. \/ UNCHANGED <<output, delivered, clientRoom>>
      \/ output' = output - n /\ delivered' = delivered + n /\ clientRoom' = clientRoom - n
  BY Zenon DEF Send
<1>5. \/ clientSendClosed' = clientSendClosed
      \/ clientSendClosed' /\ clientSendClosed' \in BOOLEAN /\ upstreamEof /\ output' = output - n /\ output = n
  BY Zenon, <1>0 DEF Send, EndDue, Flagged
<1>6. output \in Nat /\ clientRoom \in Nat /\ delivered \in Nat
  BY Zenon, <1>0 DEF Counted
<1>7. /\ output' \in Nat /\ clientRoom' \in Nat /\ delivered' \in Nat
      /\ output' + delivered' = output + delivered /\ (output = 0 => output' = 0)
  BY <1>4, <1>6 DEF Minimum
<1>8. Placed'
  BY <1>0, <1>1, <1>2, PlacedMove DEF Places
<1>9. Flagged'
  <2>1. clientSendClosed' \in BOOLEAN /\ clientEof' \in BOOLEAN /\ upstreamEof' \in BOOLEAN /\ upstreamFailed' \in BOOLEAN
    BY Zenon, <1>0, <1>3, <1>5 DEF Flagged
  <2> QED
    BY <1>0, <1>1, <2>1 DEF Flagged
<1>10. Counted'
  BY Zenon, <1>0, <1>1, <1>7 DEF Counted
<1>11. PreludeInv'
  BY Zenon, <1>0, <1>1, PreludeFrame DEF preludeSeen
<1>12. DownInv'
  <2>1. DownloadConserved'
    <3>1. Prelude' = Prelude /\ UNCHANGED <<served, arrived, cached>>
      BY Zenon, <1>1 DEF Prelude, Trojan
    <3>2. Prelude \in Int /\ arrived \in Nat /\ cached \in Nat
      BY <1>0, HeaderCounted DEF Prelude, Counted
    <3>3. served = Prelude + arrived + cached + output + delivered
      BY Zenon, <1>0 DEF DownInv, DownloadConserved
    <3>4. served' = Prelude + arrived + cached + output' + delivered'
      <4>1. CASE UNCHANGED <<output, delivered, clientRoom>>
        BY Zenon, <3>1, <3>3, <4>1
      <4>2. CASE output' = output - n /\ delivered' = delivered + n
        <5>1. PICK rest \in Int : rest = Prelude + arrived + cached
          BY <3>2
        <5>2. PICK k \in Nat : k = n
          BY <1>6 DEF Minimum
        <5>3. served = rest + output + delivered
          BY Zenon, <3>3, <5>1
        <5>4. served' = rest + (output - k) + (delivered + k)
          BY <1>6, <3>1, <5>3
        <5> QED
          BY Zenon, <4>2, <5>1, <5>2, <5>4
      <4> QED
        BY Zenon, <1>4, <4>1, <4>2
    <3> QED
      BY Zenon, <3>1, <3>4 DEF DownloadConserved
  <2>2. clientSendClosed' => upstreamEof /\ output' = 0
    <3>1. clientSendClosed => upstreamEof /\ output = 0
      BY Zenon, <1>0 DEF DownInv
    <3> QED
      <4>1. output' = output - n /\ output = n => output' = 0
        BY <1>6
      <4> QED
        BY Zenon, <1>5, <1>7, <3>1, <4>1
  <2> QED
    BY <1>0, <1>1, <1>3, <2>1, <2>2 DEF DownInv, Trojan
<1>13. UpInv'
  <2>1. pc' # "write" /\ pc' # "client"
    BY <1>2
  <2> QED
    BY Zenon, <1>0, <1>1, <1>3, <2>1 DEF UpInv, Pool
<1>14. TimeInv'
  <2>1. RequestPending' => RequestPending
    BY Zenon, <1>1, PendingFrame DEF pendingSeen
  <2>2. stopped => stopped'
    BY Zenon, <1>1
  <2>3. ~upstreamFailed' => ~upstreamFailed /\ (stopped' \/ clientEof' = clientEof)
    BY Zenon, <1>3
  <2>4. UNCHANGED timeSeen
    BY Zenon, <1>1 DEF timeSeen
  <2> QED
    BY Zenon, <1>0, <2>1, <2>2, <2>3, <2>4, TimeFrame
<1> QED
  BY Zenon, <1>8, <1>9, <1>10, <1>11, <1>12, <1>13, <1>14, Whole

\* Input is at hand.
LEMMA WaitPendingKeeps ==
  ASSUME Inv, WaitPending
  PROVE  Inv'
<1>0. Placed /\ Flagged /\ Counted /\ PreludeInv /\ DownInv /\ UpInv /\ TimeInv
  BY Zenon, Parts
<1>1. /\ UNCHANGED <<mode, clientEof, upstreamEof, upstreamFailed, clientSendClosed, protocolReady, waitingInitial,
                     waitingFence, deadline, clientFin, clientReset, sendClosed, finishSent, stopped, serverFin, serverCut>>
      /\ UNCHANGED countsSeen /\ UNCHANGED unitsSeen /\ UNCHANGED upSeen /\ UNCHANGED preludeSeen
  BY Zenon DEF WaitPending, countsSeen, unitsSeen, upSeen, preludeSeen
<1>2. pc' = "client" /\ clientReady' \in BOOLEAN /\ (clientReady' => ClientReadable)
  BY Zenon DEF WaitPending
<1>3. Placed'
  BY <1>0, <1>1, <1>2, PlacedMove DEF Places
<1>4. Flagged'
  BY <1>0, <1>1, <1>2 DEF Flagged
<1>5. Counted' /\ PreludeInv' /\ DownInv'
  BY Zenon, <1>0, <1>1, CountedFrame, PreludeFrame, DownFrame
<1>6. UpInv'
  <2>1. ClientReadable' <=> ClientReadable
    BY <1>1 DEF ClientReadable, upSeen
  <2>2. pc' # "write"
    BY <1>2
  <2> QED
    BY <1>0, <1>1, <1>2, <2>1, <2>2 DEF UpInv, upSeen, Pool
<1>7. TimeInv'
  BY Zenon, <1>0, <1>1, PendingFrame, TimeFrame DEF pendingSeen, timeSeen, countsSeen
<1> QED
  BY Zenon, <1>3, <1>4, <1>5, <1>6, <1>7, Whole

\* The loop wakes up; a client that has hung up has ended.
LEMMA WaitKeeps ==
  ASSUME Inv, Wait
  PROVE  Inv'
<1>0. Placed /\ Flagged /\ Counted /\ PreludeInv /\ DownInv /\ UpInv /\ TimeInv
  BY Zenon, Parts
<1>1. /\ UNCHANGED <<mode, upstreamEof, upstreamFailed, clientSendClosed, protocolReady, waitingInitial,
                     waitingFence, deadline, clientFin, clientReset, finishSent, stopped, serverFin, serverCut, wire, unread>>
      /\ UNCHANGED countsSeen /\ UNCHANGED unitsSeen /\ UNCHANGED preludeSeen
  BY Zenon DEF Wait, countsSeen, unitsSeen, preludeSeen
<1>2. /\ pc' \in {"top", "end", "client"}
      /\ \/ UNCHANGED clientReady /\ pc' # "client"
         \/ clientReady' \in BOOLEAN /\ (clientReady' => ClientReadable \/ ClientHangup)
  BY Zenon DEF Wait, Break
<1>3. \/ UNCHANGED <<clientEof, sendClosed>>
      \/ /\ clientEof' = TRUE /\ sendClosed' = TRUE
         /\ ClientHangup /\ unread = 0 /\ ~clientReset
  BY Zenon, <1>0 DEF Wait, Flagged
<1>4. Placed'
  BY <1>0, <1>1, <1>2, PlacedMove DEF Places
<1>5. Flagged'
  <2>1. clientEof' \in BOOLEAN /\ sendClosed' \in BOOLEAN /\ clientReady' \in BOOLEAN
    BY Zenon, <1>0, <1>2, <1>3 DEF Flagged
  <2> QED
    BY <1>0, <1>1, <2>1 DEF Flagged
<1>6. Counted' /\ PreludeInv' /\ DownInv'
  BY Zenon, <1>0, <1>1, CountedFrame, PreludeFrame, DownFrame
<1>7. UpInv'
  <2>1. ClientReadable' <=> ClientReadable
    BY Zenon, <1>1 DEF ClientReadable
  <2>2. pc' # "write"
    BY <1>2
  <2>3. ClientHangup => ClientReadable
    BY Zenon DEF ClientHangup, ClientReadable
  <2>4. pc' = "client" /\ clientReady' => ClientReadable'
    BY Zenon, <1>2, <2>1, <2>3
  <2>5. sendClosed' => clientEof'
    BY Zenon, <1>0, <1>3 DEF UpInv
  <2>6. sendClosed' /\ ~(mode.carrier = "ws" /\ serverFin) /\ ~stopped => clientFin /\ unread = 0
    BY Zenon, <1>0, <1>3 DEF UpInv, ClientHangup
  <2>7. finishSent => sendClosed'
    BY Zenon, <1>0, <1>3 DEF UpInv
  <2> QED
    BY Zenon, <1>0, <1>1, <2>2, <2>4, <2>5, <2>6, <2>7 DEF UpInv, Pool
<1>8. TimeInv'
  <2>1. RequestPending' <=> RequestPending
    BY Zenon, <1>1, PendingFrame DEF pendingSeen, countsSeen
  <2>2. CASE UNCHANGED <<clientEof, sendClosed>>
    BY Zenon, <1>0, <1>1, <2>1, <2>2, TimeFrame DEF timeSeen, countsSeen
  <2>3. CASE clientEof' = TRUE /\ ClientHangup /\ ~clientReset
    <3>1. clientFin /\ clientSendClosed
      BY Zenon, <2>3 DEF ClientHangup
    <3>2. upstreamEof /\ (~upstreamFailed => Trojan \/ protocolReady)
      BY Zenon, <1>0, <3>1 DEF DownInv
    <3>3. deadline = "paused" => upstreamFailed
      BY <1>0, <3>2 DEF TimeInv
    <3> QED
      BY Zenon, <1>0, <1>1, <2>1, <3>3 DEF TimeInv, countsSeen, Trojan
  <2> QED
    BY Zenon, <1>3, <2>2, <2>3
<1> QED
  BY Zenon, <1>4, <1>5, <1>6, <1>7, <1>8, Whole

\* Read from the client: its first word, a unit, or its end.
LEMMA ClientKeeps ==
  ASSUME Inv, Client
  PROVE  Inv'
<1>0. Placed /\ Flagged /\ Counted /\ PreludeInv /\ DownInv /\ UpInv /\ TimeInv
  BY Zenon, Parts
<1>1. /\ UNCHANGED <<mode, upstreamEof, upstreamFailed, clientSendClosed, protocolReady, clientReady, clientFin,
                     clientReset, finishSent, stopped, serverFin, serverCut, sent, clientRoom, delivered, wire, fence,
                     netRoom, served, arrived, cached, upgradeLeft, headerLeft, output>>
      /\ UNCHANGED unitsSeen /\ UNCHANGED preludeSeen
  BY Zenon DEF Client, unitsSeen, preludeSeen
<1>2. pc = "client" /\ pc' \in {"upstream", "end", "top", "write"}
  BY Zenon DEF Client, Break
<1>3. \/ UNCHANGED <<waitingInitial, waitingFence, deadline, clientEof, sendClosed, unread>> /\ pc' # "write"
      \/ /\ clientReady /\ ~clientEof /\ deadline' = (IF waitingInitial THEN Resumed ELSE deadline)
         /\ waitingInitial' = FALSE /\ waitingFence' \in BOOLEAN
         /\ \/ UNCHANGED <<clientEof, unread, sendClosed>> /\ pc' # "write"
            \/ unread = 0 /\ ~clientReset /\ clientEof' = TRUE /\ sendClosed' = TRUE /\ pc' = "top" /\ unread' = unread
            \/ unread # 0 /\ unread' = unread - 1 /\ UNCHANGED <<clientEof, sendClosed>>
  BY Zenon DEF Client, Break
<1>4. deadline' = deadline \/ (deadline = "paused" /\ deadline' = "active")
  BY Zenon, <1>3 DEF Resumed
<1>5. Placed'
  BY <1>0, <1>1, <1>2, <1>4 DEF Placed, Places
<1>6. Flagged'
  <2>1. clientEof' \in BOOLEAN /\ sendClosed' \in BOOLEAN /\ waitingInitial' \in BOOLEAN /\ waitingFence' \in BOOLEAN
    BY Zenon, <1>0, <1>3 DEF Flagged
  <2> QED
    BY <1>0, <1>1, <2>1 DEF Flagged
<1>7. Counted'
  <2>1. unread \in Nat
    BY Zenon, <1>0 DEF Counted
  <2>2. unread' \in Nat
    BY <1>3, <2>1
  <2> QED
    BY Zenon, <1>0, <1>1, <2>2 DEF Counted
<1>8. PreludeInv' /\ DownInv'
  BY Zenon, <1>0, <1>1, PreludeFrame, DownFrame
<1>9. UpInv'
  <2>1. pc' # "client" /\ (pc' = "write" => ~clientEof')
    BY <1>2, <1>3
  <2>2. clientReady => ClientReadable
    BY Zenon, <1>0, <1>2 DEF UpInv
  <2>3. sendClosed' => clientEof'
    BY Zenon, <1>0, <1>3 DEF UpInv
  <2>4. sendClosed' /\ ~(mode.carrier = "ws" /\ serverFin) /\ ~stopped => clientFin /\ unread' = 0
    <3>1. CASE sendClosed
      <4>1. clientEof
        BY Zenon, <1>0, <3>1 DEF UpInv
      <4>2. unread' = unread
        BY Zenon, <1>3, <4>1
      <4> QED
        BY Zenon, <1>0, <3>1, <4>2 DEF UpInv
    <3>2. CASE ~sendClosed /\ sendClosed'
      <4>1. clientReady /\ unread = 0 /\ ~clientReset /\ unread' = unread
        BY Zenon, <1>3, <3>2
      <4>2. clientFin
        BY <2>2, <4>1 DEF ClientReadable
      <4> QED
        BY Zenon, <4>1, <4>2
    <3> QED
      BY Zenon, <3>1, <3>2
  <2>5. finishSent => sendClosed'
    BY Zenon, <1>0, <1>3 DEF UpInv
  <2> QED
    BY Zenon, <1>0, <1>1, <2>1, <2>3, <2>4, <2>5 DEF UpInv, Pool
<1>10. TimeInv'
  <2>1. RequestPending' <=> RequestPending
    BY Zenon, <1>1, PendingFrame DEF pendingSeen
  <2>2. CASE UNCHANGED <<waitingInitial, waitingFence, deadline, clientEof, sendClosed, unread>>
    BY Zenon, <1>0, <1>1, <2>1, <2>2, TimeFrame DEF timeSeen
  <2>3. CASE waitingInitial' = FALSE /\ deadline' = (IF waitingInitial THEN Resumed ELSE deadline)
    <3>1. deadline' # "paused"
      BY <1>0, <2>3 DEF TimeInv, Resumed
    <3>2. deadline' = "ended" <=> deadline = "ended"
      BY <1>4
    <3> QED
      BY Zenon, <1>0, <1>1, <2>3, <3>1, <3>2 DEF TimeInv
  <2> QED
    BY Zenon, <1>3, <2>2, <2>3
<1> QED
  BY Zenon, <1>5, <1>6, <1>7, <1>8, <1>9, <1>10, Whole

\* What was read goes into the queue, which has not ended.
LEMMA WriteKeeps ==
  ASSUME Inv, Write
  PROVE  Inv'
<1>0. Placed /\ Flagged /\ Counted /\ PreludeInv /\ DownInv /\ UpInv /\ TimeInv
  BY Zenon, Parts
<1>1. /\ UNCHANGED <<mode, upstreamEof, upstreamFailed, clientSendClosed, protocolReady, clientReady, waitingInitial,
                     waitingFence, deadline, clientFin, clientReset, sendClosed, finishSent, stopped, serverFin, serverCut,
                     unread, sent, clientRoom, delivered, fence, netRoom, served, arrived, cached, upgradeLeft,
                     headerLeft, output>>
      /\ UNCHANGED unitsSeen /\ UNCHANGED preludeSeen
  BY Zenon DEF Write, unitsSeen, preludeSeen
<1>2. pc = "write" /\ pc' \in {"upstream", "end"}
  BY Zenon DEF Write, Break
<1>3. \/ UNCHANGED <<clientEof, wire>>
      \/ clientEof' = TRUE /\ stopped /\ UNCHANGED wire
      \/ wire' = wire + 1 /\ clientEof' = clientEof /\ ~(Pool /\ stopped) /\ ~(Pool /\ serverCut)
  BY Zenon DEF Write
<1>4. wire' \in Nat
  BY <1>0, <1>3 DEF Counted
<1>5. ~clientEof /\ ~sendClosed /\ ~finishSent
  BY Zenon, <1>0, <1>2 DEF UpInv
<1>6. Placed'
  BY <1>0, <1>1, <1>2, PlacedMove DEF Places
<1>7. Flagged'
  <2>1. clientEof' \in BOOLEAN
    BY Zenon, <1>0, <1>3 DEF Flagged
  <2> QED
    BY <1>0, <1>1, <2>1 DEF Flagged
<1>8. Counted'
  BY Zenon, <1>0, <1>1, <1>4 DEF Counted
<1>9. PreludeInv' /\ DownInv'
  BY Zenon, <1>0, <1>1, PreludeFrame, DownFrame
<1>10. UpInv'
  <2>1. pc' # "write" /\ pc' # "client"
    BY <1>2
  <2> QED
    BY Zenon, <1>0, <1>1, <1>5, <2>1 DEF UpInv, Pool
<1>11. TimeInv'
  <2>1. mode.carrier = "upgrade" => (RequestPending' <=> RequestPending)
    BY Zenon, <1>1 DEF RequestPending, Pool
  <2> QED
    BY <1>0, <1>1, <1>3, <2>1 DEF TimeInv, Trojan
<1> QED
  BY Zenon, <1>6, <1>7, <1>8, <1>9, <1>10, <1>11, Whole

\* Nothing to read.
LEMMA UpstreamIdleKeeps ==
  ASSUME Inv, UpstreamIdle
  PROVE  Inv'
<1>0. Placed /\ Flagged /\ Counted /\ PreludeInv /\ DownInv /\ UpInv /\ TimeInv
  BY Zenon, Parts
<1>1. /\ UNCHANGED <<mode, deadline, upstreamEof, upstreamFailed, clientEof, stopped>>
      /\ UNCHANGED flagsSeen /\ UNCHANGED countsSeen /\ UNCHANGED unitsSeen /\ UNCHANGED preludeSeen /\ UNCHANGED upSeen
      /\ UNCHANGED timeSeen /\ UNCHANGED pendingSeen
  BY Zenon DEF UpstreamIdle, flagsSeen, countsSeen, unitsSeen, preludeSeen, upSeen, timeSeen, pendingSeen
<1>2. pc' \in Places /\ pc' \notin {"write", "client"}
  BY DEF UpstreamIdle, Places
<1>3. Placed' /\ Flagged' /\ Counted' /\ PreludeInv' /\ DownInv'
  BY Zenon, <1>0, <1>1, <1>2, PlacedMove, FlaggedFrame, CountedFrame, PreludeFrame, DownFrame
<1>4. UpInv' /\ TimeInv'
  BY Zenon, <1>0, <1>1, <1>2, UpFrame, PendingFrame, TimeFrame
<1> QED
  BY Zenon, <1>3, <1>4, Whole

\* The upstream has ended or failed; everything has been read.
LEMMA UpstreamEndsKeeps ==
  ASSUME Inv, UpstreamEnds
  PROVE  Inv'
<1>0. Placed /\ Flagged /\ Counted /\ PreludeInv /\ DownInv /\ UpInv /\ TimeInv
  BY Zenon, Parts
<1>1. /\ UNCHANGED <<mode, clientSendClosed, protocolReady, clientReady, waitingInitial, waitingFence, deadline, clientFin,
                     clientReset, finishSent, stopped, serverFin, serverCut, wire, unread>>
      /\ UNCHANGED countsSeen /\ UNCHANGED unitsSeen /\ UNCHANGED preludeSeen
      /\ UNCHANGED timeSeen /\ UNCHANGED pendingSeen
  BY Zenon DEF UpstreamEnds, countsSeen, unitsSeen, preludeSeen, timeSeen, pendingSeen
<1>2. pc' \in {"top", "end"} /\ ~upstreamEof /\ arrived + cached = 0
  BY Zenon DEF UpstreamEnds, Reads, Break
<1>3. \/ clientEof' = TRUE /\ upstreamEof' = TRUE /\ upstreamFailed' = TRUE /\ sendClosed' = sendClosed
      \/ UNCHANGED <<clientEof, upstreamEof, upstreamFailed, sendClosed>>
      \/ /\ serverFin => Trojan \/ protocolReady
         /\ upstreamEof' = serverFin /\ upstreamFailed' = upstreamFailed
         /\ \/ UNCHANGED <<clientEof, sendClosed>>
            \/ serverFin /\ mode.carrier = "ws" /\ clientEof' = TRUE /\ sendClosed' = TRUE
  BY Zenon, <1>0 DEF UpstreamEnds, FailUpstream, Flagged
<1>4. arrived = 0 /\ cached = 0
  BY <1>0, <1>2 DEF Counted
<1>5. Placed'
  BY <1>0, <1>1, <1>2, PlacedMove DEF Places
<1>6. Flagged'
  <2>1. clientEof' \in BOOLEAN /\ upstreamEof' \in BOOLEAN /\ upstreamFailed' \in BOOLEAN /\ sendClosed' \in BOOLEAN
    BY Zenon, <1>0, <1>3 DEF Flagged
  <2> QED
    BY <1>0, <1>1, <2>1 DEF Flagged
<1>7. Counted' /\ PreludeInv'
  BY Zenon, <1>0, <1>1, CountedFrame, PreludeFrame
<1>8. DownInv'
  <2>1. ~clientSendClosed
    BY Zenon, <1>0, <1>2 DEF DownInv
  <2>2. DownloadConserved'
    BY Zenon, <1>0, <1>1, ConservedFrame DEF DownInv
  <2>3. upstreamFailed' => upstreamEof'
    BY Zenon, <1>0, <1>2, <1>3 DEF DownInv
  <2>4. upstreamEof' /\ ~upstreamFailed' => serverFin /\ (Trojan \/ protocolReady)
    BY Zenon, <1>2, <1>3
  <2> QED
    BY <1>1, <1>4, <2>1, <2>2, <2>3, <2>4 DEF DownInv, unitsSeen, Trojan
<1>9. UpInv'
  <2>1. pc' # "write" /\ pc' # "client"
    BY <1>2
  <2>2. sendClosed' => clientEof'
    BY Zenon, <1>0, <1>3 DEF UpInv
  <2>3. sendClosed' = sendClosed \/ (sendClosed' = TRUE /\ serverFin /\ mode.carrier = "ws")
    BY Zenon, <1>3
  <2> QED
    BY <1>0, <1>1, <2>1, <2>2, <2>3 DEF UpInv, Pool
<1>10. TimeInv'
  <2>1. RequestPending' <=> RequestPending
    BY Zenon, <1>1, PendingFrame
  <2>2. CASE clientEof' = clientEof /\ upstreamFailed' = upstreamFailed
    BY Zenon, <1>0, <1>1, <2>1, <2>2, TimeFrame
  <2>3. CASE upstreamFailed' = TRUE
    BY Zenon, <1>0, <1>1, <2>1, <2>3, TimeFrame
  <2>4. CASE Trojan \/ protocolReady
    <3>1. deadline # "paused"
      BY <1>0, <2>4 DEF TimeInv
    <3> QED
      BY <1>0, <1>1, <3>1 DEF TimeInv, timeSeen, Trojan
  <2> QED
    BY Zenon, <1>3, <2>2, <2>3, <2>4
<1> QED
  BY Zenon, <1>5, <1>6, <1>7, <1>8, <1>9, <1>10, Whole

\* A read that finds data: the 101 answer, a fragment of the header or payload.
LEMMA UpstreamDataKeeps ==
  ASSUME Inv, UpstreamData
  PROVE  Inv'
<1> DEFINE fill   == cached = 0 /\ (mode.carrier = "ws" \/ upgradeLeft > 0)
           source == IF cached > 0 THEN cached ELSE arrived
           used   == Minimum(source, upgradeLeft + 1)
           got    == used > upgradeLeft
           header == got /\ ~Trojan /\ ~protocolReady
           parsed == header /\ headerLeft = 1
<1>0. Placed /\ Flagged /\ Counted /\ PreludeInv /\ DownInv /\ UpInv /\ TimeInv
  BY Zenon, Parts
<1>1. /\ UNCHANGED <<mode, clientEof, upstreamEof, upstreamFailed, clientSendClosed, clientReady, waitingFence, clientFin,
                     clientReset, sendClosed, finishSent, stopped, serverFin, serverCut, unread, sent, clientRoom,
                     delivered, wire, fence, netRoom, served>>
      /\ UNCHANGED upSeen /\ pc' = "top" /\ ~upstreamEof /\ upgradeLeft' = 0
  BY Zenon DEF UpstreamData, Reads, upSeen
<1>2. /\ cached' = (IF fill \/ cached > 0 THEN source - used ELSE 0)
      /\ arrived' = (IF cached > 0 THEN arrived ELSE IF fill THEN 0 ELSE arrived - used)
      /\ arrived + cached > 0
  BY Zenon DEF UpstreamData, LeftCached
<1>3. headerLeft' = (IF header THEN headerLeft - 1 ELSE headerLeft)
  BY Zenon DEF UpstreamData
<1>4. output' = (IF got /\ ~header THEN output + 1 ELSE output)
  BY Zenon DEF UpstreamData
<1>5. /\ protocolReady' \in BOOLEAN /\ (protocolReady' <=> protocolReady \/ parsed)
      /\ deadline' = (IF parsed THEN "ended" ELSE IF header /\ waitingInitial THEN Resumed ELSE deadline)
      /\ waitingInitial' \in BOOLEAN /\ (waitingInitial' <=> waitingInitial /\ ~header)
  BY Zenon DEF UpstreamData
<1>6. /\ arrived \in Nat /\ cached \in Nat /\ output \in Nat /\ delivered \in Nat /\ upgradeLeft \in {0, 1}
      /\ headerLeft \in 0..HeaderUnits
  BY Zenon, <1>0 DEF Counted
<1>7. /\ used \in Nat /\ used <= source /\ (got => used = upgradeLeft + 1) /\ (~got => used = upgradeLeft)
  BY <1>2, <1>6 DEF Minimum
<1>8. /\ arrived' \in Nat /\ cached' \in Nat
      /\ \/ arrived' = arrived /\ cached' = cached - used
         \/ arrived' = 0 /\ cached = 0 /\ cached' = arrived - used
         \/ cached' = 0 /\ cached = 0 /\ arrived' = arrived - used
  BY <1>2, <1>6, <1>7
<1>9. Pool => arrived' = 0
  BY <1>0, <1>2, <1>6 DEF PreludeInv, Pool
<1>11. /\ header => got /\ ~Trojan /\ ~protocolReady
       /\ parsed <=> header /\ headerLeft = 1
  BY Zenon
<1> HIDE DEF fill, source, used, got, header, parsed
<1>12. headerLeft' \in 0..HeaderUnits /\ output' \in Nat
  <2>1. header => headerLeft # 0
    BY <1>0, <1>11 DEF PreludeInv
  <2> QED
    BY <1>3, <1>4, <1>6, <2>1, HeaderCounted
<1>13. Placed'
  <2>1. deadline' \in {"active", "paused", "ended"}
    BY <1>0, <1>5 DEF Placed, Resumed
  <2>2. pc' \in Places
    BY <1>1 DEF Places
  <2> QED
    BY Zenon, <1>0, <1>1, <2>1, <2>2 DEF Placed
<1>14. Flagged'
  BY <1>0, <1>1, <1>5 DEF Flagged
<1>15. Counted'
  <2>1. upgradeLeft' \in {0, 1}
    BY <1>1
  <2> QED
    BY Zenon, <1>0, <1>1, <1>8, <1>12, <2>1 DEF Counted
<1>16. PreludeInv'
  <2>1. Trojan => headerLeft' = 0
    BY Zenon, <1>0, <1>3, <1>11 DEF PreludeInv
  <2>2. ~Trojan => (protocolReady' <=> headerLeft' = 0)
    <3>1. CASE header
      BY <1>3, <1>5, <1>6, <1>11, <3>1
    <3>2. CASE ~header
      BY Zenon, <1>0, <1>3, <1>5, <1>11, <3>2 DEF PreludeInv
    <3> QED
      BY Zenon, <3>1, <3>2
  <2> QED
    BY Zenon, <1>1, <1>9, <2>1, <2>2 DEF PreludeInv, Trojan, Pool
<1>17. DownInv'
  <2>1. PICK h \in {0, 1}, g \in {0, 1} :
           /\ h = (IF header THEN 1 ELSE 0) /\ g = (IF got THEN 1 ELSE 0)
    BY Zenon
  <2>2. /\ used = upgradeLeft + g
        /\ output' = output + (g - h) /\ headerLeft' = headerLeft - h /\ (Trojan => h = 0)
    <3>1. CASE header
      BY <1>3, <1>4, <1>6, <1>7, <1>11, <2>1, <3>1
    <3>2. CASE got /\ ~header
      BY <1>3, <1>4, <1>6, <1>7, <2>1, <3>2
    <3>3. CASE ~got /\ ~header
      BY <1>3, <1>4, <1>6, <1>7, <2>1, <3>3
    <3> QED
      BY Zenon, <1>11, <3>1, <3>2, <3>3
  <2>3. Prelude \in Int /\ Prelude' = Prelude + upgradeLeft + h
    <3>1. mode.carrier # "upgrade" => upgradeLeft = 0
      BY Zenon, <1>0 DEF PreludeInv
    <3>2. Prelude' = (IF Trojan THEN 0 ELSE HeaderUnits - headerLeft') + (IF mode.carrier = "upgrade" THEN 1 ELSE 0)
      BY <1>1 DEF Prelude, Trojan
    <3> QED
      BY <1>6, <2>1, <2>2, <3>1, <3>2, HeaderCounted DEF Prelude
  <2>4. served = Prelude + arrived + cached + output + delivered
    BY Zenon, <1>0 DEF DownInv, DownloadConserved
  <2>5. PICK p \in Int, a \in Nat, c \in Nat, o \in Nat, d \in Nat, u \in Nat, a2 \in Nat, c2 \in Nat :
           /\ p = Prelude /\ a = arrived /\ c = cached /\ o = output /\ d = delivered /\ u = upgradeLeft
           /\ a2 = arrived' /\ c2 = cached'
    BY <1>6, <1>8, <2>3
  <2>6. served' = (p + u + h) + arrived' + cached' + (o + (g - h)) + d
    <3>1. served' = p + a + c + o + d
      BY Zenon, <1>1, <2>4, <2>5
    <3>2. \/ a2 = a /\ c2 = c - (u + g)
          \/ a2 = 0 /\ c = 0 /\ c2 = a - (u + g)
          \/ c2 = 0 /\ c = 0 /\ a2 = a - (u + g)
      BY Zenon, <1>8, <2>2, <2>5
    <3>3. /\ p \in Int /\ a \in Nat /\ c \in Nat /\ o \in Nat /\ d \in Nat /\ u \in Nat
          /\ a2 \in Nat /\ c2 \in Nat
      BY Zenon, <2>5
    <3>4. h \in {0, 1} /\ g \in {0, 1}
      BY Zenon, <2>1
    <3>5. p + a + c + o + d = (p + u + h) + a2 + c2 + (o + (g - h)) + d
      BY <3>2, <3>3, <3>4
    <3> QED
      BY Zenon, <2>5, <3>1, <3>5
  <2>7. DownloadConserved'
    BY Zenon, <1>1, <2>2, <2>3, <2>5, <2>6 DEF DownloadConserved
  <2>8. ~upstreamEof' /\ ~upstreamFailed' /\ ~clientSendClosed'
    BY Zenon, <1>0, <1>1 DEF DownInv
  <2> QED
    BY Zenon, <2>7, <2>8 DEF DownInv
<1>18. UpInv'
  <2>1. pc' \notin {"write", "client"}
    BY <1>1
  <2> QED
    BY Zenon, <1>0, <1>1, <2>1, UpFrame
<1>19. TimeInv'
  <2>1. deadline' = "ended" <=> protocolReady'
    BY <1>0, <1>5 DEF TimeInv, Resumed
  <2>2. waitingInitial' => waitingInitial /\ ~header /\ headerLeft' = headerLeft
    BY Zenon, <1>3, <1>5
  <2>3. deadline' = "paused" => deadline = "paused" /\ waitingInitial'
    BY <1>0, <1>5 DEF TimeInv, Resumed
  <2>4. RequestPending' => RequestPending
    BY <1>1, <1>6 DEF RequestPending, Pool
  <2> QED
    BY Zenon, <1>0, <1>1, <2>1, <2>2, <2>3, <2>4 DEF TimeInv, Trojan
<1> QED
  BY Zenon, <1>13, <1>14, <1>15, <1>16, <1>17, <1>18, <1>19, Whole

-----------------------------------------------------------------------------
(* The steps of the peers, the network and the pool's thread. *)

\* The client sends a unit.
LEMMA ClientSendsKeeps ==
  ASSUME Inv, ClientSends
  PROVE  Inv'
<1>0. Placed /\ Flagged /\ Counted /\ PreludeInv /\ DownInv /\ UpInv /\ TimeInv
  BY Zenon, Parts
<1>1. UNCHANGED <<mode, pc, clientEof, upstreamEof, upstreamFailed, clientSendClosed, protocolReady, clientReady,
                  waitingInitial, waitingFence, clientFin, clientReset, sendClosed, finishSent, stopped, serverFin,
                  serverCut, output, clientRoom, delivered, wire, fence, netRoom, arrived, cached, served,
                  upgradeLeft, headerLeft, deadline>>
  BY Zenon DEF ClientSends, ClientUnchanged
<1>2. sent' = sent + 1 /\ unread' = unread + 1 /\ ~clientFin
  BY Zenon DEF ClientSends
<1>3. sent \in Nat /\ unread \in Nat
  BY Zenon, <1>0 DEF Counted
<1>4. sent' \in Nat /\ unread' \in Nat /\ unread' > 0 /\ (sent = unread => sent' = unread')
  BY <1>2, <1>3
<1>5. Placed'
  BY Zenon, <1>0, <1>1, PlacedFrame
<1>6. Flagged'
  BY Zenon, <1>0, <1>1, FlaggedFrame DEF flagsSeen
<1>7. Counted'
  BY Zenon, <1>0, <1>1, <1>4 DEF Counted
<1>8. PreludeInv'
  BY Zenon, <1>0, <1>1, PreludeFrame DEF preludeSeen
<1>9. DownInv'
  BY Zenon, <1>0, <1>1, DownFrame DEF unitsSeen
<1>10. UpInv'
  BY Zenon, <1>0, <1>1, <1>2, <1>4 DEF UpInv, Pool, ClientReadable
<1>11. TimeInv'
  <2>1. RequestPending' <=> RequestPending
    BY Zenon, <1>1, PendingFrame DEF pendingSeen
  <2> QED
    BY <1>0, <1>1, <1>4, <2>1 DEF TimeInv, Trojan
<1> QED
  BY Zenon, <1>5, <1>6, <1>7, <1>8, <1>9, <1>10, <1>11, Whole

\* The client ends its direction.
LEMMA ClientClosesKeeps ==
  ASSUME Inv, ClientCloses
  PROVE  Inv'
<1>0. Placed /\ Flagged /\ Counted /\ PreludeInv /\ DownInv /\ UpInv /\ TimeInv
  BY Zenon, Parts
<1>1. UNCHANGED <<mode, pc, clientEof, upstreamEof, upstreamFailed, clientSendClosed, protocolReady, clientReady,
                  waitingInitial, waitingFence, clientReset, sendClosed, finishSent, stopped, serverFin, serverCut,
                  output, unread, sent, clientRoom, delivered, wire, fence, netRoom, arrived, cached, served,
                  upgradeLeft, headerLeft, deadline>>
  BY Zenon DEF ClientCloses, ClientUnchanged
<1>2. clientFin' = TRUE /\ ~clientFin
  BY Zenon DEF ClientCloses
<1>3. Placed'
  BY Zenon, <1>0, <1>1, PlacedFrame
<1>4. Flagged'
  BY <1>0, <1>1, <1>2 DEF Flagged
<1>5. Counted'
  BY Zenon, <1>0, <1>1, CountedFrame DEF countsSeen
<1>6. PreludeInv'
  BY Zenon, <1>0, <1>1, PreludeFrame DEF preludeSeen
<1>7. DownInv'
  BY Zenon, <1>0, <1>1, DownFrame DEF unitsSeen
<1>8. UpInv'
  BY Zenon, <1>0, <1>1, <1>2 DEF UpInv, Pool, ClientReadable
<1>9. TimeInv'
  BY Zenon, <1>0, <1>1, PendingFrame, TimeFrame DEF pendingSeen, timeSeen
<1> QED
  BY Zenon, <1>3, <1>4, <1>5, <1>6, <1>7, <1>8, <1>9, Whole

\* The client resets its connection.
LEMMA ClientResetsKeeps ==
  ASSUME Inv, ClientResets
  PROVE  Inv'
<1>0. Placed /\ Flagged /\ Counted /\ PreludeInv /\ DownInv /\ UpInv /\ TimeInv
  BY Zenon, Parts
<1>1. UNCHANGED <<mode, pc, clientEof, upstreamEof, upstreamFailed, clientSendClosed, protocolReady, clientReady,
                  waitingInitial, waitingFence, clientFin, sendClosed, finishSent, stopped, serverFin, serverCut,
                  output, unread, sent, clientRoom, delivered, wire, fence, netRoom, arrived, cached, served,
                  upgradeLeft, headerLeft, deadline>>
  BY Zenon DEF ClientResets, ClientUnchanged
<1>2. clientReset' = TRUE
  BY Zenon DEF ClientResets
<1>3. Placed'
  BY Zenon, <1>0, <1>1, PlacedFrame
<1>4. Flagged'
  BY <1>0, <1>1, <1>2 DEF Flagged
<1>5. Counted'
  BY Zenon, <1>0, <1>1, CountedFrame DEF countsSeen
<1>6. PreludeInv'
  BY Zenon, <1>0, <1>1, PreludeFrame DEF preludeSeen
<1>7. DownInv'
  BY Zenon, <1>0, <1>1, DownFrame DEF unitsSeen
<1>8. UpInv'
  BY Zenon, <1>0, <1>1, <1>2 DEF UpInv, Pool, ClientReadable
<1>9. TimeInv'
  BY Zenon, <1>0, <1>1, PendingFrame, TimeFrame DEF pendingSeen, timeSeen
<1> QED
  BY Zenon, <1>3, <1>4, <1>5, <1>6, <1>7, <1>8, <1>9, Whole

\* The client reads and leaves room.
LEMMA ClientReceivesKeeps ==
  ASSUME Inv, ClientReceives
  PROVE  Inv'
<1>0. Placed /\ Flagged /\ Counted /\ PreludeInv /\ DownInv /\ UpInv /\ TimeInv
  BY Zenon, Parts
<1>1. UNCHANGED <<mode, pc, clientEof, upstreamEof, upstreamFailed, clientSendClosed, protocolReady, clientReady,
                  waitingInitial, waitingFence, clientFin, clientReset, sendClosed, finishSent, stopped, serverFin,
                  serverCut, output, unread, sent, delivered, wire, fence, netRoom, arrived, cached, served,
                  upgradeLeft, headerLeft, deadline>>
  BY Zenon DEF ClientReceives, ClientUnchanged
<1>2. clientRoom' \in Nat
  BY DEF ClientReceives
<1>3. Placed'
  BY Zenon, <1>0, <1>1, PlacedFrame
<1>4. Flagged'
  BY Zenon, <1>0, <1>1, FlaggedFrame DEF flagsSeen
<1>5. Counted'
  BY Zenon, <1>0, <1>1, <1>2 DEF Counted
<1>6. PreludeInv'
  BY Zenon, <1>0, <1>1, PreludeFrame DEF preludeSeen
<1>7. DownInv'
  BY Zenon, <1>0, <1>1, DownFrame DEF unitsSeen
<1>8. UpInv'
  BY Zenon, <1>0, <1>1, UpAside DEF upSeen
<1>9. TimeInv'
  BY Zenon, <1>0, <1>1, PendingFrame, TimeFrame DEF pendingSeen, timeSeen
<1> QED
  BY Zenon, <1>3, <1>4, <1>5, <1>6, <1>7, <1>8, <1>9, Whole

\* The kernel sends what the carrier wrote.
LEMMA NetworkDrainsKeeps ==
  ASSUME Inv, NetworkDrains
  PROVE  Inv'
<1>0. Placed /\ Flagged /\ Counted /\ PreludeInv /\ DownInv /\ UpInv /\ TimeInv
  BY Zenon, Parts
<1>1. UNCHANGED <<mode, pc, clientEof, upstreamEof, upstreamFailed, clientSendClosed, protocolReady, clientReady,
                  waitingInitial, waitingFence, clientFin, clientReset, sendClosed, finishSent, stopped, serverFin,
                  serverCut, output, unread, sent, clientRoom, delivered, wire, fence, arrived, cached, served,
                  upgradeLeft, headerLeft, deadline>>
  BY Zenon DEF NetworkDrains, CarrierUnchanged
<1>2. netRoom' \in Nat
  BY DEF NetworkDrains
<1>3. Placed'
  BY Zenon, <1>0, <1>1, PlacedFrame
<1>4. Flagged'
  BY Zenon, <1>0, <1>1, FlaggedFrame DEF flagsSeen
<1>5. Counted'
  BY Zenon, <1>0, <1>1, <1>2 DEF Counted
<1>6. PreludeInv'
  BY Zenon, <1>0, <1>1, PreludeFrame DEF preludeSeen
<1>7. DownInv'
  BY Zenon, <1>0, <1>1, DownFrame DEF unitsSeen
<1>8. UpInv'
  BY Zenon, <1>0, <1>1, UpAside DEF upSeen
<1>9. TimeInv'
  BY Zenon, <1>0, <1>1, PendingFrame, TimeFrame DEF pendingSeen, timeSeen
<1> QED
  BY Zenon, <1>3, <1>4, <1>5, <1>6, <1>7, <1>8, <1>9, Whole

\* The pool's thread sends from the stream's queue, or the end behind it.
LEMMA ActorSendsKeeps ==
  ASSUME Inv, ActorSends
  PROVE  Inv'
<1>0. Placed /\ Flagged /\ Counted /\ PreludeInv /\ DownInv /\ UpInv /\ TimeInv
  BY Zenon, Parts
<1>1. UNCHANGED <<mode, pc, clientEof, upstreamEof, upstreamFailed, clientSendClosed, protocolReady, clientReady,
                  waitingInitial, waitingFence, clientFin, clientReset, sendClosed, stopped, serverFin, serverCut,
                  output, unread, sent, clientRoom, delivered, fence, netRoom, arrived, cached, served, upgradeLeft,
                  headerLeft, deadline>>
  BY Zenon DEF ActorSends, CarrierUnchanged
<1>2. Pool /\ ~stopped /\ ~finishSent /\ (wire > 0 \/ sendClosed) /\ wire' = (IF wire > 0 THEN wire - 1 ELSE 0) /\ finishSent' = (wire = 0)
  BY Zenon DEF ActorSends
<1>3. wire \in Nat
  BY Zenon, <1>0 DEF Counted
<1>4. wire' \in Nat /\ (wire' > 0 => wire > 0) /\ (wire = 0 => wire' = 0)
  BY <1>2, <1>3
<1>5. finishSent' \in BOOLEAN /\ (finishSent' => wire = 0)
  BY Zenon, <1>2
<1>6. wire = 0 => sendClosed
  BY <1>2, <1>3
<1>7. Placed'
  BY Zenon, <1>0, <1>1, PlacedFrame
<1>8. Flagged'
  BY <1>0, <1>1, <1>5 DEF Flagged
<1>9. Counted'
  BY Zenon, <1>0, <1>1, <1>4 DEF Counted
<1>10. PreludeInv'
  BY Zenon, <1>0, <1>1, PreludeFrame DEF preludeSeen
<1>11. DownInv'
  BY Zenon, <1>0, <1>1, DownFrame DEF unitsSeen
<1>12. UpInv'
  BY Zenon, <1>0, <1>1, <1>2, <1>4, <1>5, <1>6 DEF UpInv, Pool, ClientReadable
<1>13. TimeInv'
  <2>1. RequestPending' => RequestPending
    BY Zenon, <1>1, <1>4 DEF RequestPending, Pool
  <2> QED
    BY Zenon, <1>0, <1>1, <2>1, TimeFrame DEF timeSeen
<1> QED
  BY Zenon, <1>7, <1>8, <1>9, <1>10, <1>11, <1>12, <1>13, Whole

\* The server sends a unit.
LEMMA ServerSendsKeeps ==
  ASSUME Inv, ServerSends
  PROVE  Inv'
<1>0. Placed /\ Flagged /\ Counted /\ PreludeInv /\ DownInv /\ UpInv /\ TimeInv
  BY Zenon, Parts
<1>1. UNCHANGED <<mode, pc, clientEof, upstreamEof, upstreamFailed, clientSendClosed, protocolReady, clientReady,
                  waitingInitial, waitingFence, clientFin, clientReset, sendClosed, finishSent, stopped, serverFin,
                  serverCut, output, unread, sent, clientRoom, delivered, wire, fence, netRoom, upgradeLeft,
                  headerLeft, deadline>>
  BY Zenon DEF ServerSends, ServerUnchanged
<1>2. ~serverFin /\ served' = served + 1
  BY Zenon DEF ServerSends
<1>3. arrived' = (IF Pool THEN 0 ELSE arrived + 1) /\ cached' = (IF Pool THEN cached + 1 ELSE cached)
  BY Zenon DEF ServerSends
<1>4. arrived \in Nat /\ cached \in Nat /\ served \in Nat
  BY Zenon, <1>0 DEF Counted
<1>5. arrived' \in Nat /\ cached' \in Nat /\ served' \in Nat
  BY <1>2, <1>3, <1>4
<1>6. Pool => arrived = 0
  BY Zenon, <1>0 DEF PreludeInv
<1>7. Placed'
  BY Zenon, <1>0, <1>1, PlacedFrame
<1>8. Flagged'
  BY Zenon, <1>0, <1>1, FlaggedFrame DEF flagsSeen
<1>9. Counted'
  BY Zenon, <1>0, <1>1, <1>5 DEF Counted
<1>10. PreludeInv'
  BY Zenon, <1>0, <1>1, <1>3 DEF PreludeInv, Trojan, Pool
<1>11. DownInv'
  <2>1. PICK p \in Int, o \in Nat, d \in Nat : p = Prelude /\ o = output /\ d = delivered
    <3>1. Prelude \in Int
      BY <1>0, HeaderCounted DEF Prelude, Counted
    <3>2. output \in Nat /\ delivered \in Nat
      BY Zenon, <1>0 DEF Counted
    <3> QED
      BY Zenon, <3>1, <3>2
  <2>2. served = p + arrived + cached + o + d
    BY Zenon, <1>0, <2>1 DEF DownInv, DownloadConserved
  <2>3. PICK a \in Nat, c \in Nat : a = arrived /\ c = cached
    BY Zenon, <1>4
  <2>4. served' = (p + a + c + o + d) + 1
    BY Zenon, <1>2, <2>2, <2>3
  <2>5. (arrived' = a + 1 /\ cached' = c) \/ (arrived' = a /\ cached' = c + 1)
    BY Zenon, <1>3, <1>6, <2>3
  <2>6. /\ (p + a + c + o + d) + 1 = p + (a + 1) + c + o + d
        /\ (p + a + c + o + d) + 1 = p + a + (c + 1) + o + d
    BY <2>1, <2>3
  <2>7. served' = p + arrived' + cached' + o + d
    BY Zenon, <2>4, <2>5, <2>6
  <2>8. Prelude' = Prelude
    BY Zenon, <1>1 DEF Prelude, Trojan
  <2>9. DownloadConserved'
    BY Zenon, <1>1, <2>1, <2>7, <2>8 DEF DownloadConserved
  <2> QED
    BY Zenon, <1>0, <1>1, <1>2, <2>9 DEF DownInv, Trojan
<1>12. UpInv'
  BY Zenon, <1>0, <1>1, UpAside DEF upSeen
<1>13. TimeInv'
  BY Zenon, <1>0, <1>1, PendingFrame, TimeFrame DEF pendingSeen, timeSeen
<1> QED
  BY Zenon, <1>7, <1>8, <1>9, <1>10, <1>11, <1>12, <1>13, Whole

\* The server ends its direction.
LEMMA ServerEndsKeeps ==
  ASSUME Inv, ServerEnds
  PROVE  Inv'
<1>0. Placed /\ Flagged /\ Counted /\ PreludeInv /\ DownInv /\ UpInv /\ TimeInv
  BY Zenon, Parts
<1>1. UNCHANGED <<mode, pc, clientEof, upstreamEof, upstreamFailed, clientSendClosed, protocolReady, clientReady,
                  waitingInitial, waitingFence, clientFin, clientReset, sendClosed, finishSent, stopped, serverCut,
                  output, unread, sent, clientRoom, delivered, wire, fence, netRoom, arrived, cached, served,
                  upgradeLeft, headerLeft, deadline>>
  BY Zenon DEF ServerEnds, ServerUnchanged
<1>2. serverFin' = TRUE
  BY Zenon DEF ServerEnds
<1>3. Placed'
  BY Zenon, <1>0, <1>1, PlacedFrame
<1>4. Flagged'
  BY <1>0, <1>1, <1>2 DEF Flagged
<1>5. Counted'
  BY Zenon, <1>0, <1>1, CountedFrame DEF countsSeen
<1>6. PreludeInv'
  BY Zenon, <1>0, <1>1, PreludeFrame DEF preludeSeen
<1>7. DownInv'
  <2>1. DownloadConserved'
    BY Zenon, <1>0, <1>1 DEF DownInv, DownloadConserved, Prelude, Trojan
  <2> QED
    BY Zenon, <1>0, <1>1, <1>2, <2>1 DEF DownInv, Trojan
<1>8. UpInv'
  BY Zenon, <1>0, <1>1, <1>2 DEF UpInv, Pool, ClientReadable, Flagged
<1>9. TimeInv'
  BY Zenon, <1>0, <1>1, PendingFrame, TimeFrame DEF pendingSeen, timeSeen
<1> QED
  BY Zenon, <1>3, <1>4, <1>5, <1>6, <1>7, <1>8, <1>9, Whole

\* The connection to the server breaks.
LEMMA ServerFailsKeeps ==
  ASSUME Inv, ServerFails
  PROVE  Inv'
<1>0. Placed /\ Flagged /\ Counted /\ PreludeInv /\ DownInv /\ UpInv /\ TimeInv
  BY Zenon, Parts
<1>1. UNCHANGED <<mode, pc, clientEof, upstreamEof, upstreamFailed, clientSendClosed, protocolReady, clientReady,
                  waitingInitial, waitingFence, clientFin, clientReset, sendClosed, finishSent, stopped, serverFin,
                  output, unread, sent, clientRoom, delivered, wire, fence, netRoom, arrived, cached, served,
                  upgradeLeft, headerLeft, deadline>>
  BY Zenon DEF ServerFails, ServerUnchanged
<1>2. serverCut' = TRUE
  BY Zenon DEF ServerFails
<1>3. Placed'
  BY Zenon, <1>0, <1>1, PlacedFrame
<1>4. Flagged'
  BY <1>0, <1>1, <1>2 DEF Flagged
<1>5. Counted'
  BY Zenon, <1>0, <1>1, CountedFrame DEF countsSeen
<1>6. PreludeInv'
  BY Zenon, <1>0, <1>1, PreludeFrame DEF preludeSeen
<1>7. DownInv'
  BY Zenon, <1>0, <1>1, DownFrame DEF unitsSeen
<1>8. UpInv'
  BY Zenon, <1>0, <1>1, UpAside DEF upSeen
<1>9. TimeInv'
  <2>1. RequestPending' => RequestPending
    BY Zenon, <1>1, <1>2 DEF RequestPending, Pool
  <2> QED
    BY Zenon, <1>0, <1>1, <2>1, TimeFrame DEF timeSeen
<1> QED
  BY Zenon, <1>3, <1>4, <1>5, <1>6, <1>7, <1>8, <1>9, Whole

\* The server stops the upload of a pool stream, which drops the queue.
LEMMA PeerStopsKeeps ==
  ASSUME Inv, PeerStops
  PROVE  Inv'
<1>0. Placed /\ Flagged /\ Counted /\ PreludeInv /\ DownInv /\ UpInv /\ TimeInv
  BY Zenon, Parts
<1>1. UNCHANGED <<mode, pc, clientEof, upstreamEof, upstreamFailed, clientSendClosed, protocolReady, clientReady,
                  waitingInitial, waitingFence, clientFin, clientReset, sendClosed, finishSent, serverFin, serverCut,
                  output, unread, sent, clientRoom, delivered, fence, netRoom, arrived, cached, served, upgradeLeft,
                  headerLeft, deadline>>
  BY Zenon DEF PeerStops, ServerUnchanged
<1>2. Pool /\ ~finishSent /\ stopped' = TRUE /\ wire' = 0
  BY Zenon DEF PeerStops
<1>3. Placed'
  BY Zenon, <1>0, <1>1, PlacedFrame
<1>4. Flagged'
  BY <1>0, <1>1, <1>2 DEF Flagged
<1>5. Counted'
  <2>1. wire' \in Nat
    BY <1>2
  <2> QED
    BY Zenon, <1>0, <1>1, <2>1 DEF Counted
<1>6. PreludeInv'
  BY Zenon, <1>0, <1>1, PreludeFrame DEF preludeSeen
<1>7. DownInv'
  BY Zenon, <1>0, <1>1, DownFrame DEF unitsSeen
<1>8. UpInv'
  BY Zenon, <1>0, <1>1, <1>2 DEF UpInv, Pool, ClientReadable
<1>9. TimeInv'
  <2>1. RequestPending' => RequestPending
    BY Zenon, <1>1, <1>2 DEF RequestPending, Pool
  <2> QED
    BY Zenon, <1>0, <1>1, <1>2, <2>1, TimeFrame DEF timeSeen
<1> QED
  BY Zenon, <1>3, <1>4, <1>5, <1>6, <1>7, <1>8, <1>9, Whole

\* The deadline passes.
LEMMA ExpireKeeps ==
  ASSUME Inv, Expire
  PROVE  Inv'
<1>0. Placed /\ Flagged /\ Counted /\ PreludeInv /\ DownInv /\ UpInv /\ TimeInv
  BY Zenon, Parts
<1>1. UNCHANGED <<mode, pc, clientEof, upstreamEof, upstreamFailed, clientSendClosed, protocolReady, clientReady,
                  waitingInitial, waitingFence, clientFin, clientReset, sendClosed, finishSent, stopped, serverFin,
                  serverCut, output, unread, sent, clientRoom, delivered, wire, fence, netRoom, arrived, cached,
                  served, upgradeLeft, headerLeft, deadline>>
  BY Zenon DEF Expire
<1>2. Placed'
  BY Zenon, <1>0, <1>1, PlacedFrame
<1>3. Flagged'
  BY Zenon, <1>0, <1>1, FlaggedFrame DEF flagsSeen
<1>4. Counted'
  BY Zenon, <1>0, <1>1, CountedFrame DEF countsSeen
<1>5. PreludeInv'
  BY Zenon, <1>0, <1>1, PreludeFrame DEF preludeSeen
<1>6. DownInv'
  BY Zenon, <1>0, <1>1, DownFrame DEF unitsSeen
<1>7. UpInv'
  BY Zenon, <1>0, <1>1, UpAside DEF upSeen
<1>8. TimeInv'
  BY Zenon, <1>0, <1>1, PendingFrame, TimeFrame DEF pendingSeen, timeSeen
<1> QED
  BY Zenon, <1>2, <1>3, <1>4, <1>5, <1>6, <1>7, <1>8, Whole

-----------------------------------------------------------------------------
\* The request has just been handed to the carrier.
LEMMA InvInit == Init => Inv
<1> SUFFICES ASSUME Init PROVE Inv
  OBVIOUS
<1>1. Placed
  BY DEF Init, Placed, Places
<1>2. Flagged
  <2>1. waitingInitial \in BOOLEAN /\ waitingFence \in BOOLEAN
    BY DEF Init
  <2> QED
    BY Zenon, <2>1 DEF Init, Flagged
<1>3. Counted
  <2>1. wire \in Nat /\ fence \in Nat /\ upgradeLeft \in {0, 1} /\ headerLeft \in 0..HeaderUnits
    BY HeaderCounted DEF Init
  <2> QED
    BY <2>1 DEF Init, Counted
<1>4. PreludeInv /\ DownInv
  BY HeaderCounted DEF Init, PreludeInv, DownInv, DownloadConserved, Prelude, Pool, Trojan
<1>5. UpInv
  BY DEF Init, UpInv
<1>6. TimeInv
  BY Zenon, <1>1 DEF Init, Placed, TimeInv, RequestPending, Pool, Trojan
<1> QED
  BY Zenon, <1>1, <1>2, <1>3, <1>4, <1>5, <1>6 DEF Inv, TypeOK

\* A step that changes nothing.
LEMMA StutterKeeps ==
  ASSUME Inv, UNCHANGED vars
  PROVE  Inv'
<1>0. Placed /\ Flagged /\ Counted /\ PreludeInv /\ DownInv /\ UpInv /\ TimeInv
  BY Zenon, Parts
<1>1. UNCHANGED <<mode, pc, clientEof, upstreamEof, upstreamFailed, clientSendClosed, protocolReady, clientReady,
                  waitingInitial, waitingFence, clientFin, clientReset, sendClosed, finishSent, stopped, serverFin,
                  serverCut, output, unread, sent, clientRoom, delivered, wire, fence, netRoom, arrived, cached,
                  served, upgradeLeft, headerLeft, deadline>>
  BY Zenon DEF vars
<1>2. Placed' /\ Flagged' /\ Counted'
  BY Zenon, <1>0, <1>1, PlacedFrame, FlaggedFrame, CountedFrame DEF flagsSeen, countsSeen
<1>3. PreludeInv' /\ DownInv' /\ UpInv'
  BY Zenon, <1>0, <1>1, PreludeFrame, DownFrame, UpAside DEF preludeSeen, unitsSeen, upSeen
<1>4. TimeInv'
  BY Zenon, <1>0, <1>1, PendingFrame, TimeFrame DEF pendingSeen, timeSeen
<1> QED
  BY Zenon, <1>2, <1>3, <1>4, Whole

\* Every step of the loop, the peers and the network keeps the invariant.
LEMMA InvStep == Inv /\ [Next]_vars => Inv'
<1> SUFFICES ASSUME Inv, [Next]_vars PROVE Inv'
  OBVIOUS
<1>1. CASE Loop
  BY Zenon, <1>1, FlushKeeps, FenceKeeps, SendKeeps, WaitPendingKeeps, WaitKeeps, ClientKeeps, WriteKeeps,
     UpstreamIdleKeeps, UpstreamEndsKeeps, UpstreamDataKeeps DEF Loop
<1>2. CASE Environment
  BY Zenon, <1>2, ClientSendsKeeps, ClientClosesKeeps, ClientResetsKeeps, ClientReceivesKeeps, NetworkDrainsKeeps,
     ActorSendsKeeps, ServerSendsKeeps, ServerEndsKeeps, ServerFailsKeeps, PeerStopsKeeps, ExpireKeeps
     DEF Environment
<1>3. CASE UNCHANGED vars
  BY Zenon, <1>3, StutterKeeps
<1> QED
  BY Zenon, <1>1, <1>2, <1>3 DEF Next

\* The inductive invariant holds in every reachable state.
LEMMA InvHolds == Spec => []Inv
<1> QED
  BY InvInit, InvStep, PTL DEF Spec

\* In every behaviour of the relay loop the server's units are conserved, and
\* neither the shutdown of the client's socket nor the end of the upload
\* overtakes data (client_worker_run, tls13_flush).
THEOREM EndsNeverOvertake == Spec => []EndsBehindData
<1>1. Inv => EndsBehindData
  <2> SUFFICES ASSUME Inv PROVE EndsBehindData
    OBVIOUS
  <2>1. DownloadConserved
    BY DEF Inv, DownInv
  <2>2. EndBehindDownload
    BY DEF Inv, TypeOK, Flagged, Counted, DownInv, EndBehindDownload
  <2>3. EndBehindUpload
    BY DEF Inv, TypeOK, Flagged, Counted, UpInv, EndBehindUpload
  <2> QED
    BY <2>1, <2>2, <2>3 DEF EndsBehindData
<1> QED
  BY <1>1, InvHolds, PTL

\* In every behaviour of the relay loop the handshake deadline is paused only
\* while neither side has spoken, runs from the first word on, and ends when
\* the protocol is ready (io_deadline_pause, io_deadline_resume).
THEOREM DeadlineFollowsSpeech == Spec => []DeadlineMatchesWaiting
<1>1. Inv => DeadlineMatchesWaiting
  BY DEF Inv, TypeOK, Placed, Flagged, Counted, TimeInv, DeadlineMatchesWaiting
<1> QED
  BY <1>1, InvHolds, PTL

=============================================================================
