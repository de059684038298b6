----------------------------- MODULE Http2Credit -----------------------------
(***************************************************************************)
(* Receive flow control of one HTTP/2 connection of the pool               *)
(* (http2_pool.c): the window of the connection and of each download       *)
(* request, the credit that goes back when a client reads, closes or       *)
(* fails, and a peer that sends what it has been granted and no more.      *)
(* Sizes are in units of some kilobytes.                                   *)
(***************************************************************************)
EXTENDS Integers, Sequences, FiniteSets, FiniteSetsExt, SequencesExt

CONSTANTS Flow,      \* download streams on the connection
          Base,      \* 65535, the connection window before any WINDOW_UPDATE
          Initial,   \* initial window of a request
          Total,     \* XMUX_TOTAL_LIMIT
          Worth,       \* 16384, credit worth a frame
          MaxFrame,  \* largest DATA frame
          MaxUnits   \* bound: what the peer sends in all

VARIABLES eager,  \* gRPC: credit is returned at once
          act,    \* the actor: window, pending_credit, receive_slots, woken
          flow,   \* the streams
          wire,   \* DATA frames on their way to the actor
          peer    \* the peer: windows it was granted, what is left to send

creditVars == <<eager, act, flow, wire, peer>>

SumOf(f, S) == FoldFunctionOnSet(+, 0, f, S)
Least(a, b) == IF a < b THEN a ELSE b
Most(a, b) == IF a > b THEN a ELSE b

CreditInit ==
    /\ eager \in BOOLEAN
    /\ act = [window |-> Base, pending |-> 0, slots |-> 0, wake |-> FALSE]
    /\ flow = [s \in Flow |-> [state |-> "new", request |-> "none", window |-> 0, rx |-> 0, consumed |-> 0, failed |-> FALSE]]
    /\ wire = <<>>
    /\ peer = [conn |-> Base, window |-> [s \in Flow |-> 0], open |-> {}, left |-> MaxUnits]

Downloads == {s \in Flow : flow[s].request \in {"open", "ended"}}

\* The connection window that goes with a number of download requests.
Advertised(n) == Most(Base, Least(n * Initial, Total))

\* start_request of a download: room for one more request than ever before is
\* granted on the connection as well.  Having queued output the actor comes
\* round again at once.
StartDownload(s) ==
    LET n == Cardinality(Downloads) + 1
        increment == IF n > act.slots THEN Advertised(n) - Advertised(act.slots) ELSE 0
    IN  /\ flow[s].state = "new"
        /\ flow' = [flow EXCEPT ![s].state = "open", ![s].request = "open", ![s].window = Initial]
        /\ act' = [act EXCEPT !.window = @ + increment, !.slots = Most(n, @), !.wake = TRUE]
        /\ peer' = [peer EXCEPT !.conn = @ + increment, !.window[s] = Initial, !.open = @ \cup {s}]
        /\ UNCHANGED <<eager, wire>>

\* process_frame of a DATA frame with `pad' units of padding: the checks, the
\* rejections (which give the connection's share back at once), the queue.
GivenBack(n) == n
Rejected(s, n) ==
    /\ flow' = [flow EXCEPT ![s].request = "reset", ![s].failed = TRUE]
    /\ peer' = [peer EXCEPT !.conn = @ + GivenBack(n), !.open = @ \ {s}]
    /\ act' = [act EXCEPT !.wake = TRUE]

Kept(s, n, pad) == [flow EXCEPT ![s].window = @ - n, ![s].rx = @ + n - pad, ![s].consumed = @ + pad]

Data(bad) ==
    LET f == Head(wire)
        s == f.s
        n == f.n
    IN  /\ wire # <<>> /\ n <= act.window
        /\ wire' = Tail(wire)
        /\ \/ /\ flow[s].request \in {"none", "reset"}
              /\ peer' = [peer EXCEPT !.conn = @ + n]
              /\ act' = [act EXCEPT !.wake = TRUE]
              /\ UNCHANGED flow
           \/ /\ flow[s].request = "ended" \/ (flow[s].request = "open" /\ (bad \/ n > flow[s].window))
              /\ Rejected(s, n)
           \/ /\ flow[s].request = "open" /\ ~bad /\ n <= flow[s].window
              /\ LET closed == flow[s].state = "closed"
                     kept == IF closed THEN flow ELSE Kept(s, n, f.pad)
                 IN  /\ flow' = IF f.fin THEN [kept EXCEPT ![s].request = "ended"] ELSE kept
                     /\ act' = [act EXCEPT !.window = IF closed THEN @ ELSE @ - n, !.wake = TRUE]
                     /\ peer' = IF closed THEN [peer EXCEPT !.conn = @ + n, !.window[s] = @ + n] ELSE peer
        /\ UNCHANGED eager

receive_credit_due(s) ==
    \/ eager \/ flow[s].consumed >= Worth \/ act.window <= Worth
    \/ flow[s].request \notin {"open", "ended", "reset"} \/ flow[s].window <= Worth
    \/ flow[s].request = "ended" \/ flow[s].state = "closed" \/ flow[s].failed

\* One call of advance_streams: the credit of each stream in the list, in any
\* order, then the requests that are over leave (a RST_STREAM tells the peer)
\* and closed streams are freed.
Linked == {s \in Flow : flow[s].state \in {"open", "closed"}}
Returned == {s \in Linked : receive_credit_due(s) /\ (flow[s].consumed > 0 \/ act.pending > 0)}

Advance ==
    /\ act.wake
    /\ \E keep \in SUBSET {s \in Flow : flow[s].request = "ended" /\ flow[s].state = "open" /\ ~flow[s].failed} :
         LET amount == SumOf([s \in Flow |-> flow[s].consumed], Returned) + (IF Returned # {} THEN act.pending ELSE 0)
             over == {s \in Flow : flow[s].request \in {"open", "ended", "reset"} /\ s \notin keep /\
                                   (flow[s].state = "closed" \/ flow[s].failed \/ flow[s].request = "ended")}
             after(s) == LET r == flow[s]
                             back == IF s \in Returned THEN r.consumed ELSE 0
                         IN  [r EXCEPT !.window = @ + back, !.consumed = @ - back,
                                       !.request = IF s \in over THEN "none" ELSE @,
                                       !.state = IF r.state = "closed" /\ (s \in over \/ r.request = "none") THEN "freed" ELSE @]
         IN  /\ flow' = [s \in Flow |-> after(s)]
             /\ act' = [act EXCEPT !.window = @ + amount, !.pending = IF Returned # {} THEN 0 ELSE @, !.wake = FALSE]
             /\ peer' = [peer EXCEPT !.conn = @ + amount, !.open = @ \ over,
                            !.window = [s \in Flow |-> @[s] + (IF s \in Returned /\ flow[s].request = "open" /\ flow[s].state = "open"
                                                              THEN flow[s].consumed ELSE 0)]]
    /\ UNCHANGED <<eager, wire>>

\* core_http2_read
ReadRx(s) ==
    \E take \in 1 .. flow[s].rx :
        /\ flow[s].state = "open"
        /\ flow' = [flow EXCEPT ![s].rx = @ - take, ![s].consumed = @ + take]
        /\ act' = [act EXCEPT !.wake = TRUE]
        /\ UNCHANGED <<eager, wire, peer>>

\* core_http2_close: what was not read is credit of the connection now.
Owed_Unread(s) == flow[s].consumed   \* Mutant: what was not read is lost.
Owed(s) == flow[s].consumed + flow[s].rx
CloseStream(s) ==
    /\ flow[s].state = "open"
    /\ flow' = [flow EXCEPT ![s].state = IF flow[s].request = "none" THEN "freed" ELSE "closed", ![s].consumed = 0, ![s].rx = 0]
    /\ act' = [act EXCEPT !.pending = @ + Owed(s), !.wake = TRUE]
    /\ UNCHANGED <<eager, wire, peer>>

\* fail_stream: a refused response, or the stream's other leg is gone.
FailStream(s) ==
    /\ flow[s].state = "open" /\ ~flow[s].failed
    /\ flow' = [flow EXCEPT ![s].failed = TRUE]
    /\ act' = [act EXCEPT !.wake = TRUE]
    /\ UNCHANGED <<eager, wire, peer>>

\* The peer sends within its windows.  Credit reaches it at once: a peer that
\* learns of it later does less.
PeerSend(s) ==
    /\ peer.window[s] > 0
    /\ \E n \in 1 .. MaxFrame, pad \in 0 .. 1, fin \in BOOLEAN :
         /\ pad < n /\ n <= peer.left /\ n <= peer.conn /\ n <= peer.window[s]
         /\ wire' = Append(wire, [s |-> s, n |-> n, pad |-> pad, fin |-> fin])
         /\ peer' = [peer EXCEPT !.conn = @ - n, !.left = @ - n,
                                 !.window[s] = IF fin THEN 0 ELSE @ - n, !.open = IF fin THEN @ \ {s} ELSE @]
    /\ s \in peer.open
    /\ UNCHANGED <<eager, act, flow>>

CreditNext ==
    \/ \E s \in Flow : StartDownload(s) \/ ReadRx(s) \/ CloseStream(s) \/ FailStream(s) \/ PeerSend(s)
    \/ \E bad \in BOOLEAN : Data(bad)
    \/ Advance

-----------------------------------------------------------------------------
OnWire(S) == FoldLeft(LAMBDA n, f : IF f.s \in S THEN n + f.n ELSE n, 0, wire)
Unread == SumOf([s \in Flow |-> flow[s].rx], Flow)
Held == SumOf([s \in Flow |-> flow[s].consumed], Flow) + Unread

\* No credit is lost or invented: what the connection has granted for its
\* number of requests is always split into the window, the credit still owed
\* and the bytes in streams, whatever mix of reads, padding, closes, failures
\* and rejected frames there was (process_frame, advance_streams,
\* core_http2_close); a request's window likewise.
CreditConserved ==
    /\ act.window + act.pending + Held = Advertised(act.slots)
    /\ \A s \in Flow : flow[s].request = "open" /\ flow[s].state = "open" =>
          flow[s].window + flow[s].consumed + flow[s].rx = Initial

\* Both ends agree about the windows, so a peer that keeps to what it was
\* granted is never cut off by the receive_window checks of process_frame.
PeerNeverBlamed ==
    /\ peer.conn + OnWire(Flow) = act.window
    /\ \A s \in Flow : flow[s].request = "open" /\ s \in peer.open /\ flow[s].state = "open" =>
          peer.window[s] + OnWire({s}) = flow[s].window

\* The receive windows are conserved and both ends agree about them.
CreditExact == CreditConserved /\ PeerNeverBlamed

=============================================================================
