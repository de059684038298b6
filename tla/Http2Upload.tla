----------------------------- MODULE Http2Upload -----------------------------
(***************************************************************************)
(* The upload side of http2_pool.c: streams that share one connection and  *)
(* the global byte count upload_bytes.  A client thread writes and waits,  *)
(* or reserves room and writes later (the relay loop); the actor moves     *)
(* bytes from a stream's queue to the connection's output and flushes it.  *)
(* Every action is one critical section of mux_lock.  The allocator cannot *)
(* refuse here: a bound stream holds a reservation for a full queue.       *)
(***************************************************************************)
EXTENDS Integers, FiniteSets, Functions

CONSTANTS Writer,       \* streams, each with its client thread
          StreamLimit,  \* XMUX_STREAM_LIMIT
          Boundary,     \* XMUX_TOTAL_LIMIT - XMUX_TX_RESERVE
          Wide,         \* 128 KiB, the distance of the second threshold
          NetLimit,     \* 64 KiB of unsent output stop the actor
          MaxAsk,       \* bound: size of one write or reservation
          MaxOutput     \* bound: bytes and frames queued on the connection in all

VARIABLES up,            \* the streams
          out,           \* the connection's output: enqueued and flushed byte counts
          upload_bytes   \* what the code believes is queued altogether

uploadVars == <<up, out, upload_bytes>>

Net(o) == o.enqueued - o.flushed
Total(f) == FoldFunction(+, 0, f)
Lesser(a, b) == IF a < b THEN a ELSE b

NewStream == [tx |-> 0, reserved |-> 0, fence |-> 0, finish |-> "no", finish_fence |-> 0, last |-> 0, stopped |-> FALSE,
              failed |-> FALSE, closed |-> FALSE, notified |-> FALSE, want |-> 0, pc |-> "idle"]
UploadInit ==
    /\ up = [s \in Writer |-> NewStream]
    /\ out = [enqueued |-> 0, flushed |-> 0]
    /\ upload_bytes = 0

\* signal_stream
signal_streams(u, S) == [s \in Writer |-> IF s \in S /\ ~u[s].closed THEN [u[s] EXCEPT !.notified = TRUE] ELSE u[s]]

\* notify_write_capacity: everybody hears of the total falling below either
\* threshold.
notify_write_capacity(u, previous, now) ==
    IF (previous >= Boundary /\ now < Boundary) \/ (previous > Boundary - Wide /\ now <= Boundary - Wide)
    THEN signal_streams(u, Writer) ELSE u

\* Every change of upload_bytes is followed by the notification.
Account(u, total) ==
    /\ upload_bytes' = total
    /\ up' = notify_write_capacity(u, upload_bytes, total)

Room(total) == IF total < Boundary THEN Boundary - total ELSE 0
output_room(u, s, total) == Lesser(StreamLimit - u[s].tx, Room(total) + u[s].reserved)
Accepts(s) == ~(up[s].closed \/ up[s].failed \/ up[s].stopped \/ up[s].finish # "no")

-----------------------------------------------------------------------------
\* core_http2_write_parts is called.
WriteStart(s) ==
    /\ up[s].pc = "idle" /\ ~up[s].closed
    /\ \E n \in 1 .. MaxAsk : up' = [up EXCEPT ![s].want = n, ![s].pc = "write"]
    /\ UNCHANGED <<out, upload_bytes>>

\* One round of its first loop: as much as there is room for, then sleep only
\* if the room is gone after the notification socket was drained.
StillFull(u, s, total) == output_room(u, s, total) = 0
WriteBlock(s) ==
    /\ up[s].pc = "write"
    /\ LET room == output_room(up, s, upload_bytes)
           block == IF up[s].reserved >= up[s].want THEN up[s].want ELSE Lesser(up[s].want, room)
           used == Lesser(block, up[s].reserved)
           total == upload_bytes + block - used
           wrote == [up EXCEPT ![s].tx = @ + block, ![s].reserved = @ - used, ![s].want = @ - block]
       IN  IF ~Accepts(s) THEN up' = [up EXCEPT ![s].pc = "idle", ![s].want = 0] /\ UNCHANGED upload_bytes
           ELSE /\ upload_bytes' = total
                /\ \E relay_async \in BOOLEAN : up' =
                         IF wrote[s].want = 0 THEN [wrote EXCEPT ![s].pc = IF relay_async THEN "idle" ELSE "flush"]
                         ELSE [wrote EXCEPT ![s].notified = FALSE, ![s].pc = IF StillFull(wrote, s, total) THEN "sleep" ELSE "write"]
    /\ UNCHANGED out

\* The second loop: while a connection deadline runs, until the bytes are out.
Unflushed(s) == up[s].tx > 0 \/ up[s].fence > out.flushed
WriteFlush(s) ==
    /\ up[s].pc = "flush"
    /\ up' = [up EXCEPT ![s].pc = IF up[s].failed \/ ~Unflushed(s) THEN "idle" ELSE "await"]
    /\ UNCHANGED <<out, upload_bytes>>

\* The notification socket is readable; the second loop drains it.
WriteWake(s) ==
    /\ up[s].pc \in {"sleep", "await"} /\ up[s].notified
    /\ up' = [up EXCEPT ![s].pc = IF @ = "sleep" THEN "write" ELSE "flush", ![s].notified = up[s].pc = "sleep"]
    /\ UNCHANGED <<out, upload_bytes>>

\* core_http2_reserve_write and core_http2_release_write of the relay loop.
Reserve(s) ==
    /\ up[s].pc = "idle" /\ Accepts(s) /\ up[s].reserved = 0
    /\ \E n \in 1 .. MaxAsk :
         /\ n <= StreamLimit - up[s].tx /\ n <= Room(upload_bytes)
         /\ up' = [up EXCEPT ![s].reserved = n] /\ upload_bytes' = upload_bytes + n
    /\ UNCHANGED out

Release(s) ==
    /\ up[s].pc = "idle" /\ up[s].reserved > 0
    /\ Account([up EXCEPT ![s].reserved = 0], upload_bytes - up[s].reserved)
    /\ UNCHANGED out

\* core_http2_finish_write
FinishWrite(s) ==
    /\ up[s].pc = "idle" /\ up[s].finish = "no" /\ ~up[s].failed /\ ~up[s].closed
    /\ up' = [up EXCEPT ![s].finish = IF up[s].stopped THEN "sent" ELSE "asked"]
    /\ UNCHANGED <<out, upload_bytes>>

\* core_http2_close; nothing is asked of the stream after it.
CloseUpload(s) ==
    /\ up[s].pc = "idle" /\ ~up[s].closed
    /\ Account([up EXCEPT ![s] = [NewStream EXCEPT !.closed = TRUE]], upload_bytes - up[s].tx - up[s].reserved)
    /\ UNCHANGED out

-----------------------------------------------------------------------------
\* The actor.  DATA of a stream goes to the output: the bytes change owner.
SendData(s) ==
    /\ up[s].tx > 0 /\ ~up[s].failed /\ ~up[s].closed /\ Net(out) < NetLimit
    /\ \E n \in 1 .. up[s].tx :
         /\ out.enqueued + n <= MaxOutput
         /\ out' = [out EXCEPT !.enqueued = @ + n]
         /\ up' = signal_streams([up EXCEPT ![s].tx = @ - n, ![s].fence = out.enqueued + n, ![s].last = out.enqueued + n], {s})
    /\ UNCHANGED upload_bytes

\* The last walk of advance_streams over finished streams: END_STREAM, or
\* with packet-up nothing more to send.
SendFinish(s) ==
    /\ up[s].finish = "asked" /\ up[s].tx = 0 /\ ~up[s].failed /\ ~up[s].closed /\ out.enqueued < MaxOutput
    /\ \E frame \in 0 .. 1 :
         LET o == [out EXCEPT !.enqueued = @ + frame]
             u == [up EXCEPT ![s].finish = "sent", ![s].finish_fence = o.enqueued, ![s].fence = o.enqueued]
         IN  out' = o /\ Account(signal_streams(u, {s}), upload_bytes + frame)

\* A control frame is queued.
SendControl ==
    /\ out.enqueued < MaxOutput
    /\ out' = [out EXCEPT !.enqueued = @ + 1] /\ upload_bytes' = upload_bytes + 1
    /\ UNCHANGED up

\* flush and account_output: whoever waited for a byte that is out now hears.
Passed_Strict(s, old, new) == up[s].fence > old /\ up[s].fence < new   \* Mutant: off by one.
Passed(s, old, new) == up[s].fence > old /\ up[s].fence <= new
Flush ==
    \E n \in 1 .. Net(out) :
        LET o == [out EXCEPT !.flushed = @ + n]
        IN  /\ out' = o
            /\ Account(signal_streams(up, {s \in Writer : Passed(s, out.flushed, o.flushed)}), upload_bytes - n)

\* stop_upload: RST_STREAM without error after the response.
Stopped_Kept(s) == 0   \* Mutant: the discarded bytes stay counted.
Stopped(s) == up[s].tx + up[s].reserved
StopUpload(s) ==
    /\ ~up[s].stopped /\ ~up[s].closed
    /\ Account(signal_streams([up EXCEPT ![s].stopped = TRUE, ![s].finish = IF @ = "no" THEN @ ELSE "sent", ![s].finish_fence = 0,
                                         ![s].tx = 0, ![s].reserved = 0, ![s].fence = 0], {s}), upload_bytes - Stopped(s))
    /\ UNCHANGED out

\* fail_stream
FailUpload(s) ==
    /\ ~up[s].failed /\ ~up[s].closed
    /\ up' = signal_streams([up EXCEPT ![s].failed = TRUE], {s})
    /\ UNCHANGED <<out, upload_bytes>>

UploadNext ==
    \/ \E s \in Writer : \/ WriteStart(s) \/ WriteBlock(s) \/ WriteFlush(s) \/ WriteWake(s) \/ Reserve(s) \/ Release(s)
                         \/ FinishWrite(s) \/ CloseUpload(s) \/ SendData(s) \/ SendFinish(s) \/ StopUpload(s) \/ FailUpload(s)
    \/ SendControl \/ Flush

-----------------------------------------------------------------------------
\* core_http2_finish_pending of a stream that has not failed
finish_pending(s) == up[s].finish = "asked" \/ (up[s].finish = "sent" /\ up[s].finish_fence > out.flushed)

\* upload_bytes, which admits writes of every stream, is exactly what queues,
\* reservations and the connection's output hold; the admission keeps queues
\* and reservations within their limits whatever stops, fails and closes.
UploadAccounted ==
    /\ upload_bytes = Total([s \in Writer |-> up[s].tx + up[s].reserved]) + Net(out)
    /\ \A s \in Writer : up[s].tx + up[s].reserved <= StreamLimit

\* A client that sleeps in core_http2_write_parts is never forgotten: when
\* there is room for it, its bytes are out, or its stream has failed or was
\* stopped, its notification is set; and while it sleeps for room something
\* is queued whose departure makes room.
WritersWoken ==
    \A s \in Writer :
        /\ up[s].pc = "sleep" => \/ up[s].notified
                                 \/ output_room(up, s, upload_bytes) = 0 /\ Accepts(s) /\
                                    (Net(out) > 0 \/ \E t \in Writer : up[t].tx > 0 \/ up[t].reserved > 0)
        /\ up[s].pc = "await" => up[s].notified \/ (Unflushed(s) /\ ~up[s].failed)

\* core_http2_finish_pending reports the end of the upload as passed on only
\* when every byte the stream has accepted has left the connection's output,
\* unless the peer itself has stopped the upload.
FinishIsBehindData ==
    \A s \in Writer : up[s].finish # "no" /\ ~finish_pending(s) /\ ~up[s].stopped /\ ~up[s].failed /\ ~up[s].closed =>
        up[s].tx = 0 /\ up[s].last <= out.flushed

\* The upload of a stream: bytes are accounted until they have left, and the
\* end is behind them.
UploadExact == UploadAccounted /\ FinishIsBehindData
=============================================================================
