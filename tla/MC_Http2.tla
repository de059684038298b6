------------------------------ MODULE MC_Http2 ------------------------------
(***************************************************************************)
(* The connection pool: its streams, groups and connections, and of one    *)
(* connection the receive windows, the bytes to upload and the queues.  No *)
(* two of them read a variable of each other's, so each works in           *)
(* behaviours of its own.                                                  *)
(*                                                                         *)
(* Pool: one or two streams over up to six connections, in every mode:     *)
(* shared (xmux, gRPC), private, and with a download leg of its own; only  *)
(* stream 1 uploads.  Credit: two downloads share a window that either can *)
(* fill alone.  Upload: two writers, each with writes longer than a queue, *)
(* share a limit that queues and unsent output reach.  Queues: one fewer   *)
(* block than the two queues could fill.                                   *)
(***************************************************************************)
EXTENDS Integers, Sequences

VARIABLES part, plan, pool, pc,                 \* Http2Pool
          eager, act, flow, wire, peer,         \* Http2Credit
          up, out, upload_bytes,                \* Http2Upload
          fifo, cached, sent                    \* Http2Queue

poolVars == <<plan, pool, pc>>
creditVars == <<eager, act, flow, wire, peer>>
uploadVars == <<up, out, upload_bytes>>
queueVars == <<fifo, cached, sent>>

-----------------------------------------------------------------------------
P(m, x, d) == [mode |-> m, xmux |-> x > 0, connections |-> x, split |-> d]
One(q) == [s \in {1} |-> q]
Two(q) == [s \in {1, 2} |-> q]
PoolPlans == {One(P("packet-up", 1, FALSE)), One(P("stream-up", 0, TRUE)), One(P("packet-up", 1, TRUE)),
              Two(P("packet-up", 1, FALSE)), Two(P("stream-one", 2, FALSE)), Two(P("stream-one", 0, FALSE)),
              Two(P("grpc", 0, FALSE)), <<P("stream-up", 0, TRUE), P("grpc", 0, FALSE)>>}
PoolWrites(s) == IF s = 1 THEN 1 ELSE 0
PoolTroubles(pl) == CASE DOMAIN pl = {1} /\ ~pl[1].split -> 2
                      [] DOMAIN pl # {1} /\ (pl[1].split \/ pl[1].connections = 2) -> 0
                      [] OTHER -> 1

Pool == INSTANCE Http2Pool WITH
          Stream <- {1, 2}, Actor <- 1..6, Group <- 1..6, Plans <- PoolPlans,
          ActorLimit <- 2, ManagerLimit <- 2, ChannelLimit <- 1, GroupStreams <- 0,
          Concurrency <- {1}, MaxWrites <- PoolWrites, MaxTroubles <- PoolTroubles
Credit == INSTANCE Http2Credit WITH
          Flow <- {1, 2}, Base <- 2, Initial <- 3, Total <- 5, Worth <- 1, MaxFrame <- 2, MaxUnits <- 3
Upload == INSTANCE Http2Upload WITH
          Writer <- {1, 2}, StreamLimit <- 1, Boundary <- 2, Wide <- 1, NetLimit <- 2, MaxAsk <- 2, MaxOutput <- 2
Queues == INSTANCE Http2Queue WITH
          Queue <- {"tx", "rx"}, FlatQueue <- {"header"}, Block <- 2, QueueLimit <- 3, FlatStart <- 2,
          CacheLimit <- 1, BlockMemory <- 4, MaxBytes <- 4

-----------------------------------------------------------------------------
MCInit ==
  /\ part \in {"pool", "credit", "upload", "queues"}
  /\ IF part = "pool" THEN Pool!PoolInit ELSE plan = 0 /\ pool = 0 /\ pc = 0
  /\ IF part = "credit" THEN Credit!CreditInit ELSE eager = 0 /\ act = 0 /\ flow = 0 /\ wire = 0 /\ peer = 0
  /\ IF part = "upload" THEN Upload!UploadInit ELSE up = 0 /\ out = 0 /\ upload_bytes = 0
  /\ IF part = "queues" THEN Queues!QueueInit ELSE fifo = 0 /\ cached = 0 /\ sent = 0

MCNext ==
  /\ UNCHANGED part
  /\ \/ part = "pool" /\ Pool!PoolNext /\ UNCHANGED <<creditVars, uploadVars, queueVars>>
     \/ part = "credit" /\ Credit!CreditNext /\ UNCHANGED <<poolVars, uploadVars, queueVars>>
     \/ part = "upload" /\ Upload!UploadNext /\ UNCHANGED <<poolVars, creditVars, queueVars>>
     \/ part = "queues" /\ Queues!QueueNext /\ UNCHANGED <<poolVars, creditVars, uploadVars>>

MCSpec == MCInit /\ [][MCNext]_<<part, poolVars, creditVars, uploadVars, queueVars>>

-----------------------------------------------------------------------------
\* No actor, group or stream of the pool is freed while something names it,
\* and the reference and `running' counts that decide about freeing are exact
\* (collect_stopped_actors, release_stream, move_waiting_streams).
PoolExact == part = "pool" => Pool!PoolExact

\* Every stream of a connection that is over has been told (the sweep at the
\* end of actor_worker), and core_http2_close waits only for connections that
\* are awake or on their way out.
NobodyForgotten == part = "pool" => Pool!NobodyForgotten

\* The receive windows of the pool are conserved through reads, padding,
\* closes, failures and rejected frames, and both ends agree about them
\* (process_frame, advance_streams, core_http2_close).
CreditExact == part = "credit" => Credit!CreditExact


\* upload_bytes counts what queues, reservations and the output hold, and the
\* end of an upload is sent and reported behind its data.
UploadExact == part = "upload" => Upload!UploadExact

\* A client asleep in a write that would now be admitted is woken
\* (notify_write_capacity).
WritersWoken == part = "upload" => Upload!WritersWoken

\* The queues are first in, first out over blocks and flat buffers, and are
\* charged for exactly what they hold (http2_queue.c).
QueueExact == part = "queues" => Queues!QueueExact
=============================================================================
