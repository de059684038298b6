---------------------------- MODULE ClientWorker ----------------------------
(***************************************************************************)
(* The listener of main.c and its client threads, from accept to the relay *)
(* (main, client_worker, client_worker_run, socks5.c).  Every step of the  *)
(* set-up can fail, and every failure has its own way out: what to tell    *)
(* the SOCKS client, which descriptors to close, whether the bypass lease  *)
(* is returned.  The model keeps those ways out one by one.                *)
(*                                                                         *)
(* Client payload that is read before the relay (to sniff a domain, or to  *)
(* travel in the first packet) is counted in units.                        *)
(***************************************************************************)
EXTENDS Integers, FiniteSets

CONSTANTS
    Thread,          \* client threads the model may have at once
    MaxClients,      \* MAX_CLIENT_CONNECTIONS
    Plans,           \* kinds of session: [route, protocol, sniff, delayed]
    MaxAccepts,      \* clients in one behaviour
    NoThread         \* the listener has no client to hand over

ASSUME ThreadAssumption == IsFiniteSet(Thread) /\ NoThread \notin Thread /\ MaxClients \in Nat

VARIABLES
    g_active_client_count,  \* the slots taken
    listener,               \* [at, thread, accepts]: what main does with its last client
    worker                  \* the thread of each client

workerVars == <<g_active_client_count, listener, worker>>

\* open: what the thread must close.  closedTwice: it closed something it
\* did not have.  success, failures: SOCKS replies sent; gone: the client
\* could not be written to.  read, sent: units of first payload.
NoWorker == [at |-> "none", plan |-> [route |-> "", protocol |-> "", sniff |-> FALSE, delayed |-> FALSE],
             open |-> {}, closedTwice |-> FALSE, success |-> FALSE, failures |-> 0,
             silent |-> FALSE, read |-> 0, held |-> 0, sent |-> 0]

----------------------------------------------------------------------------
(* Ways out of a session.                                                  *)

Closing(r, things) ==
    [r EXCEPT !.open = @ \ things, !.closedTwice = @ \/ ~(things \subseteq r.open)]

Leaving(r, things) == [Closing(r, things) EXCEPT !.at = "leave"]

Refused_Always(r) == [r EXCEPT !.failures = @ + 1]

\* socks5_send_failure unless success was already sent; whether the write
\* succeeds is ignored.
Refused(r) == IF r.success THEN r ELSE [r EXCEPT !.failures = @ + 1]

\* The client cannot be written to, or asked for no method the core offers.
Silent(r) == [r EXCEPT !.silent = TRUE]

\* socks5_send_success unless it was sent: it is sent, or the client is gone
\* and the session leaves, closing things.
Greeted(r, next, things) ==
    IF r.success THEN {[r EXCEPT !.at = next]}
    ELSE {[r EXCEPT !.at = next, !.success = TRUE], Leaving(Silent(r), things)}

\* A read of first payload: an error, nothing in time, or a unit.
PayloadRead(r, next, things) ==
    {Leaving(r, things), [r EXCEPT !.at = next],
     [r EXCEPT !.at = next, !.read = @ + 1, !.held = 1]}

\* The first payload is written to the upstream.
Forwarded(r, next) == [r EXCEPT !.at = next, !.sent = @ + r.held, !.held = 0]

----------------------------------------------------------------------------
(* main: the accept loop.                                                  *)

Listening(at) == listener.at = at

Accept ==
    /\ Listening("accept") /\ listener.accepts < MaxAccepts
    /\ \E t \in Thread, p \in Plans :
          /\ worker[t].at = "none"
          /\ worker' = [worker EXCEPT ![t] = [NoWorker EXCEPT !.at = "accepted", !.plan = p,
                                                             !.open = {"client"}]]
          /\ listener' = [listener EXCEPT !.at = "slot", !.thread = t, !.accepts = @ + 1]
    /\ UNCHANGED g_active_client_count

\* An accept that fails for want of descriptors or memory waits 100 ms and
\* tries again; any other lasting error ends the listener.
AcceptFails ==
    /\ Listening("accept")
    /\ listener' = [listener EXCEPT !.at = "ended"]
    /\ UNCHANGED <<g_active_client_count, worker>>

acquire_client_slot_Off == g_active_client_count <= MaxClients
acquire_client_slot == g_active_client_count < MaxClients

AcquireSlot ==
    /\ Listening("slot") /\ acquire_client_slot
    /\ g_active_client_count' = g_active_client_count + 1
    /\ listener' = [listener EXCEPT !.at = "create"]
    /\ UNCHANGED worker

Turned(t) == [worker EXCEPT ![t] = [NoWorker EXCEPT
                 !.closedTwice = Closing(worker[t], {"client"}).closedTwice,
                 !.open = Closing(worker[t], {"client"}).open]]

NoSlot ==
    /\ Listening("slot") /\ ~acquire_client_slot
    /\ worker' = Turned(listener.thread)
    /\ listener' = [listener EXCEPT !.at = "accept", !.thread = NoThread]
    /\ UNCHANGED g_active_client_count

release_client_slot == IF g_active_client_count > 0 THEN g_active_client_count - 1 ELSE g_active_client_count

\* calloc or pthread_create fails.
CreateFails ==
    /\ Listening("create")
    /\ g_active_client_count' = release_client_slot
    /\ worker' = Turned(listener.thread)
    /\ listener' = [listener EXCEPT !.at = "accept", !.thread = NoThread]

CreateThread ==
    /\ Listening("create")
    /\ worker' = [worker EXCEPT ![listener.thread].at = "attach"]
    /\ listener' = [listener EXCEPT !.at = "accept", !.thread = NoThread]
    /\ UNCHANGED g_active_client_count

----------------------------------------------------------------------------
(* client_worker_run.  A step of thread t takes its record to one of a set *)
(* of outcomes.                                                            *)

Step(t, at, outcomes) ==
    /\ worker[t].at = at
    /\ \E r \in outcomes : worker' = [worker EXCEPT ![t] = r]
    /\ UNCHANGED <<g_active_client_count, listener>>

Me(t) == worker[t]
Protocol(t) == worker[t].plan.protocol

\* core_deadline_attach.
Attach(t) == Step(t, "attach", {[Me(t) EXCEPT !.at = "negotiate"],
                                Leaving(Silent(Me(t)), {"client"})})

\* socks5_negotiate_and_get_target: an unsupported request gets its reply,
\* a client that offers no method the core has was answered already.
Negotiate(t) ==
    Step(t, "negotiate", {[Me(t) EXCEPT !.at = IF Me(t).plan.sniff THEN "sniff" ELSE "route"],
                          Leaving(Silent(Me(t)), {"client"}),
                          Leaving(Refused(Me(t)), {"client"})})

\* With domain rules and an address for target, the client is told to go
\* ahead so that its first bytes name the domain.
SniffGreet(t) == Step(t, "sniff", Greeted(Me(t), "sniff_read", {"client"}))
SniffRead(t) == Step(t, "sniff_read", PayloadRead(Me(t), "route", {"client"}))

Route(t) ==
    Step(t, "route", CASE Me(t).plan.route = "block"  -> {Leaving(Refused(Me(t)), {"client"})}
                       [] Me(t).plan.route = "direct" -> {[Me(t) EXCEPT !.at = "direct"]}
                       [] Protocol(t) = "socks5"      -> {[Me(t) EXCEPT !.at = "delayed"]}
                       [] OTHER                       -> {[Me(t) EXCEPT !.at = "connect"]})

----------------------------------------------------------------------------
(* The direct route.  routing_close_direct closes the socket and returns   *)
(* the lease.                                                              *)

Direct == {"upstream", "lease"}

DirectOpen(t) ==
    Step(t, "direct", {Leaving(Refused(Me(t)), {"client"}),
                       [Me(t) EXCEPT !.at = "direct_greet", !.open = @ \cup Direct]})

DirectGreet(t) == Step(t, "direct_greet", Greeted(Me(t), "direct_send", Direct \cup {"client"}))

DirectSend(t) ==
    Step(t, "direct_send", {Forwarded(Me(t), "direct_relay")} \cup
                           (IF Me(t).held > 0 THEN {Leaving(Me(t), Direct \cup {"client"})} ELSE {}))

DirectRelayed(t) == Step(t, "direct_relay", {Leaving(Me(t), Direct \cup {"client"})})

----------------------------------------------------------------------------
(* A SOCKS5 upstream: for an address on port 443 the TLS server name is    *)
(* read from the client first, unless sniffing has read it already.        *)

Delayed(t) ==
    Step(t, "delayed", IF Me(t).plan.delayed /\ Me(t).held = 0
                       THEN Greeted(Me(t), "delayed_read", {"client"})
                       ELSE {[Me(t) EXCEPT !.at = "socks5"]})

DelayedRead(t) == Step(t, "delayed_read", PayloadRead(Me(t), "socks5", {"client"}))

Socks5Connect(t) ==
    Step(t, "socks5", {Leaving(Refused(Me(t)), {"client"}),
                       [Me(t) EXCEPT !.at = "socks5_greet", !.open = @ \cup {"upstream"}]})

Socks5Greet(t) == Step(t, "socks5_greet", Greeted(Me(t), "socks5_send", {"upstream", "client"}))

Socks5Send(t) ==
    Step(t, "socks5_send", {Forwarded(Me(t), "socks5_relay")} \cup
                           (IF Me(t).held > 0 THEN {Leaving(Me(t), {"upstream", "client"})} ELSE {}))

Socks5Relayed(t) == Step(t, "socks5_relay", {Leaving(Me(t), {"upstream", "client"})})

----------------------------------------------------------------------------
(* VLESS (plain, Vision, WebSocket), Trojan, VMess and Shadowsocks over a  *)
(* transport.  upstream_close takes the protocol stream, the encryption    *)
(* and the transport; a Vision session also frees its unpadder.            *)

Up(t) == {"upstream", "client"}
UpVision(t) == Up(t) \cup (IF Protocol(t) = "vision" THEN {"unpad"} ELSE {})

UpstreamConnect(t) ==
    Step(t, "connect", {Leaving(Refused(Me(t)), {"client"}),
                        [Me(t) EXCEPT !.at = "prepare", !.open = @ \cup {"upstream"}]})

\* vless_encryption_connect and relay_prepare_memory.
Prepare(t) ==
    Step(t, "prepare", {Leaving(Refused(Me(t)), Up(t)),
                        [Me(t) EXCEPT !.at = IF Protocol(t) = "vless" THEN "plain_send" ELSE "greet",
                                      !.open = @ \cup (UpVision(t) \ Up(t))]})

\* Trojan builds its request before it greets the client.
TrojanBuildFails(t) ==
    /\ Protocol(t) = "trojan"
    /\ Step(t, "greet", {Leaving(Refused(Me(t)), Up(t))})

\* The protocols that carry payload in their first packet greet the client
\* first, and read that payload unless sniffing has.
Greet(t) == Step(t, "greet", Greeted(Me(t), "first_read", UpVision(t)))

FirstRead(t) ==
    Step(t, "first_read", IF Me(t).held > 0 THEN {[Me(t) EXCEPT !.at = "first_send"]}
                          ELSE PayloadRead(Me(t), "first_send", UpVision(t)))

\* The first packet of a Vision or WebSocket session is built, reserved and
\* written, or the session leaves.
FirstSend(t) ==
    /\ Protocol(t) \in {"vision", "ws"}
    /\ Step(t, "first_send", {Forwarded(Me(t), "start"), Leaving(Me(t), UpVision(t))})

\* Trojan: the request and the payload in one packet, and a request fence.
TrojanSend(t) ==
    /\ Protocol(t) = "trojan"
    /\ Step(t, "first_send", {Forwarded(Me(t), "start"), Leaving(Me(t), Up(t))})

\* core_protocol_open of VMess and Shadowsocks is tried until the budget has
\* room for its buffers, the deadline passes or the client hangs up.
ProtocolOpen(t) ==
    /\ Protocol(t) = "vmess"
    /\ Step(t, "first_send", {Me(t), Forwarded(Me(t), "start"), Leaving(Me(t), Up(t))})

\* vless_send_request, then the payload that was sniffed.
PlainSend(t) ==
    Step(t, "plain_send", {Leaving(Refused(Me(t)), Up(t)), [Me(t) EXCEPT !.at = "plain_first"]})

PlainFirst(t) ==
    Step(t, "plain_first", {Forwarded(Me(t), "plain_greet")} \cup
                           (IF Me(t).held > 0 THEN {Leaving(Me(t), Up(t))} ELSE {}))

PlainGreet(t) == Step(t, "plain_greet", Greeted(Me(t), "start", Up(t)))

\* tls13_start_relay.
StartRelay(t) ==
    Step(t, "start", {Leaving(Me(t), UpVision(t)), [Me(t) EXCEPT !.at = "relay"]})

Relayed(t) == Step(t, "relay", {Leaving(Me(t), UpVision(t))})

\* client_worker: the context and the buffers are freed, the slot released.
Leave(t) ==
    /\ worker[t].at = "leave"
    /\ g_active_client_count' = release_client_slot
    /\ worker' = [worker EXCEPT ![t].at = "detach"]
    /\ UNCHANGED listener

Detach(t) == Step(t, "detach", {NoWorker})

Session(t) ==
    \/ Attach(t) \/ Negotiate(t) \/ SniffGreet(t) \/ SniffRead(t) \/ Route(t)
    \/ DirectOpen(t) \/ DirectGreet(t) \/ DirectSend(t) \/ DirectRelayed(t)
    \/ Delayed(t) \/ DelayedRead(t) \/ Socks5Connect(t) \/ Socks5Greet(t)
    \/ Socks5Send(t) \/ Socks5Relayed(t)
    \/ UpstreamConnect(t) \/ Prepare(t) \/ TrojanBuildFails(t) \/ Greet(t) \/ FirstRead(t)
    \/ FirstSend(t) \/ TrojanSend(t) \/ ProtocolOpen(t) \/ PlainSend(t) \/ PlainFirst(t) \/ PlainGreet(t)
    \/ StartRelay(t) \/ Relayed(t) \/ Leave(t) \/ Detach(t)

WorkerInit ==
    /\ g_active_client_count = 0
    /\ listener = [at |-> "accept", thread |-> NoThread, accepts |-> 0]
    /\ worker = [t \in Thread |-> NoWorker]

WorkerNext ==
    \/ Accept \/ AcceptFails \/ AcquireSlot \/ NoSlot \/ CreateFails \/ CreateThread
    \/ \E t \in Thread : Session(t)

WorkerSpec == WorkerInit /\ [][WorkerNext]_workerVars

----------------------------------------------------------------------------
\* Threads whose client still counts against MAX_CLIENT_CONNECTIONS.
Holding == {t \in Thread : worker[t].at \notin {"none", "accepted", "detach"}}

\* The slots taken are exactly those of the live sessions and of the client
\* main is about to hand over, whichever of acquire, calloc, pthread_create
\* or the session itself fails, and however accepts and endings interleave:
\* the core neither runs out of slots nor serves more clients than allowed.
SlotsExact ==
    /\ g_active_client_count = Cardinality(Holding) + (IF Listening("create") THEN 1 ELSE 0)
    /\ g_active_client_count <= MaxClients

\* Every way out of client_worker_run closes what the session had opened by
\* then, each thing once: the client's socket, the upstream, the bypass lease
\* of a direct route and the buffers of the Vision unpadder.
EverythingClosed ==
    \A t \in Thread :
        /\ ~worker[t].closedTwice
        /\ worker[t].at \in {"none", "leave", "detach"} => worker[t].open = {}

\* What a session holds, its slot, sockets, lease and buffers, is held once
\* and given back on every way out.
SessionsReleased == SlotsExact /\ EverythingClosed

\* A SOCKS client gets one reply: success or one failure, never a failure
\* after success; it gets none only when it could not be told or had been
\* turned away before its request; and a relay starts only after success.
OneReply ==
    \A t \in Thread : LET r == worker[t] IN
        /\ r.failures + (IF r.success THEN 1 ELSE 0) <= 1
        /\ r.at = "leave" /\ ~r.silent => r.success \/ r.failures = 1
        /\ r.at \in {"direct_relay", "socks5_relay", "relay"} => r.success

\* What was read from the client before the relay, to sniff a domain or to
\* fill a first packet, is sent upstream once and before anything else: when
\* the relay starts nothing is held back and nothing was sent twice.
FirstPayloadKept ==
    \A t \in Thread : LET r == worker[t] IN
        r.at \in {"direct_relay", "socks5_relay", "relay"} =>
            r.held = 0 /\ r.sent = r.read

\* What a client is told and what of it is passed on, whichever route is taken
\* and whatever fails on the way.
ClientServed == OneReply /\ FirstPayloadKept
=============================================================================
