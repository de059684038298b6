----------------------------- MODULE DirectRoute -----------------------------
(***************************************************************************)
(* routing_open_direct and routing_close_direct of src/routing.c, and the  *)
(* part of client_worker_run of src/main.c that uses them: a connection    *)
(* that bypasses the tunnel.  With a route controller, an external process *)
(* that is asked over a socket of its own for each request, an address is  *)
(* bypassed before it is dialled; the bypass is given back at once, or     *)
(* when the connection closes if the controller answered "OK hold".        *)
(*                                                                         *)
(* The controller counts its bypasses, as the code's pairing of ADD and    *)
(* REMOVE expects.  It may refuse, and it may be slower than the timeout   *)
(* of a request: then it serves the request later, its answer unread.      *)
(***************************************************************************)
EXTENDS Integers, Sequences, FiniteSets

CONSTANTS Clients,     \* client threads
          Addresses,   \* IPv4 addresses
          Answers,     \* what a name may resolve to: sequences of addresses
          NoAddress

ASSUME AnswersAssumption == Answers \subseteq Seq(Addresses) /\ NoAddress \notin Addresses
ASSUME ClientsAssumption == IsFiniteSet(Clients)

VARIABLES
  control,        \* route_control_enabled
  stage, left,       \* per client: where it is, addresses not tried yet
  ip, fd, lease,  \* the address tried, whether the socket is open, lease->bypass_ip
  after,          \* where release_bypass returns to
  request,        \* the exchange with the controller
  held,           \* the controller: bypasses of each address
  orphans,        \* requests whose client has given up, by operation and address
  stray           \* bypasses no client knows of

client == <<stage, left, ip, fd, lease, after>>
routeVars == <<control, client, request, held, orphans, stray>>

Operations == {"ADD", "REMOVE"}
Operation(c) == IF stage[c] = "adding" THEN "ADD" ELSE "REMOVE"

RouteInit ==
  /\ control \in BOOLEAN
  /\ stage = [c \in Clients |-> "idle"] /\ left = [c \in Clients |-> <<>>]
  /\ ip = [c \in Clients |-> NoAddress] /\ lease = [c \in Clients |-> NoAddress]
  /\ fd = [c \in Clients |-> FALSE] /\ after = [c \in Clients |-> "done"]
  /\ request = [c \in Clients |-> "none"]
  /\ held = [a \in Addresses |-> 0] /\ stray = [a \in Addresses |-> 0]
  /\ orphans = [o \in Operations |-> [a \in Addresses |-> 0]]

Go(c, where) == stage' = [stage EXCEPT ![c] = where]
Bump(f, a, n) == [f EXCEPT ![a] = @ + n]

-----------------------------------------------------------------------------
(* routing_open_direct *)

\* Without a controller the address is dialled like any other host.
DialHost(c) ==
  /\ stage[c] = "idle" /\ ~control
  /\ \/ Go(c, "open") /\ fd' = [fd EXCEPT ![c] = TRUE]
     \/ Go(c, "done") /\ UNCHANGED fd
  /\ UNCHANGED <<control, left, ip, lease, after, request, held, orphans, stray>>

\* The empty sequence: an IPv6 literal or a failed resolution.
Resolve(c) ==
  /\ stage[c] = "idle" /\ control
  /\ \E list \in Answers : left' = [left EXCEPT ![c] = list]
  /\ Go(c, "next")
  /\ UNCHANGED <<control, ip, fd, lease, after, request, held, orphans, stray>>

NextAddress(c) ==
  /\ stage[c] = "next"
  /\ IF left[c] = <<>>
     THEN Go(c, "done") /\ UNCHANGED <<left, ip, request>>
     ELSE /\ ip' = [ip EXCEPT ![c] = Head(left[c])]
          /\ left' = [left EXCEPT ![c] = Tail(@)]
          /\ Go(c, "adding") /\ request' = [request EXCEPT ![c] = "start"]
  /\ UNCHANGED <<control, fd, lease, after, held, orphans, stray>>

Release(c, then) ==
  /\ after' = [after EXCEPT ![c] = then]
  /\ request' = [request EXCEPT ![c] = "start"]
  /\ Go(c, "removing")

\* The ADD was refused or failed: the next address.
NotAdded(c) ==
  /\ stage[c] = "adding" /\ request[c] = "failed"
  /\ Go(c, "next") /\ request' = [request EXCEPT ![c] = "none"]
  /\ UNCHANGED <<control, left, ip, fd, lease, after, held, orphans, stray>>

\* The answer of the ADD arrives.
Answered(c) ==
  /\ stage[c] = "adding" /\ request[c] \in {"ok", "hold"} /\ Go(c, "dialing")
  /\ UNCHANGED <<control, left, ip, fd, lease, after, request, held, orphans, stray>>

Connected(c) ==
  /\ fd' = [fd EXCEPT ![c] = TRUE]
  /\ IF request[c] = "hold"
     THEN /\ lease' = [lease EXCEPT ![c] = ip[c]] /\ Go(c, "open")
          /\ request' = [request EXCEPT ![c] = "none"] /\ UNCHANGED after
     ELSE Release(c, "open") /\ UNCHANGED lease

\* The socket, if there was one, is closed again.
NotConnected_Forgets(c) ==   \* Mutant: the bypass of an address that failed stays.
  Go(c, "next") /\ request' = [request EXCEPT ![c] = "none"] /\ UNCHANGED <<fd, lease, after>>

NotConnected(c) == Release(c, "next") /\ UNCHANGED <<fd, lease>>

Connect(c) ==
  /\ stage[c] = "dialing"
  /\ Connected(c) \/ NotConnected(c)
  /\ UNCHANGED <<control, left, ip, held, orphans, stray>>

-----------------------------------------------------------------------------
(* routing_close_direct: after the relay, or when the client is gone before *)

CloseDirect(c) ==
  /\ stage[c] = "open"
  /\ fd' = [fd EXCEPT ![c] = FALSE]
  /\ IF lease[c] = NoAddress THEN Go(c, "done") /\ UNCHANGED <<ip, after, request>>
     ELSE ip' = [ip EXCEPT ![c] = lease[c]] /\ Release(c, "done")
  /\ UNCHANGED <<control, left, lease, held, orphans, stray>>

Forgotten(c) == IF after[c] = "done" THEN [lease EXCEPT ![c] = NoAddress] ELSE lease

\* release_bypass returns; nobody acts on its result.
Released(c) ==
  /\ stage[c] = "removing" /\ request[c] \in {"ok", "failed"}
  /\ lease' = Forgotten(c)
  /\ Go(c, after[c]) /\ request' = [request EXCEPT ![c] = "none"]
  /\ UNCHANGED <<control, left, ip, fd, after, held, orphans, stray>>

-----------------------------------------------------------------------------
(* update_bypass, and the controller *)

Failed(c) == request' = [request EXCEPT ![c] = "failed"]

Ask(c) ==
  /\ request[c] = "start" /\ request' = [request EXCEPT ![c] = "sent"]
  /\ UNCHANGED <<control, client, held, orphans, stray>>

\* No socket, no connection, the command not written, or (REMOVE) no deadline
\* scope: a bypass that was to be removed stays.
AskFails(c) ==
  /\ request[c] = "start" /\ Failed(c)
  /\ stray' = IF Operation(c) = "REMOVE" THEN Bump(stray, ip[c], 1) ELSE stray
  /\ UNCHANGED <<control, client, held, orphans>>

Serve(c) ==
  /\ request[c] = "sent"
  /\ IF Operation(c) = "ADD"
     THEN /\ held' = Bump(held, ip[c], 1)
          /\ \E reply \in {"ok", "hold"} : request' = [request EXCEPT ![c] = reply]
     ELSE held' = Bump(held, ip[c], -1) /\ request' = [request EXCEPT ![c] = "ok"]
  /\ UNCHANGED <<control, client, orphans, stray>>

Refuse(c) ==
  /\ request[c] = "sent" /\ Failed(c)
  /\ stray' = IF Operation(c) = "REMOVE" THEN Bump(stray, ip[c], 1) ELSE stray
  /\ UNCHANGED <<control, client, held, orphans>>

\* core_recv times out: the request is still on its way.
TimeOut(c) ==
  /\ request[c] = "sent" /\ Failed(c)
  /\ orphans' = [orphans EXCEPT ![Operation(c)][ip[c]] = @ + 1]
  /\ stray' = IF Operation(c) = "REMOVE" THEN Bump(stray, ip[c], 1) ELSE stray
  /\ UNCHANGED <<control, client, held>>

\* The controller served the request and the answer did not arrive.
AnswerLost(c) ==
  /\ stage[c] \in {"adding", "removing"} /\ request[c] \in {"ok", "hold"} /\ Failed(c)
  /\ stray' = IF Operation(c) = "ADD" THEN Bump(stray, ip[c], 1) ELSE stray
  /\ UNCHANGED <<control, client, held, orphans>>

ServeOrphan(o, a) ==
  LET n == IF o = "ADD" THEN 1 ELSE -1 IN
  /\ orphans[o][a] > 0 /\ orphans' = [orphans EXCEPT ![o][a] = @ - 1]
  /\ held' = Bump(held, a, n) /\ stray' = Bump(stray, a, n)
  /\ UNCHANGED <<control, client, request>>

Routing(c) ==
  \/ DialHost(c) \/ Resolve(c) \/ NextAddress(c) \/ NotAdded(c) \/ Answered(c) \/ Connect(c)
  \/ Released(c) \/ Ask(c) \/ AskFails(c) \/ TimeOut(c)
Controller(c) == Serve(c) \/ Refuse(c) \/ AnswerLost(c)

RouteNext ==
  \/ \E c \in Clients : Routing(c) \/ CloseDirect(c) \/ Controller(c)
  \/ \E o \in Operations, a \in Addresses : ServeOrphan(o, a)

RouteSpec == RouteInit /\ [][RouteNext]_routeVars
-----------------------------------------------------------------------------
\* Bypasses client c has been granted and not given back.
Owns(c, a) ==
  \/ lease[c] = a /\ stage[c] = "open"
  \/ ip[c] = a /\ stage[c] \in {"adding", "dialing"} /\ request[c] \in {"ok", "hold"}
  \/ ip[c] = a /\ stage[c] = "removing" /\ request[c] \in {"start", "sent"}

(* Every bypass the controller has belongs to exactly one connection that    *)
(* will give it back, except those the controller and the program disagree   *)
(* about because an exchange was refused or its answer lost: retries with    *)
(* the next address, a connection that failed and the two ways of release    *)
(* leak none and give none back twice.  A client that is through has neither *)
(* a socket nor a lease left.                                                *)
BypassesAccounted ==
  /\ \A a \in Addresses : held[a] = Cardinality({c \in Clients : Owns(c, a)}) + stray[a]
  /\ \A c \in Clients : stage[c] = "done" => ~fd[c] /\ lease[c] = NoAddress

(* While an address is dialled, and while a connection whose bypass is held  *)
(* is open, the address is bypassed at the controller, whatever the other    *)
(* clients of the same address release meanwhile.                            *)
BypassedWhileUsed ==
  \A c \in Clients :
     /\ stage[c] = "dialing" => held[ip[c]] > 0
     /\ stage[c] = "open" /\ lease[c] # NoAddress => held[lease[c]] > 0

\* Leases of the route controller: an address is bypassed once for every
\* connection that uses it and for each lease the controller could not take
\* back, it is bypassed as long as it is dialled or used, and a finished
\* client holds neither a socket nor a lease.
BypassesExact == BypassesAccounted /\ BypassedWhileUsed

(* Opening ends, with a connection or without, whatever the controller does, *)
(* and so does closing: each exchange is bounded by its timeout.             *)
OpeningEnds == \A c \in Clients : stage[c] \in {"next", "adding", "dialing", "removing"} ~> stage[c] \in {"open", "done"}
=============================================================================
