------------------------- MODULE DirectRouteProofs --------------------------
(***************************************************************************)
(* The bypasses of the route controller are accounted for, for any         *)
(* clients, addresses and answers.                                         *)
(***************************************************************************)
EXTENDS DirectRoute, FiniteSetTheorems, TLAPS

Stages == {"idle", "next", "adding", "dialing", "removing", "open", "done"}
Address == Addresses \cup {NoAddress}

RouteTypeOK ==
  /\ control \in BOOLEAN
  /\ stage \in [Clients -> Stages] /\ left \in [Clients -> Seq(Addresses)]
  /\ ip \in [Clients -> Address] /\ lease \in [Clients -> Address]
  /\ fd \in [Clients -> BOOLEAN] /\ after \in [Clients -> {"done", "next", "open"}]
  /\ request \in [Clients -> {"none", "start", "sent", "ok", "hold", "failed"}]
  /\ held \in [Addresses -> Int] /\ stray \in [Addresses -> Int]
  /\ orphans \in [Operations -> [Addresses -> Nat]]

\* Where a client is, what it asks the controller and what it holds.
Consistent(c) ==
  /\ stage[c] \in {"adding", "dialing", "removing"} => ip[c] \in Addresses
  /\ stage[c] \in {"idle", "next", "open", "done"} => request[c] = "none"
  /\ stage[c] = "adding" => request[c] # "none"
  /\ stage[c] = "dialing" => request[c] \in {"ok", "hold"}
  /\ stage[c] = "removing" => request[c] \notin {"none", "hold"}
  /\ fd[c] => stage[c] = "open" \/ (stage[c] = "removing" /\ after[c] = "open")
  /\ lease[c] # NoAddress => stage[c] = "open" \/ (stage[c] = "removing" /\ after[c] = "done")

Owners(a) == {c \in Clients : Owns(c, a)}
Balanced(a) == held[a] = Cardinality(Owners(a)) + stray[a]
\* A removal that nobody waits for is of a bypass that counts as stray.
Covered(a) == stray[a] >= orphans["REMOVE"][a]

RouteInv ==
  /\ RouteTypeOK
  /\ \A c \in Clients : Consistent(c)
  /\ \A a \in Addresses : Balanced(a) /\ Covered(a)

Bit(p) == IF p THEN 1 ELSE 0

\* The clients that own a bypass of an address can be counted.
LEMMA OwnersFinite ==
  \A a \in Addresses : IsFiniteSet(Owners(a)) /\ Cardinality(Owners(a)) \in Nat
<1> SUFFICES ASSUME NEW a \in Addresses
             PROVE  IsFiniteSet(Owners(a)) /\ Cardinality(Owners(a)) \in Nat
  OBVIOUS
<1>1. Owners(a) \subseteq Clients
  BY DEF Owners
<1>2. IsFiniteSet(Owners(a))
  BY <1>1, ClientsAssumption, FS_Subset
<1> QED
  BY <1>2, FS_CardinalityType

\* Owners are counted one client at a time.
LEMMA OwnersChange ==
  ASSUME NEW a \in Addresses, NEW c \in Clients,
         \A d \in Clients \ {c} : Owns(d, a)' <=> Owns(d, a)
  PROVE  Cardinality(Owners(a))' = Cardinality(Owners(a)) + Bit(Owns(c, a)') - Bit(Owns(c, a))
<1> DEFINE S == Owners(a)
           T == {d \in Clients : Owns(d, a)'}
<1>0. Cardinality(Owners(a))' = Cardinality(T)
  BY DEF Owners
<1>1. IsFiniteSet(S) /\ Cardinality(S) \in Nat
  BY OwnersFinite
<1>2. CASE Owns(c, a) /\ Owns(c, a)'
  <2>1. T = S
    BY <1>2 DEF Owners
  <2> QED
    BY <1>0, <1>1, <1>2, <2>1 DEF Bit
<1>3. CASE ~Owns(c, a) /\ ~Owns(c, a)'
  <2>1. T = S
    BY <1>3 DEF Owners
  <2>2. Bit(Owns(c, a)') = 0 /\ Bit(Owns(c, a)) = 0
    BY <1>3 DEF Bit
  <2> QED
    BY <1>0, <1>1, <2>1, <2>2
<1>4. CASE ~Owns(c, a) /\ Owns(c, a)'
  <2>1. T = S \cup {c} /\ c \notin S
    BY <1>4 DEF Owners
  <2>2. Cardinality(T) = Cardinality(S) + 1
    BY Zenon, <1>1, <2>1, FS_AddElement
  <2> QED
    BY <1>0, <1>1, <1>4, <2>2 DEF Bit
<1>5. CASE Owns(c, a) /\ ~Owns(c, a)'
  <2>1. T = S \ {c} /\ c \in S
    BY <1>5 DEF Owners
  <2>2. Cardinality(T) = Cardinality(S) - 1
    BY Zenon, <1>1, <2>1, FS_RemoveElement
  <2> QED
    BY <1>0, <1>1, <1>5, <2>2 DEF Bit
<1> QED
  BY <1>2, <1>3, <1>4, <1>5

\* Nothing of client d changes.
Rests(d) ==
  /\ stage'[d] = stage[d] /\ ip'[d] = ip[d] /\ lease'[d] = lease[d]
  /\ request'[d] = request[d] /\ fd'[d] = fd[d] /\ after'[d] = after[d]

\* A step of one client, or of the controller for it.
LEMMA ClientStep ==
  ASSUME RouteInv, NEW c \in Clients, RouteTypeOK', Consistent(c)',
         \A d \in Clients \ {c} : Rests(d),
         \A a \in Addresses :
            /\ held'[a] - stray'[a] = held[a] - stray[a] + Bit(Owns(c, a)') - Bit(Owns(c, a))
            /\ stray'[a] >= orphans'["REMOVE"][a]
  PROVE  RouteInv'
<1>1. ASSUME NEW d \in Clients PROVE Consistent(d)'
  <2>1. CASE d = c
    BY <2>1
  <2>2. CASE d # c
    BY <2>2 DEF RouteInv, Consistent, Rests
  <2> QED
    BY <2>1, <2>2
<1>2. ASSUME NEW a \in Addresses PROVE Balanced(a)' /\ Covered(a)'
  <2>1. \A d \in Clients \ {c} : Owns(d, a)' <=> Owns(d, a)
    BY DEF Rests, Owns
  <2>2. Cardinality(Owners(a))' = Cardinality(Owners(a)) + Bit(Owns(c, a)') - Bit(Owns(c, a))
    BY <2>1, OwnersChange
  <2>3. /\ held[a] \in Int /\ stray[a] \in Int /\ held'[a] \in Int /\ stray'[a] \in Int
        /\ Cardinality(Owners(a)) \in Nat
    BY OwnersFinite DEF RouteInv, RouteTypeOK
  <2>4. held[a] = Cardinality(Owners(a)) + stray[a]
    BY DEF RouteInv, Balanced
  <2>5. Bit(Owns(c, a)') \in Int /\ Bit(Owns(c, a)) \in Int
    BY DEF Bit
  <2>6. held'[a] = Cardinality(Owners(a))' + stray'[a]
    <3> HIDE DEF Bit
    <3> QED
      BY <2>2, <2>3, <2>4, <2>5
  <2> QED
    BY <2>6 DEF Balanced, Covered
<1> QED
  BY <1>1, <1>2 DEF RouteInv

\* Nobody has asked the controller for anything yet.
LEMMA RouteInitInv == RouteInit => RouteInv
<1> SUFFICES ASSUME RouteInit PROVE RouteInv
  OBVIOUS
<1>1. RouteTypeOK
  BY DEF RouteInit, RouteTypeOK, Stages, Address, Operations
<1>2. \A c \in Clients : Consistent(c)
  BY DEF RouteInit, Consistent
<1>3. ASSUME NEW a \in Addresses PROVE Balanced(a) /\ Covered(a)
  <2>1. Owners(a) = {}
    BY AnswersAssumption DEF Owners, Owns, RouteInit
  <2>2. Cardinality(Owners(a)) = 0
    BY <2>1, FS_EmptySet
  <2> QED
    BY <2>2 DEF RouteInit, Balanced, Covered, Operations
<1> QED
  BY <1>1, <1>2, <1>3 DEF RouteInv

\* Steps of the client that leave the controller alone.
LEMMA QuietStep ==
  ASSUME RouteInv, NEW c \in Clients, RouteTypeOK', Consistent(c)',
         \A d \in Clients \ {c} : Rests(d), UNCHANGED <<held, orphans, stray>>,
         \A a \in Addresses : Owns(c, a)' <=> Owns(c, a)
  PROVE  RouteInv'
<1> SUFFICES ASSUME NEW a \in Addresses
             PROVE  /\ held'[a] - stray'[a] = held[a] - stray[a] + Bit(Owns(c, a)') - Bit(Owns(c, a))
                    /\ stray'[a] >= orphans'["REMOVE"][a]
  BY ClientStep
<1>1. Covered(a) /\ held[a] \in Int /\ stray[a] \in Int
  BY DEF RouteInv, RouteTypeOK
<1>2. Bit(Owns(c, a)') = Bit(Owns(c, a)) /\ Bit(Owns(c, a)) \in Int
  BY DEF Bit
<1> HIDE DEF Bit
<1> QED
  BY <1>1, <1>2 DEF Covered

\* routing_open_direct before it asks: the client owns no bypass.
LEMMA OpeningKeeps ==
  ASSUME RouteInv, NEW c \in Clients, DialHost(c) \/ Resolve(c) \/ NextAddress(c)
  PROVE  RouteInv'
<1>0. /\ RouteTypeOK /\ Consistent(c) /\ request[c] = "none" /\ lease[c] = NoAddress
      /\ stage[c] \in {"idle", "next"}
  BY DEF RouteInv, Consistent, DialHost, Resolve, NextAddress
<1>1. UNCHANGED <<control, lease, after, held, orphans, stray>>
  BY DEF DialHost, Resolve, NextAddress
<1>2. \A d \in Clients \ {c} : Rests(d)
  BY <1>0 DEF DialHost, Resolve, NextAddress, Go, Rests, RouteTypeOK
<1>3. \A a \in Addresses : ~Owns(c, a)
  BY <1>0 DEF Owns
<1>4. CASE DialHost(c)
  <2>1. RouteTypeOK'
    BY Zenon, <1>0, <1>1, <1>4 DEF DialHost, Go, RouteTypeOK, Stages
  <2>2. Consistent(c)' /\ stage'[c] \in {"open", "done"}
    BY <1>0, <1>1, <1>4 DEF DialHost, Go, Consistent, RouteTypeOK
  <2>3. \A a \in Addresses : ~Owns(c, a)'
    BY <1>0, <1>1, <2>2, AnswersAssumption DEF Owns
  <2> QED
    BY <1>1, <1>2, <1>3, <2>1, <2>2, <2>3, QuietStep
<1>5. CASE Resolve(c)
  <2>1. RouteTypeOK'
    BY <1>0, <1>1, <1>5, AnswersAssumption DEF Resolve, Go, RouteTypeOK, Stages
  <2>2. Consistent(c)' /\ stage'[c] = "next"
    BY <1>0, <1>1, <1>5 DEF Resolve, Go, Consistent, RouteTypeOK
  <2>3. \A a \in Addresses : ~Owns(c, a)'
    BY <2>2 DEF Owns
  <2> QED
    BY <1>1, <1>2, <1>3, <2>1, <2>2, <2>3, QuietStep
<1>6. CASE NextAddress(c) /\ left[c] = <<>>
  <2>1. stage' = [stage EXCEPT ![c] = "done"] /\ UNCHANGED <<left, ip, request, fd>>
    BY <1>6 DEF NextAddress, Go
  <2>2. RouteTypeOK'
    BY <1>0, <1>1, <2>1 DEF RouteTypeOK, Stages
  <2>3. Consistent(c)' /\ stage'[c] = "done"
    BY <1>0, <1>1, <1>6, <2>1 DEF Consistent, RouteTypeOK
  <2>4. \A a \in Addresses : ~Owns(c, a)'
    BY <2>3 DEF Owns
  <2> QED
    BY <1>1, <1>2, <1>3, <2>2, <2>3, <2>4, QuietStep
<1>7. CASE NextAddress(c) /\ left[c] # <<>>
  <2>1. /\ ip' = [ip EXCEPT ![c] = Head(left[c])] /\ left' = [left EXCEPT ![c] = Tail(@)]
        /\ stage' = [stage EXCEPT ![c] = "adding"] /\ request' = [request EXCEPT ![c] = "start"]
        /\ fd' = fd
    BY <1>7 DEF NextAddress, Go
  <2>2. Head(left[c]) \in Addresses /\ Tail(left[c]) \in Seq(Addresses)
    BY <1>0, <1>7 DEF RouteTypeOK
  <2>3. RouteTypeOK'
    BY <1>0, <1>1, <2>1, <2>2 DEF RouteTypeOK, Stages, Address
  <2>4. Consistent(c)' /\ stage'[c] = "adding" /\ request'[c] = "start"
    BY <1>0, <1>1, <1>7, <2>1, <2>2 DEF Consistent, RouteTypeOK
  <2>5. \A a \in Addresses : ~Owns(c, a)'
    BY <2>4 DEF Owns
  <2> QED
    BY <1>1, <1>2, <1>3, <2>3, <2>4, <2>5, QuietStep
<1> QED
  BY <1>4, <1>5, <1>6, <1>7

\* routing_open_direct looks at the answer to ROUTE_DIRECT_ADD.
LEMMA AddedKeeps ==
  ASSUME RouteInv, NEW c \in Clients, NotAdded(c) \/ Answered(c)
  PROVE  RouteInv'
<1>0. RouteTypeOK /\ Consistent(c) /\ stage[c] = "adding"
  BY DEF RouteInv, NotAdded, Answered
<1>1. UNCHANGED <<control, left, ip, fd, lease, after, held, orphans, stray>>
  BY DEF NotAdded, Answered
<1>2. \A d \in Clients \ {c} : Rests(d)
  BY <1>0, <1>1 DEF NotAdded, Answered, Go, Rests, RouteTypeOK
<1>3. RouteTypeOK'
  BY Zenon, <1>0, <1>1 DEF NotAdded, Answered, Go, RouteTypeOK, Stages
<1>4. Consistent(c)'
  BY <1>0, <1>1 DEF NotAdded, Answered, Go, Consistent, RouteTypeOK
<1>5. \A a \in Addresses : Owns(c, a)' <=> Owns(c, a)
  BY <1>0, <1>1 DEF NotAdded, Answered, Go, Owns, RouteTypeOK
<1> QED
  BY <1>1, <1>2, <1>3, <1>4, <1>5, QuietStep

\* The connection is opened or not; the bypass is kept as a lease or is to be
\* given back.
LEMMA ConnectKeeps ==
  ASSUME RouteInv, NEW c \in Clients, Connect(c)
  PROVE  RouteInv'
<1>0. /\ RouteTypeOK /\ Consistent(c) /\ stage[c] = "dialing" /\ ip[c] \in Addresses
      /\ request[c] \in {"ok", "hold"} /\ lease[c] = NoAddress /\ ~fd[c]
  BY DEF RouteInv, Connect, Consistent
<1>1. UNCHANGED <<control, left, ip, held, orphans, stray>>
  BY DEF Connect
<1>2. \A a \in Addresses : Owns(c, a) <=> ip[c] = a
  BY <1>0 DEF Owns
<1>3. CASE /\ fd' = [fd EXCEPT ![c] = TRUE] /\ lease' = [lease EXCEPT ![c] = ip[c]]
           /\ stage' = [stage EXCEPT ![c] = "open"]
           /\ request' = [request EXCEPT ![c] = "none"] /\ UNCHANGED after
  <2>1. RouteTypeOK'
    BY <1>0, <1>1, <1>3 DEF RouteTypeOK, Stages
  <2>2. \A d \in Clients \ {c} : Rests(d)
    BY <1>0, <1>1, <1>3 DEF Rests, RouteTypeOK
  <2>3. Consistent(c)' /\ stage'[c] = "open" /\ lease'[c] = ip[c]
    BY <1>0, <1>1, <1>3 DEF Consistent, RouteTypeOK
  <2>4. \A a \in Addresses : Owns(c, a)' <=> ip[c] = a
    BY <2>3 DEF Owns
  <2> QED
    BY <1>1, <1>2, <2>1, <2>2, <2>3, <2>4, QuietStep
<1>4. ASSUME NEW then \in {"open", "next"}, after' = [after EXCEPT ![c] = then],
             request' = [request EXCEPT ![c] = "start"], stage' = [stage EXCEPT ![c] = "removing"],
             fd' = [fd EXCEPT ![c] = (then = "open")], UNCHANGED lease
      PROVE  RouteInv'
  <2>1. RouteTypeOK'
    <3>1. (then = "open") \in BOOLEAN
      OBVIOUS
    <3> QED
      BY <1>0, <1>1, <1>4, <3>1 DEF RouteTypeOK, Stages
  <2>2. \A d \in Clients \ {c} : Rests(d)
    BY <1>0, <1>1, <1>4 DEF Rests, RouteTypeOK
  <2>3. /\ stage'[c] = "removing" /\ request'[c] = "start" /\ after'[c] = then
        /\ fd'[c] = (then = "open") /\ lease'[c] = NoAddress /\ ip'[c] = ip[c]
    BY <1>0, <1>1, <1>4 DEF RouteTypeOK
  <2>4. Consistent(c)'
    BY Zenon, <1>0, <2>3 DEF Consistent
  <2>5. \A a \in Addresses : Owns(c, a)' <=> ip[c] = a
    BY <2>3 DEF Owns
  <2> QED
    BY <1>1, <1>2, <2>1, <2>2, <2>4, <2>5, QuietStep
<1>5. CASE Connected(c) /\ request[c] # "hold"
  <2>1. fd' = [fd EXCEPT ![c] = ("open" = "open")]
    BY Zenon, <1>5 DEF Connected
  <2> QED
    BY Zenon, <1>4, <1>5, <2>1 DEF Connected, Release, Go
<1>6. CASE NotConnected(c)
  <2>1. fd' = [fd EXCEPT ![c] = ("next" = "open")]
    BY <1>0, <1>6 DEF NotConnected, RouteTypeOK
  <2> QED
    BY Zenon, <1>4, <1>6, <2>1 DEF NotConnected, Release, Go
<1> QED
  BY <1>3, <1>5, <1>6 DEF Connect, Connected, Go

\* routing_close_direct starts to give the lease back, and what follows the
\* answer.
LEMMA ClosingKeeps ==
  ASSUME RouteInv, NEW c \in Clients, CloseDirect(c) \/ Released(c)
  PROVE  RouteInv'
<1>0. RouteTypeOK /\ Consistent(c)
  BY DEF RouteInv
<1>1. UNCHANGED <<control, left, held, orphans, stray>>
  BY DEF CloseDirect, Released
<1>2. CASE CloseDirect(c) /\ lease[c] = NoAddress
  <2>1. /\ stage[c] = "open" /\ stage' = [stage EXCEPT ![c] = "done"]
        /\ fd' = [fd EXCEPT ![c] = FALSE] /\ UNCHANGED <<ip, after, request, lease>>
    BY <1>2 DEF CloseDirect, Go
  <2>2. RouteTypeOK'
    BY <1>0, <1>1, <2>1 DEF RouteTypeOK, Stages
  <2>3. \A d \in Clients \ {c} : Rests(d)
    BY <1>0, <2>1 DEF Rests, RouteTypeOK
  <2>4. Consistent(c)' /\ stage'[c] = "done"
    BY <1>0, <1>2, <2>1 DEF Consistent, RouteTypeOK
  <2>5. \A a \in Addresses : ~Owns(c, a) /\ ~Owns(c, a)'
    BY <1>2, <2>1, <2>4, AnswersAssumption DEF Owns
  <2> QED
    BY <1>1, <2>2, <2>3, <2>4, <2>5, QuietStep
<1>3. CASE CloseDirect(c) /\ lease[c] # NoAddress
  <2>1. /\ stage[c] = "open" /\ stage' = [stage EXCEPT ![c] = "removing"]
        /\ fd' = [fd EXCEPT ![c] = FALSE] /\ ip' = [ip EXCEPT ![c] = lease[c]]
        /\ after' = [after EXCEPT ![c] = "done"] /\ request' = [request EXCEPT ![c] = "start"]
        /\ lease' = lease
    BY <1>3 DEF CloseDirect, Release, Go
  <2>2. lease[c] \in Addresses
    BY <1>0, <1>3 DEF RouteTypeOK, Address
  <2>3. RouteTypeOK'
    BY <1>0, <1>1, <2>1, <2>2 DEF RouteTypeOK, Stages
  <2>4. \A d \in Clients \ {c} : Rests(d)
    BY <1>0, <2>1 DEF Rests, RouteTypeOK
  <2>5. /\ stage'[c] = "removing" /\ fd'[c] = FALSE /\ ip'[c] = lease[c] /\ after'[c] = "done"
        /\ request'[c] = "start"
    BY <1>0, <2>1 DEF RouteTypeOK
  <2>6. Consistent(c)'
    BY <2>2, <2>5 DEF Consistent
  <2>7. \A a \in Addresses : (Owns(c, a) <=> lease[c] = a) /\ (Owns(c, a)' <=> lease[c] = a)
    BY <2>1, <2>5 DEF Owns
  <2> QED
    BY <1>1, <2>3, <2>4, <2>6, <2>7, QuietStep
<1>4. CASE Released(c)
  <2>1. /\ stage[c] = "removing" /\ request[c] \in {"ok", "failed"}
        /\ stage' = [stage EXCEPT ![c] = after[c]] /\ request' = [request EXCEPT ![c] = "none"]
        /\ UNCHANGED <<ip, fd, after>>
        /\ lease' = IF after[c] = "done" THEN [lease EXCEPT ![c] = NoAddress] ELSE lease
    BY <1>4 DEF Released, Go, Forgotten
  <2>2. after[c] \in {"done", "next", "open"} /\ lease'[c] = NoAddress
    BY <1>0, <2>1 DEF RouteTypeOK, Consistent
  <2>3. RouteTypeOK'
    BY <1>0, <1>1, <2>1, <2>2 DEF RouteTypeOK, Stages, Address
  <2>4. \A d \in Clients \ {c} : Rests(d)
    BY <1>0, <2>1 DEF Rests, RouteTypeOK
  <2>5. stage'[c] = after[c] /\ request'[c] = "none"
    BY <1>0, <2>1 DEF RouteTypeOK
  <2>6. Consistent(c)'
    BY <1>0, <2>1, <2>2, <2>5 DEF Consistent
  <2>7. \A a \in Addresses : ~Owns(c, a) /\ ~Owns(c, a)'
    BY <2>1, <2>2, <2>5, AnswersAssumption DEF Owns
  <2> QED
    BY <1>1, <2>3, <2>4, <2>6, <2>7, QuietStep
<1> QED
  BY <1>2, <1>3, <1>4

\* An exchange that changes no counter.
LEMMA NoBump ==
  ASSUME NEW f \in [Addresses -> Int], NEW a \in Addresses
  PROVE  Bump(f, a, 0) = f
BY DEF Bump

\* Whether the bypass of client c's address is its own, during an exchange.
Keeps(where, what) ==
  IF where = "adding" THEN what \in {"ok", "hold"} ELSE what \in {"start", "sent"}

\* An exchange with the controller goes on to r: the controller gives h
\* bypasses, and the program loses sight of g.
Exchange(c, r, h, g) ==
  /\ stage[c] \in {"adding", "removing"} /\ UNCHANGED <<control, client>>
  /\ r \in {"sent", "ok", "hold", "failed"} /\ (r = "hold" => stage[c] = "adding")
  /\ request' = [request EXCEPT ![c] = r]
  /\ h \in Int /\ g \in Int
  /\ held' = Bump(held, ip[c], h) /\ stray' = Bump(stray, ip[c], g)
  /\ h - g = Bit(Keeps(stage[c], r)) - Bit(Keeps(stage[c], request[c]))
  /\ orphans' \in [Operations -> [Addresses -> Nat]]
  /\ \A a \in Addresses : stray'[a] >= orphans'["REMOVE"][a]

\* A step of an exchange with the controller moves the bypass between its
\* owner and the strays as much as it changes the controller's count.
LEMMA ExchangeStep ==
  ASSUME RouteInv, NEW c \in Clients, NEW r, NEW h, NEW g, Exchange(c, r, h, g)
  PROVE  RouteInv'
<1> USE DEF Exchange
<1>0. RouteTypeOK /\ Consistent(c) /\ ip[c] \in Addresses
  BY DEF RouteInv, Consistent
<1>1. UNCHANGED <<stage, left, ip, fd, lease, after>>
  BY DEF client
<1>2. /\ \A a \in Addresses : held'[a] = (IF a = ip[c] THEN held[a] + h ELSE held[a])
      /\ \A a \in Addresses : stray'[a] = (IF a = ip[c] THEN stray[a] + g ELSE stray[a])
      /\ held' \in [Addresses -> Int] /\ stray' \in [Addresses -> Int]
  BY <1>0 DEF RouteTypeOK, Bump
<1>3. request' \in [Clients -> {"none", "start", "sent", "ok", "hold", "failed"}] /\ request'[c] = r
  BY <1>0 DEF RouteTypeOK
<1>4. RouteTypeOK'
  BY <1>0, <1>1, <1>2, <1>3 DEF RouteTypeOK
<1>5. Consistent(c)'
  BY <1>0, <1>1, <1>3 DEF Consistent
<1>6. \A d \in Clients \ {c} : Rests(d)
  BY <1>0, <1>1 DEF Rests, RouteTypeOK
<1>7. ASSUME NEW a \in Addresses
      PROVE  held'[a] - stray'[a] = held[a] - stray[a] + Bit(Owns(c, a)') - Bit(Owns(c, a))
  <2>1. held[a] \in Int /\ stray[a] \in Int
    BY <1>0 DEF RouteTypeOK
  <2>2. CASE a = ip[c]
    <3>1. Owns(c, a) <=> Keeps(stage[c], request[c])
      BY <1>0, <2>2 DEF Owns, Keeps
    <3>2. Owns(c, a)' <=> Keeps(stage[c], r)
      BY <1>1, <1>3, <2>2 DEF Owns, Keeps
    <3>3. Bit(Owns(c, a)) = Bit(Keeps(stage[c], request[c])) /\ Bit(Owns(c, a)) \in Int
      BY <3>1 DEF Bit
    <3>4. Bit(Owns(c, a)') = Bit(Keeps(stage[c], r)) /\ Bit(Owns(c, a)') \in Int
      BY <3>2 DEF Bit
    <3>5. held'[a] = held[a] + h /\ stray'[a] = stray[a] + g
      BY <1>2, <2>2
    <3> QED
      BY <2>1, <3>3, <3>4, <3>5
  <2>3. CASE a # ip[c]
    <3>1. ~Owns(c, a) /\ ~Owns(c, a)'
      BY <1>0, <1>1, <2>3 DEF Owns
    <3>2. Bit(Owns(c, a)) = 0 /\ Bit(Owns(c, a)') = 0
      BY <3>1 DEF Bit
    <3>3. held'[a] = held[a] /\ stray'[a] = stray[a]
      BY <1>2, <2>3
    <3> QED
      BY <2>1, <3>2, <3>3
  <2> QED
    BY <2>2, <2>3
<1> QED
  BY <1>4, <1>5, <1>6, <1>7, ClientStep

\* A client in an exchange, the bypass it is about, and the counters.
Exchanging(c) ==
  /\ stage[c] \in {"adding", "removing"} /\ ip[c] \in Addresses
  /\ held = Bump(held, ip[c], 0) /\ stray = Bump(stray, ip[c], 0)
  /\ stray \in [Addresses -> Int] /\ orphans \in [Operations -> [Addresses -> Nat]]
CoveredAll == \A a \in Addresses : stray[a] >= orphans["REMOVE"][a]

\* Only a client that adds or removes a bypass has a request with the
\* controller.
LEMMA InExchange ==
  ASSUME RouteInv, NEW c \in Clients,
         request[c] \in {"start", "sent"} \/ stage[c] \in {"adding", "removing"}
  PROVE  Exchanging(c) /\ CoveredAll
<1>0. RouteTypeOK /\ Consistent(c)
  BY Zenon DEF RouteInv
<1>1. /\ stage[c] \in Stages /\ held \in [Addresses -> Int] /\ stray \in [Addresses -> Int]
      /\ orphans \in [Operations -> [Addresses -> Nat]]
  BY Zenon, <1>0 DEF RouteTypeOK
<1>2. stage[c] \in {"adding", "removing"} /\ ip[c] \in Addresses
  BY <1>0, <1>1 DEF Consistent, Stages
<1>3. held = Bump(held, ip[c], 0) /\ stray = Bump(stray, ip[c], 0)
  BY Zenon, <1>1, <1>2, NoBump
<1>4. CoveredAll
  BY Zenon DEF RouteInv, Covered, CoveredAll
<1> QED
  BY Zenon, <1>1, <1>2, <1>3, <1>4 DEF Exchanging

\* More bypasses out of sight cover the removals as before.
LEMMA MoreStray ==
  ASSUME NEW c \in Clients, Exchanging(c), CoveredAll, UNCHANGED orphans,
         stray' = stray \/ stray' = Bump(stray, ip[c], 1)
  PROVE  CoveredAll'
<1> SUFFICES ASSUME NEW a \in Addresses PROVE stray'[a] >= orphans["REMOVE"][a]
  BY Zenon DEF CoveredAll
<1>1. stray[a] \in Int /\ orphans["REMOVE"][a] \in Nat /\ stray[a] >= orphans["REMOVE"][a]
  <2>1. stray \in [Addresses -> Int] /\ orphans \in [Operations -> [Addresses -> Nat]] /\ "REMOVE" \in Operations
    BY Zenon DEF Exchanging, Operations
  <2> QED
    BY Zenon, <2>1 DEF CoveredAll
<1>2. stray'[a] = stray[a] \/ stray'[a] = stray[a] + 1
  <2>1. stray \in [Addresses -> Int]
    BY Zenon DEF Exchanging
  <2> QED
    BY <2>1 DEF Bump
<1> QED
  BY <1>1, <1>2

\* The command is written.
LEMMA AskKeeps ==
  ASSUME RouteInv, NEW c \in Clients, Ask(c)
  PROVE  RouteInv'
<1>1. /\ request[c] = "start" /\ request' = [request EXCEPT ![c] = "sent"]
      /\ UNCHANGED <<held, stray, orphans>> /\ UNCHANGED <<control, client>>
  BY Zenon DEF Ask
<1>2. Exchanging(c) /\ CoveredAll
  BY Zenon, <1>1, InExchange
<1>3. 0 - 0 = Bit(Keeps(stage[c], "sent")) - Bit(Keeps(stage[c], request[c]))
  <2>1. Keeps(stage[c], "sent") <=> Keeps(stage[c], request[c])
    BY <1>1 DEF Keeps
  <2> QED
    BY <2>1 DEF Bit
<1>4. "sent" \in {"sent", "ok", "hold", "failed"} /\ "sent" # "hold" /\ 0 \in Int
  OBVIOUS
<1>5. Exchange(c, "sent", 0, 0)
  BY Zenon, <1>1, <1>2, <1>3, <1>4 DEF Exchange, Exchanging, CoveredAll
<1> QED
  BY Zenon, <1>5, ExchangeStep

\* A request that failed before it was served: a bypass that was to be removed
\* is out of sight.
LEMMA FailKeeps ==
  ASSUME RouteInv, NEW c \in Clients, Exchanging(c), UNCHANGED <<control, client>>,
         request[c] \in {"start", "sent"}, request' = [request EXCEPT ![c] = "failed"], held' = held,
         stray' = IF Operation(c) = "REMOVE" THEN Bump(stray, ip[c], 1) ELSE stray,
         orphans' \in [Operations -> [Addresses -> Nat]], CoveredAll'
  PROVE  RouteInv'
<1>1. "failed" \in {"sent", "ok", "hold", "failed"} /\ "failed" # "hold" /\ 0 \in Int /\ 1 \in Int
  OBVIOUS
<1>2. stage[c] \in {"adding", "removing"} /\ held' = Bump(held, ip[c], 0) /\ stray = Bump(stray, ip[c], 0)
  BY Zenon DEF Exchanging
<1>3. \A a \in Addresses : stray'[a] >= orphans'["REMOVE"][a]
  BY Zenon DEF CoveredAll
<1>4. CASE stage[c] = "adding"
  <2>1. stray' = Bump(stray, ip[c], 0)
    <3>1. Operation(c) # "REMOVE"
      BY <1>4 DEF Operation
    <3> QED
      BY Zenon, <1>2, <3>1
  <2>2. ~Keeps(stage[c], "failed") /\ ~Keeps(stage[c], request[c])
    BY <1>4 DEF Keeps
  <2>3. 0 - 0 = Bit(Keeps(stage[c], "failed")) - Bit(Keeps(stage[c], request[c]))
    BY <2>2 DEF Bit
  <2>4. Exchange(c, "failed", 0, 0)
    BY Zenon, <1>1, <1>2, <1>3, <2>1, <2>3 DEF Exchange
  <2> QED
    BY Zenon, <2>4, ExchangeStep
<1>5. CASE stage[c] = "removing"
  <2>1. stray' = Bump(stray, ip[c], 1)
    <3>1. Operation(c) = "REMOVE"
      BY <1>5 DEF Operation
    <3> QED
      BY Zenon, <3>1
  <2>2. ~Keeps(stage[c], "failed") /\ Keeps(stage[c], request[c])
    BY <1>5 DEF Keeps
  <2>3. 0 - 1 = Bit(Keeps(stage[c], "failed")) - Bit(Keeps(stage[c], request[c]))
    BY <2>2 DEF Bit
  <2>4. Exchange(c, "failed", 0, 1)
    BY Zenon, <1>1, <1>2, <1>3, <2>1, <2>3 DEF Exchange
  <2> QED
    BY Zenon, <2>4, ExchangeStep
<1> QED
  BY Zenon, <1>2, <1>4, <1>5

\* The command is not written, or the controller refuses it.
LEMMA RefusedKeeps ==
  ASSUME RouteInv, NEW c \in Clients, AskFails(c) \/ Refuse(c)
  PROVE  RouteInv'
<1>1. /\ request[c] \in {"start", "sent"} /\ request' = [request EXCEPT ![c] = "failed"]
      /\ stray' = IF Operation(c) = "REMOVE" THEN Bump(stray, ip[c], 1) ELSE stray
      /\ held' = held /\ orphans' = orphans /\ UNCHANGED <<control, client>>
  BY Zenon DEF AskFails, Refuse, Failed
<1>2. Exchanging(c) /\ CoveredAll
  BY Zenon, <1>1, InExchange
<1>3. CoveredAll'
  BY Zenon, <1>1, <1>2, MoreStray
<1>4. orphans' \in [Operations -> [Addresses -> Nat]]
  BY Zenon, <1>1, <1>2 DEF Exchanging
<1> QED
  BY Zenon, <1>1, <1>2, <1>3, <1>4, FailKeeps

\* The answer is too late: the request goes on without the client.
LEMMA TimeOutKeeps ==
  ASSUME RouteInv, NEW c \in Clients, TimeOut(c)
  PROVE  RouteInv'
<1> DEFINE o == Operation(c)
<1>1. /\ request[c] \in {"start", "sent"} /\ request' = [request EXCEPT ![c] = "failed"]
      /\ stray' = IF o = "REMOVE" THEN Bump(stray, ip[c], 1) ELSE stray
      /\ held' = held /\ orphans' = [orphans EXCEPT ![o][ip[c]] = @ + 1] /\ UNCHANGED <<control, client>>
  BY Zenon DEF TimeOut, Failed
<1>2. Exchanging(c) /\ CoveredAll
  BY Zenon, <1>1, InExchange
<1>3. o \in Operations /\ "REMOVE" \in Operations
  BY Zenon DEF Operation, Operations
<1>4. ip[c] \in Addresses /\ stray \in [Addresses -> Int] /\ orphans \in [Operations -> [Addresses -> Nat]]
  BY Zenon, <1>2 DEF Exchanging
<1> HIDE DEF o
<1>5. orphans' \in [Operations -> [Addresses -> Nat]]
  BY <1>1, <1>3, <1>4
<1>6. ASSUME NEW a \in Addresses PROVE stray'[a] >= orphans'["REMOVE"][a]
  <2>1. stray[a] \in Int /\ orphans["REMOVE"][a] \in Nat /\ stray[a] >= orphans["REMOVE"][a]
    BY Zenon, <1>2, <1>3, <1>4 DEF CoveredAll
  <2>2. CASE o = "REMOVE" /\ a = ip[c]
    <3>1. stray'[a] = stray[a] + 1
      BY <1>1, <1>4, <2>2 DEF Bump
    <3>2. orphans'["REMOVE"][a] = orphans["REMOVE"][a] + 1
      BY <1>1, <1>3, <1>4, <2>2
    <3> QED
      BY <2>1, <3>1, <3>2
  <2>3. CASE ~(o = "REMOVE" /\ a = ip[c])
    <3>1. stray'[a] = stray[a]
      BY <1>1, <1>4, <2>3 DEF Bump
    <3>2. orphans'["REMOVE"][a] = orphans["REMOVE"][a]
      BY <1>1, <1>3, <1>4, <2>3
    <3> QED
      BY <2>1, <3>1, <3>2
  <2> QED
    BY Zenon, <2>2, <2>3
<1>7. CoveredAll'
  BY Zenon, <1>6 DEF CoveredAll
<1> QED
  BY Zenon, <1>1, <1>2, <1>5, <1>7, FailKeeps DEF o

\* The controller serves the request: the bypass is the client's, or is gone.
LEMMA ServeKeeps ==
  ASSUME RouteInv, NEW c \in Clients, Serve(c)
  PROVE  RouteInv'
<1>1. request[c] = "sent" /\ UNCHANGED <<control, client>> /\ UNCHANGED <<orphans, stray>>
  BY Zenon DEF Serve
<1>2. \/ /\ Operation(c) = "ADD" /\ held' = Bump(held, ip[c], 1)
         /\ \E reply \in {"ok", "hold"} : request' = [request EXCEPT ![c] = reply]
      \/ Operation(c) # "ADD" /\ held' = Bump(held, ip[c], -1) /\ request' = [request EXCEPT ![c] = "ok"]
  BY Zenon DEF Serve
<1>3. Exchanging(c) /\ CoveredAll
  BY Zenon, <1>1, InExchange
<1>4. /\ stage[c] \in {"adding", "removing"} /\ stray' = Bump(stray, ip[c], 0)
      /\ orphans' \in [Operations -> [Addresses -> Nat]]
      /\ \A a \in Addresses : stray'[a] >= orphans'["REMOVE"][a]
  BY Zenon, <1>1, <1>3 DEF Exchanging, CoveredAll
<1>5. CASE Operation(c) = "ADD"
  <2>1. stage[c] = "adding"
    BY <1>5 DEF Operation
  <2>2. PICK r \in {"ok", "hold"} : request' = [request EXCEPT ![c] = r]
    BY Zenon, <1>2, <1>5
  <2>3. Keeps(stage[c], r) /\ ~Keeps(stage[c], request[c])
    BY <1>1, <2>1, <2>2 DEF Keeps
  <2>4. 1 - 0 = Bit(Keeps(stage[c], r)) - Bit(Keeps(stage[c], request[c]))
    BY <2>3 DEF Bit
  <2>5. r \in {"sent", "ok", "hold", "failed"} /\ 0 \in Int /\ 1 \in Int
    BY <2>2
  <2>6. Exchange(c, r, 1, 0)
    BY Zenon, <1>1, <1>2, <1>4, <1>5, <2>1, <2>2, <2>4, <2>5 DEF Exchange
  <2> QED
    BY Zenon, <2>6, ExchangeStep
<1>6. CASE Operation(c) # "ADD"
  <2>1. stage[c] = "removing"
    BY <1>4, <1>6 DEF Operation
  <2>2. ~Keeps(stage[c], "ok") /\ Keeps(stage[c], request[c])
    BY <1>1, <2>1 DEF Keeps
  <2>3. -1 - 0 = Bit(Keeps(stage[c], "ok")) - Bit(Keeps(stage[c], request[c]))
    BY <2>2 DEF Bit
  <2>4. "ok" \in {"sent", "ok", "hold", "failed"} /\ "ok" # "hold" /\ 0 \in Int /\ -1 \in Int
    OBVIOUS
  <2>5. Exchange(c, "ok", -1, 0)
    BY Zenon, <1>1, <1>2, <1>4, <1>6, <2>3, <2>4 DEF Exchange
  <2> QED
    BY Zenon, <2>5, ExchangeStep
<1> QED
  BY Zenon, <1>5, <1>6

\* The controller's answer is lost: a bypass it gave is out of sight.
LEMMA AnswerLostKeeps ==
  ASSUME RouteInv, NEW c \in Clients, AnswerLost(c)
  PROVE  RouteInv'
<1>1. /\ stage[c] \in {"adding", "removing"} /\ request[c] \in {"ok", "hold"}
      /\ request' = [request EXCEPT ![c] = "failed"]
      /\ stray' = (IF Operation(c) = "ADD" THEN Bump(stray, ip[c], 1) ELSE stray)
      /\ UNCHANGED <<held, orphans>> /\ UNCHANGED <<control, client>>
  BY Zenon DEF AnswerLost, Failed
<1>2. Exchanging(c) /\ CoveredAll
  BY Zenon, <1>1, InExchange
<1>3. CoveredAll'
  BY Zenon, <1>1, <1>2, MoreStray
<1>4. /\ held' = Bump(held, ip[c], 0) /\ stray = Bump(stray, ip[c], 0)
      /\ orphans' \in [Operations -> [Addresses -> Nat]]
      /\ \A a \in Addresses : stray'[a] >= orphans'["REMOVE"][a]
  BY Zenon, <1>1, <1>2, <1>3 DEF Exchanging, CoveredAll
<1>5. "failed" \in {"sent", "ok", "hold", "failed"} /\ "failed" # "hold" /\ 0 \in Int /\ 1 \in Int
  OBVIOUS
<1>6. CASE stage[c] = "adding"
  <2>1. stray' = Bump(stray, ip[c], 1)
    BY Zenon, <1>1, <1>6 DEF Operation
  <2>2. ~Keeps(stage[c], "failed") /\ Keeps(stage[c], request[c])
    BY <1>1, <1>6 DEF Keeps
  <2>3. 0 - 1 = Bit(Keeps(stage[c], "failed")) - Bit(Keeps(stage[c], request[c]))
    BY <2>2 DEF Bit
  <2>4. Exchange(c, "failed", 0, 1)
    BY Zenon, <1>1, <1>4, <1>5, <2>1, <2>3 DEF Exchange
  <2> QED
    BY Zenon, <2>4, ExchangeStep
<1>7. CASE stage[c] = "removing"
  <2>1. stray' = Bump(stray, ip[c], 0)
    <3>1. Operation(c) # "ADD"
      BY <1>7 DEF Operation
    <3> QED
      BY Zenon, <1>1, <1>4, <3>1
  <2>2. ~Keeps(stage[c], "failed") /\ ~Keeps(stage[c], request[c])
    BY <1>1, <1>7 DEF Keeps
  <2>3. 0 - 0 = Bit(Keeps(stage[c], "failed")) - Bit(Keeps(stage[c], request[c]))
    BY <2>2 DEF Bit
  <2>4. Exchange(c, "failed", 0, 0)
    BY Zenon, <1>1, <1>4, <1>5, <2>1, <2>3 DEF Exchange
  <2> QED
    BY Zenon, <2>4, ExchangeStep
<1> QED
  BY Zenon, <1>1, <1>6, <1>7

\* The steps of an exchange: asked, refused, timed out, served, answer lost.
LEMMA ExchangeKeeps ==
  ASSUME RouteInv, NEW c \in Clients,
         Ask(c) \/ AskFails(c) \/ TimeOut(c) \/ Serve(c) \/ Refuse(c) \/ AnswerLost(c)
  PROVE  RouteInv'
  BY Zenon, AskKeeps, RefusedKeeps, TimeOutKeeps, ServeKeeps, AnswerLostKeeps

\* The controller serves a request that nobody waits for any more.
LEMMA ServeOrphanKeeps ==
  ASSUME RouteInv, NEW o \in Operations, NEW a \in Addresses, ServeOrphan(o, a)
  PROVE  RouteInv'
<1> DEFINE n == IF o = "ADD" THEN 1 ELSE -1
<1>0. /\ held \in [Addresses -> Int] /\ stray \in [Addresses -> Int]
      /\ orphans \in [Operations -> [Addresses -> Nat]] /\ "REMOVE" \in Operations /\ n \in Int
  BY DEF RouteInv, RouteTypeOK, Operations
<1>1. /\ orphans[o][a] > 0 /\ orphans' = [orphans EXCEPT ![o][a] = @ - 1]
      /\ held' = [held EXCEPT ![a] = @ + n] /\ stray' = [stray EXCEPT ![a] = @ + n]
      /\ UNCHANGED <<control, stage, left, ip, fd, lease, after, request>>
  BY DEF ServeOrphan, Bump, client
<1>2. orphans[o][a] \in Nat /\ orphans[o][a] - 1 \in Nat
  BY <1>0, <1>1
<1>3. RouteTypeOK'
  <2>1. held' \in [Addresses -> Int] /\ stray' \in [Addresses -> Int]
    BY <1>0, <1>1
  <2>2. orphans' \in [Operations -> [Addresses -> Nat]]
    BY <1>0, <1>1, <1>2
  <2> QED
    BY <1>1, <2>1, <2>2 DEF RouteInv, RouteTypeOK
<1>4. \A c \in Clients : Consistent(c)'
  BY <1>1 DEF RouteInv, Consistent
<1>5. ASSUME NEW b \in Addresses PROVE Balanced(b)' /\ Covered(b)'
  <2>1. Owners(b)' = Owners(b)
    BY <1>1 DEF Owners, Owns
  <2>2. /\ held[b] \in Int /\ stray[b] \in Int /\ Cardinality(Owners(b)) \in Nat
        /\ held[b] = Cardinality(Owners(b)) + stray[b]
        /\ orphans["REMOVE"][b] \in Nat /\ stray[b] >= orphans["REMOVE"][b]
    BY <1>0, OwnersFinite DEF RouteInv, Balanced, Covered
  <2>3. CASE b # a
    <3>1. held'[b] = held[b] /\ stray'[b] = stray[b] /\ orphans'["REMOVE"][b] = orphans["REMOVE"][b]
      BY <1>0, <1>1, <2>3
    <3> QED
      BY <2>1, <2>2, <3>1 DEF Balanced, Covered
  <2>4. CASE b = a
    <3>1. held'[b] = held[b] + n /\ stray'[b] = stray[b] + n
      BY <1>0, <1>1, <2>4
    <3>2. Balanced(b)'
      <4> HIDE DEF n
      <4>1. held'[b] = Cardinality(Owners(b)) + stray'[b]
        BY <1>0, <2>2, <3>1
      <4> QED
        BY <2>1, <4>1 DEF Balanced
    <3>3. orphans'["REMOVE"][b] = IF o = "REMOVE" THEN orphans["REMOVE"][b] - 1 ELSE orphans["REMOVE"][b]
      BY <1>0, <1>1, <2>4
    <3>4. n = IF o = "REMOVE" THEN -1 ELSE 1
      BY DEF Operations
    <3>5. stray'[b] >= orphans'["REMOVE"][b]
      <4> HIDE DEF n
      <4> QED
        BY <2>2, <3>1, <3>3, <3>4
    <3> QED
      BY <3>2, <3>5 DEF Covered
  <2> QED
    BY <2>3, <2>4
<1> QED
  BY <1>3, <1>4, <1>5 DEF RouteInv

\* Every step of clients and controller keeps the invariant.
LEMMA RouteStep ==
  RouteInv /\ [RouteNext]_routeVars => RouteInv'
<1> SUFFICES ASSUME RouteInv, [RouteNext]_routeVars PROVE RouteInv'
  OBVIOUS
<1>1. ASSUME NEW c \in Clients, Routing(c) \/ CloseDirect(c) \/ Controller(c)
      PROVE  RouteInv'
  BY <1>1, OpeningKeeps, AddedKeeps, ConnectKeeps, ClosingKeeps, ExchangeKeeps DEF Routing, Controller
<1>2. CASE UNCHANGED routeVars
  <2>1. UNCHANGED <<control, stage, left, ip, fd, lease, after, request, held, orphans, stray>>
    BY <1>2 DEF routeVars, client
  <2>2. \A a \in Addresses : Owners(a)' = Owners(a)
    BY <2>1 DEF Owners, Owns
  <2>3. RouteTypeOK' /\ \A c \in Clients : Consistent(c)'
    BY <2>1 DEF RouteInv, RouteTypeOK, Consistent
  <2>4. \A a \in Addresses : Balanced(a)' /\ Covered(a)'
    BY <2>1, <2>2 DEF RouteInv, Balanced, Covered
  <2> QED
    BY <2>3, <2>4 DEF RouteInv
<1> QED
  BY <1>1, <1>2, ServeOrphanKeeps DEF RouteNext

\* routing_open_direct and routing_close_direct pair every bypass they were
\* granted with a release, whatever the controller refuses, answers too late
\* or serves when nobody waits: for any clients, addresses and answers the
\* controller's bypasses are those of connections in use and those it was
\* not heard about, and an address is bypassed as long as it is used.
THEOREM BypassesPaired ==
  RouteSpec => []BypassesExact
<1>1. RouteInv => BypassesExact
  <2> SUFFICES ASSUME RouteInv PROVE BypassesExact
    OBVIOUS
  <2>1. BypassesAccounted
    <3>1. \A a \in Addresses : held[a] = Cardinality(Owners(a)) + stray[a]
      BY Zenon DEF RouteInv, Balanced
    <3>2. \A c \in Clients : Consistent(c)
      BY Zenon DEF RouteInv
    <3> QED
      BY <3>1, <3>2 DEF Owners, Consistent, BypassesAccounted
  <2>2. ASSUME NEW c \in Clients, NEW a \in Addresses, Owns(c, a)
        PROVE  held[a] > 0
    <3>1. IsFiniteSet(Owners(a)) /\ Cardinality(Owners(a)) \in Nat /\ c \in Owners(a)
      BY <2>2, OwnersFinite DEF Owners
    <3>2. Cardinality(Owners(a)) # 0
      BY <3>1, FS_EmptySet
    <3>3. /\ held[a] = Cardinality(Owners(a)) + stray[a] /\ stray[a] >= orphans["REMOVE"][a]
          /\ stray[a] \in Int /\ orphans["REMOVE"][a] \in Nat
      BY DEF RouteInv, RouteTypeOK, Balanced, Covered, Operations
    <3> QED
      BY <3>1, <3>2, <3>3
  <2>3. ASSUME NEW c \in Clients, stage[c] = "dialing" PROVE held[ip[c]] > 0
    <3>1. ip[c] \in Addresses /\ Owns(c, ip[c])
      BY <2>3 DEF RouteInv, Consistent, Owns
    <3> QED
      BY <2>2, <3>1
  <2>4. ASSUME NEW c \in Clients, stage[c] = "open", lease[c] # NoAddress PROVE held[lease[c]] > 0
    <3>1. lease[c] \in Addresses /\ Owns(c, lease[c])
      BY <2>4 DEF RouteInv, RouteTypeOK, Address, Owns
    <3> QED
      BY <2>2, <3>1
  <2> QED
    BY <2>1, <2>3, <2>4 DEF BypassesExact, BypassedWhileUsed
<1> QED
  BY <1>1, RouteInitInv, RouteStep, PTL DEF RouteSpec
=============================================================================
