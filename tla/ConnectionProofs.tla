-------------------------- MODULE ConnectionProofs --------------------------
(***************************************************************************)
(* Proofs about how a connection begins: the session of a client, from     *)
(* accept to its last close, and the opening of a TLS connection among     *)
(* other threads that do the same.                                         *)
(*                                                                         *)
(* Sessions, for any number of threads and clients: what a session has     *)
(* open, has answered and has passed on is a function of the place its     *)
(* thread has reached (Sound), and the slots taken are those of the        *)
(* threads between acquire_client_slot and release_client_slot.  Each step *)
(* of client_worker_run takes one thread from one place to the next, so    *)
(* that only the count, shared between them, needs the others.             *)
(*                                                                         *)
(* Endpoints, for any callers, sites, addresses and table sizes: a site    *)
(* enters the AES table only when some address took AES; the addresses a   *)
(* caller has left to try and those that refused it make up all of them    *)
(* (Tried), so that a caller fails for nothing but refusals or the         *)
(* network.                                                                *)
(***************************************************************************)
EXTENDS ClientWorker, TlsEndpoints, FiniteSetTheorems, TLAPS

-----------------------------------------------------------------------------
(* Client sessions. *)

\* Where a session can be, by what it has open.
Ending == {"none", "leave", "detach"}
Begun == {"accepted", "attach", "negotiate", "sniff", "sniff_read", "route", "direct", "delayed",
          "delayed_read", "socks5", "connect"}
OnDirect == {"direct_greet", "direct_send", "direct_relay"}
Plain == {"plain_send", "plain_first", "plain_greet"}
OnProxy == {"socks5_greet", "socks5_send", "socks5_relay", "prepare"} \cup Plain
OnCarrier == {"greet", "first_read", "first_send", "start", "relay"}
Places == Ending \cup Begun \cup OnDirect \cup OnProxy \cup OnCarrier
Left == {"leave", "detach"}
Running == Places \ {"none", "accepted", "detach"}

\* Where the client has been told to go ahead; where what was read has gone
\* on; and where nothing has been read yet.
Told == {"sniff_read", "delayed_read", "direct_send", "direct_relay", "socks5_send", "socks5_relay",
         "first_read", "first_send", "start", "relay"}
PassedOn == {"direct_relay", "socks5_relay", "start", "relay", "plain_greet"}
NothingRead == {"none", "accepted", "attach", "negotiate", "sniff", "sniff_read", "delayed_read"}

Things == {"client", "upstream", "lease", "unpad"}
SessionRecords ==
  [at : Places, plan : Plans \cup {NoWorker.plan}, open : SUBSET Things, closedTwice : BOOLEAN,
   success : BOOLEAN, failures : Nat, silent : BOOLEAN, read : Nat, held : Nat, sent : Nat]

\* What a session at a place has open.
Expected(at, plan) ==
  IF at \in Ending THEN {}
  ELSE {"client"} \cup (IF at \in OnDirect THEN {"upstream", "lease"} ELSE {})
                  \cup (IF at \in OnProxy \cup OnCarrier THEN {"upstream"} ELSE {})
                  \cup (IF at \in OnCarrier /\ plan.protocol = "vision" THEN {"unpad"} ELSE {})

\* What the client has been told, and what of its first payload is where.
Replied(r) ==
  /\ r.at \notin Left => r.failures = 0
  /\ r.at \in Left => r.failures = 0 \/ (r.failures = 1 /\ ~r.success)
  /\ r.at = "leave" => r.silent \/ r.success \/ r.failures = 1
  /\ r.at \in Told \/ r.held # 0 => r.success
Carried(r) == r.read = r.sent + r.held /\ (r.at \in PassedOn \cup NothingRead => r.held = 0)

Sound(r) ==
  /\ r \in SessionRecords /\ ~r.closedTwice
  /\ r.open = Expected(r.at, r.plan) /\ (r.at \in Plain => r.plan.protocol = "vless")
  /\ Replied(r) /\ Carried(r)

\* The client main has accepted and not yet handed over.
HandOver ==
  /\ listener \in [at : {"accept", "slot", "create", "ended"}, thread : Thread \cup {NoThread}, accepts : Nat]
  /\ listener.at \in {"slot", "create"} => listener.thread \in Thread /\ worker[listener.thread].at = "accepted"

\* The inductive invariant: every session is sound whatever the others do, and
\* the slots are counted.
WorkerInv ==
  /\ DOMAIN worker = Thread /\ (\A t \in Thread : Sound(worker[t]))
  /\ g_active_client_count \in Nat /\ HandOver /\ SlotsExact

-----------------------------------------------------------------------------
\* The ways out: the client is told, cannot be told, or was told before.
LEMMA Leaves ==
  ASSUME NEW r, Sound(r), r.at \notin Left
  PROVE  /\ Sound(Leaving(Silent(r), r.open)) /\ Leaving(Silent(r), r.open).at = "leave"
         /\ Sound(Leaving(Refused(r), r.open)) /\ Leaving(Refused(r), r.open).at = "leave"
         /\ r.success => Sound(Leaving(r, r.open)) /\ Leaving(r, r.open).at = "leave"
<1>1. r \in SessionRecords /\ ~r.closedTwice /\ r.failures = 0 /\ r.read = r.sent + r.held /\ (r.held # 0 => r.success)
  BY Zenon DEF Sound, Replied, Carried
<1>2. /\ "leave" \in Places /\ "leave" \in Ending /\ "leave" \in Left /\ "leave" \notin Plain
      /\ "leave" \notin Told /\ "leave" \notin PassedOn /\ "leave" \notin NothingRead
  BY DEF Places, Ending, Left, Plain, Told, PassedOn, NothingRead
<1>3. ASSUME NEW q \in SessionRecords, q.failures \in {0, 1}, q.failures = 1 => ~q.success, q.held # 0 => q.success,
             q.silent \/ q.success \/ q.failures = 1, ~q.closedTwice, q.read = q.sent + q.held
      PROVE  Sound(Leaving(q, q.open)) /\ Leaving(q, q.open).at = "leave"
  <2> DEFINE l == Leaving(q, q.open)
  <2>1. /\ l \in SessionRecords /\ l.at = "leave" /\ l.plan = q.plan /\ l.open = {} /\ ~l.closedTwice
        /\ l.success = q.success /\ l.failures = q.failures /\ l.silent = q.silent
        /\ l.read = q.read /\ l.held = q.held /\ l.sent = q.sent
    BY Zenon, <1>2, <1>3 DEF Leaving, Closing, SessionRecords
  <2> HIDE DEF l
  <2>2. Replied(l) /\ Carried(l)
    BY <1>2, <1>3, <2>1 DEF Replied, Carried
  <2>3. Expected(l.at, l.plan) = {}
    BY Zenon, <1>2, <2>1 DEF Expected
  <2>4. Sound(l)
    BY Zenon, <1>2, <2>1, <2>2, <2>3 DEF Sound
  <2> QED
    BY Zenon, <2>1, <2>4 DEF l
<1>4. Silent(r) \in SessionRecords /\ Silent(r).open = r.open /\ Silent(r).failures = 0 /\ Silent(r).silent
      /\ Silent(r).held = r.held /\ Silent(r).success = r.success /\ Silent(r).read = r.read /\ Silent(r).sent = r.sent
      /\ ~Silent(r).closedTwice
  BY Zenon, <1>1 DEF Silent, SessionRecords
<1>5. 0 \in {0, 1} /\ 1 \in {0, 1} /\ 0 # 1
  OBVIOUS
<1>6. Sound(Leaving(Silent(r), r.open)) /\ Leaving(Silent(r), r.open).at = "leave"
  BY Zenon, <1>1, <1>3, <1>4, <1>5
<1>7. r.success => Sound(Leaving(r, r.open)) /\ Leaving(r, r.open).at = "leave"
  BY Zenon, <1>1, <1>3, <1>5
<1>8. Sound(Leaving(Refused(r), r.open)) /\ Leaving(Refused(r), r.open).at = "leave"
  <2>1. CASE r.success
    BY Zenon, <1>7, <2>1 DEF Refused
  <2>2. CASE ~r.success
    <3>1. Refused(r) \in SessionRecords /\ Refused(r).open = r.open /\ Refused(r).failures = 1
          /\ Refused(r).held = r.held /\ ~Refused(r).success /\ Refused(r).read = r.read /\ Refused(r).sent = r.sent
          /\ ~Refused(r).closedTwice
      BY <1>1, <2>2 DEF Refused, SessionRecords
    <3> QED
      BY Zenon, <1>1, <1>3, <1>5, <2>2, <3>1
  <2> QED
    BY Zenon, <2>1, <2>2
<1> QED
  BY Zenon, <1>6, <1>7, <1>8

\* A step of a session that goes on: where it goes, what it opens, what it has
\* told the client and read of it.
LEMMA GoesOn ==
  ASSUME NEW r, Sound(r), r.at \notin Left, NEW q \in SessionRecords, q.at \in Running \ {"leave"},
         q.plan = r.plan, q.open = Expected(q.at, r.plan), q.closedTwice = r.closedTwice,
         q.failures = r.failures, q.read = q.sent + q.held,
         q.at \in Plain => r.plan.protocol = "vless",
         q.at \in Told \/ q.held # 0 => q.success,
         q.at \in PassedOn \cup NothingRead => q.held = 0
  PROVE  Sound(q) /\ q.at \in Running
<1>1. q.at \notin Left /\ q.at # "leave"
  BY DEF Running, Left
<1>2. ~r.closedTwice /\ r.failures = 0
  BY Zenon DEF Sound, Replied
<1>3. Replied(q)
  BY Zenon, <1>1, <1>2 DEF Replied
<1> QED
  BY Zenon, <1>1, <1>2, <1>3 DEF Sound, Carried

\* It goes on as it is.
LEMMA MovesOn ==
  ASSUME NEW r, Sound(r), r.at \notin Left, NEW next \in Running \ {"leave"}, r.open = Expected(next, r.plan),
         next \in Plain => r.plan.protocol = "vless", next \in Told => r.success,
         next \in PassedOn \cup NothingRead => r.held = 0
  PROVE  Sound([r EXCEPT !.at = next]) /\ [r EXCEPT !.at = next].at \in Running
<1> DEFINE q == [r EXCEPT !.at = next]
<1>1. r \in SessionRecords /\ r.read = r.sent + r.held /\ (r.held # 0 => r.success)
  BY Zenon DEF Sound, Carried, Replied
<1>2. next \in Places
  BY Zenon DEF Running
<1>3. /\ q \in SessionRecords /\ q.at = next /\ q.plan = r.plan /\ q.open = r.open /\ q.closedTwice = r.closedTwice
      /\ q.failures = r.failures /\ q.success = r.success /\ q.read = r.read /\ q.sent = r.sent /\ q.held = r.held
  BY Zenon, <1>1, <1>2 DEF SessionRecords
<1> HIDE DEF q
<1>4. Sound(q) /\ q.at \in Running
  BY Zenon, <1>1, <1>3, GoesOn
<1> QED
  BY Zenon, <1>4 DEF q

\* It opens something and goes on.
LEMMA OpensMore ==
  ASSUME NEW r, Sound(r), r.at \notin Left, NEW next \in Running \ {"leave"}, NEW more \in SUBSET Things,
         r.open \cup more = Expected(next, r.plan),
         next \in Plain => r.plan.protocol = "vless", next \in Told => r.success,
         next \in PassedOn \cup NothingRead => r.held = 0
  PROVE  /\ Sound([r EXCEPT !.at = next, !.open = @ \cup more])
         /\ [r EXCEPT !.at = next, !.open = @ \cup more].at \in Running
<1> DEFINE q == [r EXCEPT !.at = next, !.open = @ \cup more]
<1>1. r \in SessionRecords /\ r.read = r.sent + r.held /\ (r.held # 0 => r.success)
  BY Zenon DEF Sound, Carried, Replied
<1>2. next \in Places /\ r.open \cup more \in SUBSET Things
  BY Zenon, <1>1 DEF Running, SessionRecords
<1>3. /\ q \in SessionRecords /\ q.at = next /\ q.plan = r.plan /\ q.open = r.open \cup more
      /\ q.closedTwice = r.closedTwice
      /\ q.failures = r.failures /\ q.success = r.success /\ q.read = r.read /\ q.sent = r.sent /\ q.held = r.held
  BY Zenon, <1>1, <1>2 DEF SessionRecords
<1> HIDE DEF q
<1>4. Sound(q) /\ q.at \in Running
  BY Zenon, <1>1, <1>3, GoesOn
<1> QED
  BY Zenon, <1>4 DEF q

\* socks5_send_success, unless it was sent: the session goes on or leaves.
LEMMA Greets ==
  ASSUME NEW r, Sound(r), r.at \notin Left, NEW next \in Running \ {"leave"}, r.open = Expected(next, r.plan),
         next \notin Plain, next \in PassedOn \cup NothingRead => r.held = 0
  PROVE  \A q \in Greeted(r, next, r.open) : Sound(q) /\ q.at \in Running
<1>1. r \in SessionRecords /\ r.read = r.sent + r.held
  BY Zenon DEF Sound, Carried
<1>2. next \in Places /\ "leave" \in Running
  BY DEF Running, Places, Ending
<1>3. CASE r.success
  <2>1. Sound([r EXCEPT !.at = next]) /\ [r EXCEPT !.at = next].at \in Running
    BY Zenon, <1>3, MovesOn
  <2> QED
    BY Zenon, <1>3, <2>1 DEF Greeted
<1>4. CASE ~r.success
  <2> DEFINE q == [r EXCEPT !.at = next, !.success = TRUE]
  <2>1. /\ q \in SessionRecords /\ q.at = next /\ q.plan = r.plan /\ q.open = r.open /\ q.closedTwice = r.closedTwice
        /\ q.failures = r.failures /\ q.success /\ q.read = r.read /\ q.sent = r.sent /\ q.held = r.held
    BY Zenon, <1>1, <1>2 DEF SessionRecords
  <2> HIDE DEF q
  <2>2. Sound(q) /\ q.at \in Running
    BY Zenon, <1>1, <2>1, GoesOn
  <2>3. Sound(Leaving(Silent(r), r.open)) /\ Leaving(Silent(r), r.open).at \in Running
    BY Zenon, <1>2, Leaves
  <2> QED
    BY Zenon, <1>4, <2>2, <2>3 DEF Greeted, q
<1> QED
  BY Zenon, <1>3, <1>4

\* A read of first payload: the session goes on with or without a unit, or
\* leaves.
LEMMA Reads ==
  ASSUME NEW r, Sound(r), r.at \notin Left, r.success, r.held = 0, NEW next \in Running \ {"leave"},
         r.open = Expected(next, r.plan), next \notin Plain \cup PassedOn \cup NothingRead
  PROVE  \A q \in PayloadRead(r, next, r.open) : Sound(q) /\ q.at \in Running
<1>1. r \in SessionRecords /\ r.read = r.sent + r.held
  BY Zenon DEF Sound, Carried
<1>2. next \in Places /\ "leave" \in Running /\ r.read \in Nat /\ r.sent \in Nat
  BY <1>1 DEF Running, Places, Ending, SessionRecords
<1>3. Sound([r EXCEPT !.at = next]) /\ [r EXCEPT !.at = next].at \in Running
  BY Zenon, MovesOn
<1>4. Sound(Leaving(r, r.open)) /\ Leaving(r, r.open).at \in Running
  BY Zenon, <1>2, Leaves
<1> DEFINE q == [r EXCEPT !.at = next, !.read = @ + 1, !.held = 1]
<1>5. r.read + 1 = r.sent + 1 /\ r.read + 1 \in Nat /\ 1 \in Nat
  BY <1>1, <1>2
<1>6. /\ q \in SessionRecords /\ q.at = next /\ q.plan = r.plan /\ q.open = r.open /\ q.closedTwice = r.closedTwice
      /\ q.failures = r.failures /\ q.success = r.success /\ q.read = r.read + 1 /\ q.sent = r.sent /\ q.held = 1
  BY Zenon, <1>1, <1>2, <1>5 DEF SessionRecords
<1> HIDE DEF q
<1>7. Sound(q) /\ q.at \in Running
  BY Zenon, <1>5, <1>6, GoesOn
<1> QED
  BY Zenon, <1>3, <1>4, <1>7 DEF PayloadRead, q

\* The first payload is written to the upstream.
LEMMA Forwards ==
  ASSUME NEW r, Sound(r), r.at \notin Left, NEW next \in Running \ {"leave"}, r.open = Expected(next, r.plan),
         next \in Plain => r.plan.protocol = "vless", next \in Told => r.success
  PROVE  Sound(Forwarded(r, next)) /\ Forwarded(r, next).at \in Running
<1> DEFINE q == Forwarded(r, next)
<1>1. r \in SessionRecords /\ r.read = r.sent + r.held
  BY Zenon DEF Sound, Carried
<1>2. next \in Places /\ r.held \in Nat /\ r.sent \in Nat
  BY Zenon, <1>1 DEF Running, SessionRecords
<1>3. r.sent + r.held \in Nat /\ 0 \in Nat /\ (r.sent + r.held) + 0 = r.sent + r.held
  BY <1>2
<1>4. /\ q \in SessionRecords /\ q.at = next /\ q.plan = r.plan /\ q.open = r.open /\ q.closedTwice = r.closedTwice
      /\ q.failures = r.failures /\ q.success = r.success /\ q.read = r.read /\ q.sent = r.sent + r.held /\ q.held = 0
  BY Zenon, <1>1, <1>2, <1>3 DEF SessionRecords, Forwarded
<1> HIDE DEF q
<1>5. Sound(q) /\ q.at \in Running
  BY Zenon, <1>1, <1>3, <1>4, GoesOn
<1> QED
  BY Zenon, <1>5 DEF q

\* What is open at each kind of place.
LEMMA ExpectedAt ==
  ASSUME NEW p
  PROVE  /\ \A a \in Begun : Expected(a, p) = {"client"}
         /\ \A a \in OnDirect : Expected(a, p) = Direct \cup {"client"}
         /\ \A a \in OnProxy : Expected(a, p) = {"upstream", "client"}
         /\ \A a \in OnCarrier :
              Expected(a, p) = {"upstream", "client"} \cup (IF p.protocol = "vision" THEN {"unpad"} ELSE {})
<1>1. /\ \A a \in Begun : a \notin Ending \cup OnDirect \cup OnProxy \cup OnCarrier
      /\ \A a \in OnDirect : a \notin Ending \cup OnProxy \cup OnCarrier
      /\ \A a \in OnProxy : a \notin Ending \cup OnDirect \cup OnCarrier
      /\ \A a \in OnCarrier : a \notin Ending \cup OnDirect
  BY DEF Ending, Begun, OnDirect, OnProxy, Plain, OnCarrier
<1>2. ASSUME NEW a \in Begun PROVE Expected(a, p) = {"client"}
  BY Zenon, <1>1 DEF Expected
<1>3. ASSUME NEW a \in OnDirect PROVE Expected(a, p) = Direct \cup {"client"}
  BY Zenon, <1>1 DEF Expected, Direct
<1>4. ASSUME NEW a \in OnProxy PROVE Expected(a, p) = {"upstream", "client"}
  BY Zenon, <1>1 DEF Expected
<1>5. ASSUME NEW a \in OnCarrier
      PROVE  Expected(a, p) = {"upstream", "client"} \cup (IF p.protocol = "vision" THEN {"unpad"} ELSE {})
  BY Zenon, <1>1 DEF Expected
<1> QED
  BY Zenon, <1>2, <1>3, <1>4, <1>5

\* What a sound session knows where it is.
LEMMA Here ==
  ASSUME NEW r, Sound(r)
  PROVE  /\ r.open = Expected(r.at, r.plan) /\ (r.at \in Plain => r.plan.protocol = "vless")
         /\ (r.at \in Told \/ r.held # 0 => r.success) /\ (r.at \in PassedOn \cup NothingRead => r.held = 0)
         /\ r.held \in Nat
<1>1. r \in SessionRecords
  BY Zenon DEF Sound
<1>2. r.held \in Nat
  BY Zenon, <1>1 DEF SessionRecords
<1> QED
  BY Zenon, <1>2 DEF Sound, Replied, Carried

\* A step of a thread whose outcomes are all sound.
Continues(t) ==
  /\ worker[t].at \in Running /\ UNCHANGED <<g_active_client_count, listener>>
  /\ \E q : Sound(q) /\ q.at \in Running /\ worker' = [worker EXCEPT ![t] = q]

\* Such a step takes the session on.
LEMMA StepsTo ==
  ASSUME NEW t, NEW at \in Running, NEW S, Step(t, at, S), \A q \in S : Sound(q) /\ q.at \in Running
  PROVE  Continues(t)
  BY Zenon DEF Step, Continues

\* Where a session goes on.
LEMMA Going ==
  /\ "leave" \in Running
  /\ \A a \in Places \ (Ending \cup {"accepted"}) : a \in Running \ {"leave"} /\ a \notin Left
  /\ \A a \in Begun \ {"accepted"} : a \in Running \ {"leave"} /\ a \notin Left
  /\ \A a \in OnDirect \cup OnProxy \cup OnCarrier : a \in Running \ {"leave"} /\ a \notin Left
  BY DEF Running, Places, Ending, Begun, OnDirect, OnProxy, Plain, OnCarrier, Left

\* The first steps of a session, to the choice of its route.
LEMMA FirstSteps ==
  ASSUME NEW t \in Thread, Sound(worker[t]),
         Attach(t) \/ Negotiate(t) \/ SniffGreet(t) \/ SniffRead(t) \/ Route(t)
  PROVE  Continues(t)
<1> DEFINE r == worker[t]
           Early == Begun \ {"accepted"}
<1>0. /\ "attach" \in Early /\ "attach" \in PassedOn \cup NothingRead
      /\ "negotiate" \in Early /\ "negotiate" \in PassedOn \cup NothingRead /\ "negotiate" \notin Plain /\ "negotiate" \notin Told
      /\ "sniff" \in Early /\ "sniff" \in PassedOn \cup NothingRead /\ "sniff" \notin Plain /\ "sniff" \notin Told
      /\ "sniff_read" \in Early /\ "sniff_read" \in PassedOn \cup NothingRead /\ "sniff_read" \notin Plain /\ "sniff_read" \in Told
      /\ "route" \in Early /\ "route" \notin PassedOn \cup NothingRead /\ "route" \notin Plain /\ "route" \notin Told
      /\ \A a \in {"direct", "delayed", "connect"} :
           a \in Early /\ a \notin PassedOn \cup NothingRead /\ a \notin Plain /\ a \notin Told
  BY DEF Begun, Plain, Told, PassedOn, NothingRead
<1>1. ASSUME r.at \in Early
      PROVE  /\ r.at \notin Left /\ r.at \in Running /\ r.open = {"client"}
             /\ \A a \in Early : a \in Running \ {"leave"} /\ r.open = Expected(a, r.plan)
             /\ Sound(Leaving(Silent(r), {"client"})) /\ Leaving(Silent(r), {"client"}).at \in Running
             /\ Sound(Leaving(Refused(r), {"client"})) /\ Leaving(Refused(r), {"client"}).at \in Running
  <2>1. r.at \notin Left /\ r.at \in Running /\ "leave" \in Running
    BY Zenon, <1>1, Going
  <2>2. \A a \in Begun : Expected(a, r.plan) = {"client"}
    BY Zenon, ExpectedAt
  <2>3. r.open = Expected(r.at, r.plan)
    BY Zenon, Here
  <2>4. r.open = {"client"}
    BY Zenon, <1>1, <2>2, <2>3
  <2> QED
    BY Zenon, <2>1, <2>2, <2>4, Leaves, Going
<1>7. \A a \in Early : a \in Running
  BY Zenon, Going
<1> HIDE DEF Early
<1>2. CASE Attach(t)
  <2>1. r.at = "attach" /\ r.at \in Early /\ "attach" \in Running /\ r.held = 0
    BY Zenon, <1>0, <1>2, Here, <1>7 DEF Attach, Step
  <2>2. "negotiate" \in Running \ {"leave"} /\ r.open = Expected("negotiate", r.plan) /\ r.at \notin Left
    BY Zenon, <1>0, <1>1, <2>1
  <2>3. Sound([r EXCEPT !.at = "negotiate"]) /\ [r EXCEPT !.at = "negotiate"].at \in Running
    BY Zenon, <1>0, <2>1, <2>2, MovesOn
  <2> DEFINE S == {[r EXCEPT !.at = "negotiate"], Leaving(Silent(r), {"client"})}
  <2>4. Step(t, "attach", S)
    BY <1>2 DEF Attach, Me
  <2>5. \A q \in S : Sound(q) /\ q.at \in Running
    BY Zenon, <1>1, <2>1, <2>3
  <2> HIDE DEF S
  <2> QED
    BY Zenon, <2>1, <2>4, <2>5, StepsTo
<1>3. CASE Negotiate(t)
  <2>1. r.at = "negotiate" /\ r.at \in Early /\ "negotiate" \in Running /\ r.held = 0
    BY Zenon, <1>0, <1>3, Here, <1>7 DEF Negotiate, Step
  <2> DEFINE next == IF r.plan.sniff THEN "sniff" ELSE "route"
  <2>2. next \in Early /\ next \notin Plain /\ next \notin Told
    BY Zenon, <1>0
  <2> HIDE DEF next
  <2>3. next \in Running \ {"leave"} /\ r.open = Expected(next, r.plan) /\ r.at \notin Left
    BY Zenon, <1>1, <2>1, <2>2
  <2>4. Sound([r EXCEPT !.at = next]) /\ [r EXCEPT !.at = next].at \in Running
    BY Zenon, <2>1, <2>2, <2>3, MovesOn
  <2> DEFINE S == {[r EXCEPT !.at = next], Leaving(Silent(r), {"client"}), Leaving(Refused(r), {"client"})}
  <2>5. Step(t, "negotiate", S)
    BY <1>3 DEF Negotiate, Me, next
  <2>6. \A q \in S : Sound(q) /\ q.at \in Running
    BY Zenon, <1>1, <2>1, <2>4
  <2> HIDE DEF S
  <2> QED
    BY Zenon, <2>1, <2>5, <2>6, StepsTo
<1>4. CASE SniffGreet(t)
  <2>1. r.at = "sniff" /\ r.at \in Early /\ "sniff" \in Running /\ r.held = 0
    BY Zenon, <1>0, <1>4, Here, <1>7 DEF SniffGreet, Step
  <2>2. "sniff_read" \in Running \ {"leave"} /\ r.open = Expected("sniff_read", r.plan) /\ r.at \notin Left /\ r.open = {"client"}
    BY Zenon, <1>0, <1>1, <2>1
  <2>3. \A q \in Greeted(r, "sniff_read", {"client"}) : Sound(q) /\ q.at \in Running
    BY Zenon, <1>0, <2>1, <2>2, Greets
  <2> QED
    BY Zenon, <1>1, <1>4, <2>1, <2>3, StepsTo DEF SniffGreet, Me
<1>5. CASE SniffRead(t)
  <2>1. r.at = "sniff_read" /\ r.at \in Early /\ "sniff_read" \in Running /\ r.held = 0 /\ r.success
    BY Zenon, <1>0, <1>5, Here, <1>7 DEF SniffRead, Step
  <2>2. "route" \in Running \ {"leave"} /\ r.open = Expected("route", r.plan) /\ r.at \notin Left /\ r.open = {"client"}
    BY Zenon, <1>0, <1>1, <2>1
  <2>3. \A q \in PayloadRead(r, "route", {"client"}) : Sound(q) /\ q.at \in Running
    BY Zenon, <1>0, <2>1, <2>2, Reads
  <2> QED
    BY Zenon, <1>1, <1>5, <2>1, <2>3, StepsTo DEF SniffRead, Me
<1>6. CASE Route(t)
  <2>1. r.at = "route" /\ r.at \in Early /\ "route" \in Running
    BY Zenon, <1>0, <1>6, <1>7 DEF Route, Step
  <2>2. ASSUME NEW next \in {"direct", "delayed", "connect"}
        PROVE  Sound([r EXCEPT !.at = next]) /\ [r EXCEPT !.at = next].at \in Running
    <3>1. next \in Early /\ next \notin PassedOn \cup NothingRead /\ next \notin Plain /\ next \notin Told
      BY Zenon, <1>0
    <3>2. next \in Running \ {"leave"} /\ r.open = Expected(next, r.plan) /\ r.at \notin Left
      BY Zenon, <1>1, <2>1, <3>1
    <3> QED
      BY Zenon, <3>1, <3>2, MovesOn
  <2> DEFINE S == CASE r.plan.route = "block"     -> {Leaving(Refused(r), {"client"})}
                    [] r.plan.route = "direct"    -> {[r EXCEPT !.at = "direct"]}
                    [] r.plan.protocol = "socks5" -> {[r EXCEPT !.at = "delayed"]}
                    [] OTHER                      -> {[r EXCEPT !.at = "connect"]}
  <2>3. S \in {{Leaving(Refused(r), {"client"})}, {[r EXCEPT !.at = "direct"]},
               {[r EXCEPT !.at = "delayed"]}, {[r EXCEPT !.at = "connect"]}}
    OBVIOUS
  <2>4. Step(t, "route", S)
    BY <1>6 DEF Route, Me, Protocol
  <2> HIDE DEF S
  <2>5. \A q \in S : Sound(q) /\ q.at \in Running
    BY Zenon, <1>1, <2>1, <2>2, <2>3
  <2> QED
    BY Zenon, <1>1, <2>1, <2>4, <2>5, StepsTo
<1> QED
  BY Zenon, <1>2, <1>3, <1>4, <1>5, <1>6

\* A session that is under way may leave with what it has open, if the client
\* is told or was told.
LEMMA MayLeave ==
  ASSUME NEW r, Sound(r), NEW things, r.open = things, r.at \in Running \ {"leave"}, r.at \notin Left
  PROVE  /\ Sound(Leaving(Refused(r), things)) /\ Leaving(Refused(r), things).at \in Running
         /\ r.success => Sound(Leaving(r, things)) /\ Leaving(r, things).at \in Running
<1>1. "leave" \in Running
  BY Zenon, Going
<1> QED
  BY Zenon, <1>1, Leaves

\* The direct route.
LEMMA DirectSteps ==
  ASSUME NEW t \in Thread, Sound(worker[t]),
         DirectOpen(t) \/ DirectGreet(t) \/ DirectSend(t) \/ DirectRelayed(t)
  PROVE  Continues(t)
<1> DEFINE r == worker[t]
           all == Direct \cup {"client"}
<1>0. /\ "direct" \in Begun \ {"accepted"}
      /\ "direct_greet" \in OnDirect /\ "direct_greet" \notin Plain /\ "direct_greet" \notin Told
      /\ "direct_greet" \notin PassedOn \cup NothingRead
      /\ "direct_send" \in OnDirect /\ "direct_send" \notin Plain /\ "direct_send" \in Told
      /\ "direct_send" \notin PassedOn \cup NothingRead
      /\ "direct_relay" \in OnDirect /\ "direct_relay" \notin Plain /\ "direct_relay" \in Told
      /\ Direct \in SUBSET Things
  BY DEF Begun, OnDirect, Plain, Told, PassedOn, NothingRead, Direct, Things
<1>1. \A a \in OnDirect : a \in Running \ {"leave"} /\ a \in Running /\ a \notin Left /\ Expected(a, r.plan) = all
  BY Zenon, Going, ExpectedAt
<1>2. r.open = Expected(r.at, r.plan) /\ (r.at \in Told => r.success)
  BY Zenon, Here
<1> HIDE DEF all
<1>3. CASE DirectOpen(t)
  <2>1. r.at = "direct"
    BY Zenon, <1>3 DEF DirectOpen, Step
  <2>2. /\ "direct" \in Running \ {"leave"} /\ "direct" \in Running /\ "direct" \notin Left
        /\ Expected("direct", r.plan) = {"client"}
    BY Zenon, <1>0, Going, ExpectedAt
  <2>3. r.open = {"client"} /\ r.at \in Running \ {"leave"} /\ r.at \notin Left
    BY Zenon, <1>2, <2>1, <2>2
  <2>4. r.open \cup Direct = Expected("direct_greet", r.plan)
    BY Zenon, <1>0, <1>1, <2>3 DEF all
  <2> DEFINE q1 == [r EXCEPT !.at = "direct_greet", !.open = @ \cup Direct]
             S == {Leaving(Refused(r), {"client"}), q1}
  <2>5. Step(t, "direct", S)
    BY <1>3 DEF DirectOpen, Me
  <2>6. Sound(q1) /\ q1.at \in Running
    BY Zenon, <1>0, <1>1, <2>3, <2>4, OpensMore
  <2>7. Sound(Leaving(Refused(r), {"client"})) /\ Leaving(Refused(r), {"client"}).at \in Running
    BY Zenon, <2>3, MayLeave
  <2> HIDE DEF q1
  <2>8. \A q \in S : Sound(q) /\ q.at \in Running
    BY Zenon, <2>6, <2>7
  <2> HIDE DEF S
  <2> QED
    BY Zenon, <2>2, <2>5, <2>8, StepsTo
<1>4. CASE DirectGreet(t)
  <2>1. r.at = "direct_greet"
    BY Zenon, <1>4 DEF DirectGreet, Step
  <2>2. r.open = all /\ r.at \notin Left /\ "direct_send" \in Running \ {"leave"} /\ Expected("direct_send", r.plan) = all
    BY Zenon, <1>0, <1>1, <1>2, <2>1
  <2>3. \A q \in Greeted(r, "direct_send", all) : Sound(q) /\ q.at \in Running
    BY Zenon, <1>0, <2>2, Greets
  <2> QED
    BY Zenon, <1>0, <1>1, <1>4, <2>3, StepsTo DEF DirectGreet, Me, all
<1>5. CASE DirectSend(t)
  <2>1. r.at = "direct_send"
    BY Zenon, <1>5 DEF DirectSend, Step
  <2>2. /\ r.open = all /\ r.at \notin Left /\ r.at \in Running \ {"leave"} /\ r.success
        /\ "direct_relay" \in Running \ {"leave"} /\ Expected("direct_relay", r.plan) = all
    BY Zenon, <1>0, <1>1, <1>2, <2>1
  <2>3. Sound(Forwarded(r, "direct_relay")) /\ Forwarded(r, "direct_relay").at \in Running
    BY Zenon, <1>0, <2>2, Forwards
  <2>4. Sound(Leaving(r, all)) /\ Leaving(r, all).at \in Running
    BY Zenon, <2>2, MayLeave
  <2> DEFINE S == {Forwarded(r, "direct_relay")} \cup (IF r.held > 0 THEN {Leaving(r, all)} ELSE {})
  <2>5. Step(t, "direct_send", S)
    BY <1>5 DEF DirectSend, Me, all
  <2>6. \A q \in S : Sound(q) /\ q.at \in Running
    BY Zenon, <2>3, <2>4
  <2> HIDE DEF S
  <2> QED
    BY Zenon, <1>0, <1>1, <2>5, <2>6, StepsTo
<1>6. CASE DirectRelayed(t)
  <2>1. r.at = "direct_relay"
    BY Zenon, <1>6 DEF DirectRelayed, Step
  <2>2. r.open = all /\ r.at \notin Left /\ r.at \in Running \ {"leave"} /\ r.success
    BY Zenon, <1>0, <1>1, <1>2, <2>1
  <2>3. Sound(Leaving(r, all)) /\ Leaving(r, all).at \in Running
    BY Zenon, <2>2, MayLeave
  <2>4. Step(t, "direct_relay", {Leaving(r, all)})
    BY <1>6 DEF DirectRelayed, Me, all
  <2>5. \A q \in {Leaving(r, all)} : Sound(q) /\ q.at \in Running
    BY Zenon, <2>3
  <2> QED
    BY Zenon, <1>0, <1>1, <2>4, <2>5, StepsTo
<1> QED
  BY Zenon, <1>3, <1>4, <1>5, <1>6

\* A SOCKS5 upstream.
LEMMA Socks5Steps ==
  ASSUME NEW t \in Thread, Sound(worker[t]),
         \/ Delayed(t) \/ DelayedRead(t) \/ Socks5Connect(t) \/ Socks5Greet(t)
         \/ Socks5Send(t) \/ Socks5Relayed(t)
  PROVE  Continues(t)
<1> DEFINE r == worker[t]
           all == {"upstream", "client"}
           Early == Begun \ {"accepted"}
<1>0. /\ "delayed" \in Early
      /\ "delayed_read" \in Early /\ "delayed_read" \notin Plain /\ "delayed_read" \in Told
      /\ "delayed_read" \in PassedOn \cup NothingRead
      /\ "socks5" \in Early /\ "socks5" \notin Plain /\ "socks5" \notin Told /\ "socks5" \notin PassedOn \cup NothingRead
      /\ "socks5_greet" \in OnProxy /\ "socks5_greet" \notin Plain /\ "socks5_greet" \notin Told
      /\ "socks5_greet" \notin PassedOn \cup NothingRead
      /\ "socks5_send" \in OnProxy /\ "socks5_send" \notin Plain /\ "socks5_send" \in Told
      /\ "socks5_send" \notin PassedOn \cup NothingRead
      /\ "socks5_relay" \in OnProxy /\ "socks5_relay" \notin Plain /\ "socks5_relay" \in Told
      /\ {"upstream"} \in SUBSET Things /\ {"client"} \cup {"upstream"} = all
  BY DEF Begun, OnProxy, Plain, Told, PassedOn, NothingRead, Things
<1>1. /\ \A a \in OnProxy : a \in Running \ {"leave"} /\ a \in Running /\ a \notin Left /\ Expected(a, r.plan) = all
      /\ \A a \in Early : a \in Running \ {"leave"} /\ a \in Running /\ a \notin Left /\ Expected(a, r.plan) = {"client"}
  <2>1. \A a \in Begun : Expected(a, r.plan) = {"client"}
    BY Zenon, ExpectedAt
  <2>2. \A a \in OnProxy : Expected(a, r.plan) = all
    BY Zenon, ExpectedAt
  <2> QED
    BY Zenon, Going, <2>1, <2>2
<1>2. /\ r.open = Expected(r.at, r.plan) /\ (r.at \in Told => r.success)
      /\ (r.at \in PassedOn \cup NothingRead => r.held = 0)
  BY Zenon, Here
<1> HIDE DEF all, Early
<1>3. CASE Delayed(t)
  <2>1. r.at = "delayed"
    BY Zenon, <1>3 DEF Delayed, Step
  <2>2. /\ r.open = {"client"} /\ r.at \notin Left
        /\ "delayed_read" \in Running \ {"leave"} /\ Expected("delayed_read", r.plan) = {"client"}
        /\ "socks5" \in Running \ {"leave"} /\ Expected("socks5", r.plan) = {"client"}
    BY Zenon, <1>0, <1>1, <1>2, <2>1
  <2>3. r.held = 0 => \A q \in Greeted(r, "delayed_read", {"client"}) : Sound(q) /\ q.at \in Running
    BY Zenon, <1>0, <2>2, Greets
  <2>4. Sound([r EXCEPT !.at = "socks5"]) /\ [r EXCEPT !.at = "socks5"].at \in Running
    BY Zenon, <1>0, <2>2, MovesOn
  <2> DEFINE S == IF r.plan.delayed /\ r.held = 0 THEN Greeted(r, "delayed_read", {"client"})
                  ELSE {[r EXCEPT !.at = "socks5"]}
  <2>5. Step(t, "delayed", S)
    BY <1>3 DEF Delayed, Me
  <2>6. \A q \in S : Sound(q) /\ q.at \in Running
    BY Zenon, <2>3, <2>4
  <2> HIDE DEF S
  <2> QED
    BY Zenon, <1>0, <1>1, <2>5, <2>6, StepsTo
<1>4. CASE DelayedRead(t)
  <2>1. r.at = "delayed_read"
    BY Zenon, <1>4 DEF DelayedRead, Step
  <2>2. /\ r.open = {"client"} /\ r.at \notin Left /\ r.success /\ r.held = 0
        /\ "socks5" \in Running \ {"leave"} /\ Expected("socks5", r.plan) = {"client"}
    BY Zenon, <1>0, <1>1, <1>2, <2>1
  <2>3. \A q \in PayloadRead(r, "socks5", {"client"}) : Sound(q) /\ q.at \in Running
    BY Zenon, <1>0, <2>2, Reads
  <2> QED
    BY Zenon, <1>0, <1>1, <1>4, <2>3, StepsTo DEF DelayedRead, Me
<1>5. CASE Socks5Connect(t)
  <2>1. r.at = "socks5"
    BY Zenon, <1>5 DEF Socks5Connect, Step
  <2>2. r.open = {"client"} /\ r.at \in Running \ {"leave"} /\ r.at \notin Left
    BY Zenon, <1>0, <1>1, <1>2, <2>1
  <2>3. r.open \cup {"upstream"} = Expected("socks5_greet", r.plan)
    BY Zenon, <1>0, <1>1, <2>2
  <2> DEFINE q1 == [r EXCEPT !.at = "socks5_greet", !.open = @ \cup {"upstream"}]
             S == {Leaving(Refused(r), {"client"}), q1}
  <2>4. Step(t, "socks5", S)
    BY <1>5 DEF Socks5Connect, Me
  <2>5. Sound(q1) /\ q1.at \in Running
    BY Zenon, <1>0, <1>1, <2>2, <2>3, OpensMore
  <2>6. Sound(Leaving(Refused(r), {"client"})) /\ Leaving(Refused(r), {"client"}).at \in Running
    BY Zenon, <2>2, MayLeave
  <2> HIDE DEF q1
  <2>7. \A q \in S : Sound(q) /\ q.at \in Running
    BY Zenon, <2>5, <2>6
  <2> HIDE DEF S
  <2> QED
    BY Zenon, <1>0, <1>1, <2>4, <2>7, StepsTo
<1>6. CASE Socks5Greet(t)
  <2>1. r.at = "socks5_greet"
    BY Zenon, <1>6 DEF Socks5Greet, Step
  <2>2. r.open = all /\ r.at \notin Left /\ "socks5_send" \in Running \ {"leave"} /\ Expected("socks5_send", r.plan) = all
    BY Zenon, <1>0, <1>1, <1>2, <2>1
  <2>3. \A q \in Greeted(r, "socks5_send", all) : Sound(q) /\ q.at \in Running
    BY Zenon, <1>0, <2>2, Greets
  <2> QED
    BY Zenon, <1>0, <1>1, <1>6, <2>3, StepsTo DEF Socks5Greet, Me, all
<1>7. CASE Socks5Send(t)
  <2>1. r.at = "socks5_send"
    BY Zenon, <1>7 DEF Socks5Send, Step
  <2>2. /\ r.open = all /\ r.at \notin Left /\ r.at \in Running \ {"leave"} /\ r.success
        /\ "socks5_relay" \in Running \ {"leave"} /\ Expected("socks5_relay", r.plan) = all
    BY Zenon, <1>0, <1>1, <1>2, <2>1
  <2>3. Sound(Forwarded(r, "socks5_relay")) /\ Forwarded(r, "socks5_relay").at \in Running
    BY Zenon, <1>0, <2>2, Forwards
  <2>4. Sound(Leaving(r, all)) /\ Leaving(r, all).at \in Running
    BY Zenon, <2>2, MayLeave
  <2> DEFINE S == {Forwarded(r, "socks5_relay")} \cup (IF r.held > 0 THEN {Leaving(r, all)} ELSE {})
  <2>5. Step(t, "socks5_send", S)
    BY <1>7 DEF Socks5Send, Me, all
  <2>6. \A q \in S : Sound(q) /\ q.at \in Running
    BY Zenon, <2>3, <2>4
  <2> HIDE DEF S
  <2> QED
    BY Zenon, <1>0, <1>1, <2>5, <2>6, StepsTo
<1>8. CASE Socks5Relayed(t)
  <2>1. r.at = "socks5_relay"
    BY Zenon, <1>8 DEF Socks5Relayed, Step
  <2>2. r.open = all /\ r.at \notin Left /\ r.at \in Running \ {"leave"} /\ r.success
    BY Zenon, <1>0, <1>1, <1>2, <2>1
  <2>3. Sound(Leaving(r, all)) /\ Leaving(r, all).at \in Running
    BY Zenon, <2>2, MayLeave
  <2> DEFINE S == {Leaving(r, all)}
  <2>4. Step(t, "socks5_relay", S)
    BY <1>8 DEF Socks5Relayed, Me, all
  <2>5. \A q \in S : Sound(q) /\ q.at \in Running
    BY Zenon, <2>3
  <2> HIDE DEF S
  <2> QED
    BY Zenon, <1>0, <1>1, <2>4, <2>5, StepsTo
<1> QED
  BY Zenon, <1>3, <1>4, <1>5, <1>6, <1>7, <1>8

\* The carriers: connecting, preparing, and the greeting.
LEMMA CarrierSteps ==
  ASSUME NEW t \in Thread, Sound(worker[t]),
         \/ UpstreamConnect(t) \/ Prepare(t) \/ TrojanBuildFails(t) \/ Greet(t)
  PROVE  Continues(t)
<1> DEFINE r == worker[t]
           all == {"upstream", "client"}
           more == IF r.plan.protocol = "vision" THEN {"unpad"} ELSE {}
<1>0. /\ "connect" \in Begun \ {"accepted"} /\ "connect" \in Begun
      /\ "prepare" \in OnProxy /\ "prepare" \notin Plain /\ "prepare" \notin Told
      /\ "prepare" \notin PassedOn \cup NothingRead
      /\ "plain_send" \in OnProxy /\ "plain_send" \notin Told /\ "plain_send" \notin PassedOn \cup NothingRead
      /\ "greet" \in OnCarrier /\ "greet" \notin Plain /\ "greet" \notin Told /\ "greet" \notin PassedOn \cup NothingRead
      /\ "first_read" \in OnCarrier /\ "first_read" \notin Plain /\ "first_read" \notin PassedOn \cup NothingRead
      /\ {"upstream"} \in SUBSET Things /\ {"client"} \cup {"upstream"} = all
  BY DEF Begun, OnProxy, OnCarrier, Plain, Told, PassedOn, NothingRead, Things
<1>1. /\ \A a \in OnProxy : a \in Running \ {"leave"} /\ a \in Running /\ a \notin Left /\ Expected(a, r.plan) = all
      /\ \A a \in OnCarrier : a \in Running \ {"leave"} /\ a \in Running /\ a \notin Left /\ Expected(a, r.plan) = all \cup more
  <2>1. \A a \in OnProxy : Expected(a, r.plan) = all
    BY Zenon, ExpectedAt
  <2>2. \A a \in OnCarrier : Expected(a, r.plan) = all \cup more
    BY Zenon, ExpectedAt
  <2> QED
    BY Zenon, Going, <2>1, <2>2
<1>2. r.open = Expected(r.at, r.plan)
  BY Zenon, Here
<1>3. CASE UpstreamConnect(t)
  <2>1. r.at = "connect"
    BY Zenon, <1>3 DEF UpstreamConnect, Step
  <2>2. /\ "connect" \in Running \ {"leave"} /\ "connect" \in Running /\ "connect" \notin Left
        /\ Expected("connect", r.plan) = {"client"}
    BY Zenon, <1>0, Going, ExpectedAt
  <2>3. r.open = {"client"} /\ r.at \in Running \ {"leave"} /\ r.at \notin Left
    BY Zenon, <1>2, <2>1, <2>2
  <2> HIDE DEF all, more
  <2>4. r.open \cup {"upstream"} = Expected("prepare", r.plan)
    BY Zenon, <1>0, <1>1, <2>3
  <2> DEFINE q1 == [r EXCEPT !.at = "prepare", !.open = @ \cup {"upstream"}]
             S == {Leaving(Refused(r), {"client"}), q1}
  <2>5. Step(t, "connect", S)
    BY <1>3 DEF UpstreamConnect, Me
  <2>6. Sound(q1) /\ q1.at \in Running
    BY Zenon, <1>0, <1>1, <2>3, <2>4, OpensMore
  <2>7. Sound(Leaving(Refused(r), {"client"})) /\ Leaving(Refused(r), {"client"}).at \in Running
    BY Zenon, <2>3, MayLeave
  <2> HIDE DEF q1
  <2>8. \A q \in S : Sound(q) /\ q.at \in Running
    BY Zenon, <2>6, <2>7
  <2> HIDE DEF S
  <2> QED
    BY Zenon, <2>2, <2>5, <2>8, StepsTo
<1>4. CASE Prepare(t)
  <2> DEFINE next == IF r.plan.protocol = "vless" THEN "plain_send" ELSE "greet"
             extra == UpVision(t) \ Up(t)
             q1 == [r EXCEPT !.at = next, !.open = @ \cup extra]
             S == {Leaving(Refused(r), all), q1}
  <2>1. r.at = "prepare"
    BY Zenon, <1>4 DEF Prepare, Step
  <2>2. r.open = all /\ r.at \in Running \ {"leave"} /\ r.at \notin Left
    BY Zenon, <1>0, <1>1, <1>2, <2>1
  <2>3. extra = more /\ more \in SUBSET Things /\ (r.plan.protocol = "vless" => more = {})
    BY DEF UpVision, Up, Protocol, Things
  <2>4. r.open \cup extra = Expected(next, r.plan)
    BY Zenon, <1>0, <1>1, <2>2, <2>3
  <2>5. /\ next \in Running \ {"leave"} /\ (next \in Plain => r.plan.protocol = "vless")
        /\ next \notin Told /\ next \notin PassedOn \cup NothingRead
    BY Zenon, <1>0, <1>1
  <2>6. Step(t, "prepare", S)
    BY <1>4 DEF Prepare, Me, Protocol, Up
  <2> HIDE DEF next
  <2>7. Sound(q1) /\ q1.at \in Running
    BY Zenon, <2>2, <2>3, <2>4, <2>5, OpensMore
  <2>8. Sound(Leaving(Refused(r), all)) /\ Leaving(Refused(r), all).at \in Running
    BY Zenon, <2>2, MayLeave
  <2> HIDE DEF q1
  <2>9. \A q \in S : Sound(q) /\ q.at \in Running
    BY Zenon, <2>7, <2>8
  <2> HIDE DEF S
  <2> QED
    BY Zenon, <1>0, <1>1, <2>6, <2>9, StepsTo
<1>5. CASE TrojanBuildFails(t)
  <2> DEFINE S == {Leaving(Refused(r), all)}
  <2>1. r.at = "greet" /\ r.plan.protocol = "trojan" /\ Step(t, "greet", S)
    BY <1>5 DEF TrojanBuildFails, Step, Protocol, Me, Up
  <2>2. more = {}
    BY <2>1
  <2>3. r.open = all /\ r.at \in Running \ {"leave"} /\ r.at \notin Left
    BY Zenon, <1>0, <1>1, <1>2, <2>1, <2>2
  <2>4. Sound(Leaving(Refused(r), all)) /\ Leaving(Refused(r), all).at \in Running
    BY Zenon, <2>3, MayLeave
  <2>5. \A q \in S : Sound(q) /\ q.at \in Running
    BY Zenon, <2>4
  <2> HIDE DEF S
  <2> QED
    BY Zenon, <1>0, <1>1, <2>1, <2>5, StepsTo
<1>6. CASE Greet(t)
  <2> DEFINE things == all \cup more
  <2>1. r.at = "greet"
    BY Zenon, <1>6 DEF Greet, Step
  <2>2. Step(t, "greet", Greeted(r, "first_read", things))
    BY Zenon, <1>6 DEF Greet, Me, UpVision, Up, Protocol
  <2>3. /\ r.open = things /\ r.at \notin Left
        /\ "first_read" \in Running \ {"leave"} /\ Expected("first_read", r.plan) = things
    BY Zenon, <1>0, <1>1, <1>2, <2>1
  <2> HIDE DEF things
  <2>4. \A q \in Greeted(r, "first_read", things) : Sound(q) /\ q.at \in Running
    BY Zenon, <1>0, <2>3, Greets
  <2> QED
    BY Zenon, <1>0, <1>1, <2>2, <2>4, StepsTo
<1> QED
  BY Zenon, <1>3, <1>4, <1>5, <1>6

\* The first packet of a carrier that has payload in it, and the relay.
LEMMA FirstPacketSteps ==
  ASSUME NEW t \in Thread, Sound(worker[t]),
         \/ FirstRead(t) \/ FirstSend(t) \/ TrojanSend(t) \/ ProtocolOpen(t) \/ StartRelay(t) \/ Relayed(t)
  PROVE  Continues(t)
<1> DEFINE r == worker[t]
           all == {"upstream", "client"}
           more == IF r.plan.protocol = "vision" THEN {"unpad"} ELSE {}
           things == all \cup more
<1>0. /\ "first_read" \in OnCarrier /\ "first_read" \in Told
      /\ "first_send" \in OnCarrier /\ "first_send" \in Told /\ "first_send" \notin Plain \cup PassedOn \cup NothingRead
      /\ "first_send" \notin Plain /\ "first_send" \notin PassedOn \cup NothingRead
      /\ "start" \in OnCarrier /\ "start" \in Told /\ "start" \notin Plain /\ "start" \in PassedOn \cup NothingRead
      /\ "relay" \in OnCarrier /\ "relay" \in Told /\ "relay" \notin Plain
  BY DEF OnCarrier, Plain, Told, PassedOn, NothingRead
<1>1. \A a \in OnCarrier : a \in Running \ {"leave"} /\ a \in Running /\ a \notin Left /\ Expected(a, r.plan) = things
  <2>1. \A a \in OnCarrier : Expected(a, r.plan) = things
    BY Zenon, ExpectedAt
  <2> QED
    BY Zenon, Going, <2>1
<1>2. /\ r.open = Expected(r.at, r.plan) /\ (r.at \in Told => r.success) /\ r.held \in Nat
      /\ (r.at \in PassedOn \cup NothingRead => r.held = 0)
  BY Zenon, Here
<1>3. UpVision(t) = things /\ Up(t) = all /\ (r.plan.protocol # "vision" => things = all)
  BY DEF UpVision, Up, Protocol
<1> HIDE DEF things, all
<1>4. ASSUME r.at \in OnCarrier \cap Told
      PROVE  /\ r.open = things /\ r.at \notin Left /\ r.at \in Running \ {"leave"} /\ r.at \in Running /\ r.success
             /\ Sound(Leaving(r, things)) /\ Leaving(r, things).at \in Running
  <2>1. r.open = things /\ r.at \notin Left /\ r.at \in Running \ {"leave"} /\ r.at \in Running /\ r.success
    BY Zenon, <1>1, <1>2, <1>4
  <2> QED
    BY Zenon, <2>1, MayLeave
<1>5. CASE FirstRead(t)
  <2> DEFINE S == IF r.held > 0 THEN {[r EXCEPT !.at = "first_send"]} ELSE PayloadRead(r, "first_send", things)
  <2>1. r.at = "first_read" /\ Step(t, "first_read", S)
    BY Zenon, <1>3, <1>5 DEF FirstRead, Step, Me
  <2>2. r.open = things /\ r.at \notin Left /\ r.success
    BY Zenon, <1>0, <1>4, <2>1
  <2>3. "first_send" \in Running \ {"leave"} /\ Expected("first_send", r.plan) = things
    BY Zenon, <1>0, <1>1
  <2>4. Sound([r EXCEPT !.at = "first_send"]) /\ [r EXCEPT !.at = "first_send"].at \in Running
    BY Zenon, <1>0, <2>2, <2>3, MovesOn
  <2>5. r.held = 0 => \A q \in PayloadRead(r, "first_send", things) : Sound(q) /\ q.at \in Running
    BY Zenon, <1>0, <2>2, <2>3, Reads
  <2>6. r.held > 0 \/ r.held = 0
    BY <1>2
  <2>7. ~(r.held > 0) => r.held = 0
    BY Zenon, <2>6
  <2>8. \A q \in S : Sound(q) /\ q.at \in Running
    BY Zenon, <2>4, <2>5, <2>7
  <2> HIDE DEF S
  <2> QED
    BY Zenon, <1>0, <1>1, <2>1, <2>8, StepsTo
<1>6. ASSUME r.at = "first_send"
      PROVE  /\ Sound(Forwarded(r, "start")) /\ Forwarded(r, "start").at \in Running
             /\ Sound(Leaving(r, things)) /\ Leaving(r, things).at \in Running /\ r.at \in Running
  <2>1. r.open = things /\ r.at \notin Left /\ r.success /\ r.at \in Running
        /\ Sound(Leaving(r, things)) /\ Leaving(r, things).at \in Running
    BY Zenon, <1>0, <1>4, <1>6
  <2>2. "start" \in Running \ {"leave"} /\ Expected("start", r.plan) = things
    BY Zenon, <1>0, <1>1
  <2>3. Sound(Forwarded(r, "start")) /\ Forwarded(r, "start").at \in Running
    BY Zenon, <1>0, <2>1, <2>2, Forwards
  <2> QED
    BY Zenon, <2>1, <2>3
<1>7. CASE FirstSend(t)
  <2> DEFINE S == {Forwarded(r, "start"), Leaving(r, things)}
  <2>1. r.at = "first_send" /\ Step(t, "first_send", S)
    BY Zenon, <1>3, <1>7 DEF FirstSend, Step, Me
  <2>2. \A q \in S : Sound(q) /\ q.at \in Running
    BY Zenon, <1>6, <2>1
  <2> HIDE DEF S
  <2> QED
    BY Zenon, <1>0, <1>1, <2>1, <2>2, StepsTo
<1>8. CASE TrojanSend(t)
  <2> DEFINE S == {Forwarded(r, "start"), Leaving(r, things)}
  <2>1. r.plan.protocol = "trojan" /\ r.at = "first_send" /\ Step(t, "first_send", {Forwarded(r, "start"), Leaving(r, all)})
    BY Zenon, <1>3, <1>8 DEF TrojanSend, Step, Me, Protocol
  <2>2. things = all
    BY <1>3, <2>1
  <2>3. \A q \in S : Sound(q) /\ q.at \in Running
    BY Zenon, <1>6, <2>1
  <2>4. Step(t, "first_send", S)
    BY Zenon, <2>1, <2>2
  <2> HIDE DEF S
  <2> QED
    BY Zenon, <1>0, <1>1, <2>3, <2>4, StepsTo
<1>9. CASE ProtocolOpen(t)
  <2> DEFINE S == {r, Forwarded(r, "start"), Leaving(r, things)}
  <2>1. r.plan.protocol = "vmess" /\ r.at = "first_send" /\ Step(t, "first_send", {r, Forwarded(r, "start"), Leaving(r, all)})
    BY Zenon, <1>3, <1>9 DEF ProtocolOpen, Step, Me, Protocol
  <2>2. things = all
    BY <1>3, <2>1
  <2>3. \A q \in S : Sound(q) /\ q.at \in Running
    BY Zenon, <1>6, <2>1
  <2>4. Step(t, "first_send", S)
    BY Zenon, <2>1, <2>2
  <2> HIDE DEF S
  <2> QED
    BY Zenon, <1>0, <1>1, <2>3, <2>4, StepsTo
<1>10. CASE StartRelay(t)
  <2> DEFINE S == {Leaving(r, things), [r EXCEPT !.at = "relay"]}
  <2>1. r.at = "start" /\ Step(t, "start", S)
    BY Zenon, <1>3, <1>10 DEF StartRelay, Step, Me
  <2>2. r.open = things /\ r.at \notin Left /\ r.success /\ r.held = 0
    BY Zenon, <1>0, <1>2, <1>4, <2>1
  <2>3. "relay" \in Running \ {"leave"} /\ Expected("relay", r.plan) = things
    BY Zenon, <1>0, <1>1
  <2>4. Sound([r EXCEPT !.at = "relay"]) /\ [r EXCEPT !.at = "relay"].at \in Running
    BY Zenon, <1>0, <2>2, <2>3, MovesOn
  <2>5. \A q \in S : Sound(q) /\ q.at \in Running
    BY Zenon, <1>0, <1>4, <2>1, <2>4
  <2> HIDE DEF S
  <2> QED
    BY Zenon, <1>0, <1>1, <2>1, <2>5, StepsTo
<1>11. CASE Relayed(t)
  <2> DEFINE S == {Leaving(r, things)}
  <2>1. r.at = "relay" /\ Step(t, "relay", S)
    BY Zenon, <1>3, <1>11 DEF Relayed, Step, Me
  <2>2. \A q \in S : Sound(q) /\ q.at \in Running
    BY Zenon, <1>0, <1>4, <2>1
  <2> HIDE DEF S
  <2> QED
    BY Zenon, <1>0, <1>1, <2>1, <2>2, StepsTo
<1> QED
  BY Zenon, <1>5, <1>7, <1>8, <1>9, <1>10, <1>11

\* Plain VLESS: the request, what was sniffed, and then the greeting.
LEMMA PlainSteps ==
  ASSUME NEW t \in Thread, Sound(worker[t]), PlainSend(t) \/ PlainFirst(t) \/ PlainGreet(t)
  PROVE  Continues(t)
<1> DEFINE r == worker[t]
           all == {"upstream", "client"}
<1>0. /\ "plain_send" \in OnProxy /\ "plain_send" \in Plain
      /\ "plain_first" \in OnProxy /\ "plain_first" \in Plain /\ "plain_first" \notin Told
      /\ "plain_first" \notin PassedOn \cup NothingRead
      /\ "plain_greet" \in OnProxy /\ "plain_greet" \in Plain /\ "plain_greet" \notin Told
      /\ "plain_greet" \in PassedOn \cup NothingRead
      /\ "start" \in OnCarrier /\ "start" \notin Plain
  BY DEF OnProxy, OnCarrier, Plain, Told, PassedOn, NothingRead
<1>1. /\ \A a \in OnProxy : a \in Running \ {"leave"} /\ a \in Running /\ a \notin Left /\ Expected(a, r.plan) = all
  <2>1. \A a \in OnProxy : Expected(a, r.plan) = all
    BY Zenon, ExpectedAt
  <2> QED
    BY Zenon, Going, <2>1
<1>2. /\ r.open = Expected(r.at, r.plan) /\ (r.held # 0 => r.success) /\ r.held \in Nat
      /\ (r.at \in PassedOn \cup NothingRead => r.held = 0)
      /\ (r.at \in Plain => r.plan.protocol = "vless")
  BY Zenon, Here
<1>3. Up(t) = all
  BY DEF Up
<1>4. ASSUME r.at \in OnProxy \cap Plain
      PROVE  /\ r.open = all /\ r.at \notin Left /\ r.at \in Running \ {"leave"} /\ r.at \in Running
             /\ r.plan.protocol = "vless"
             /\ Sound(Leaving(Refused(r), all)) /\ Leaving(Refused(r), all).at \in Running
             /\ r.success => Sound(Leaving(r, all)) /\ Leaving(r, all).at \in Running
  <2>1. r.open = all /\ r.at \notin Left /\ r.at \in Running \ {"leave"} /\ r.at \in Running /\ r.plan.protocol = "vless"
    BY Zenon, <1>1, <1>2, <1>4
  <2> HIDE DEF all
  <2> QED
    BY Zenon, <2>1, MayLeave
<1>5. CASE PlainSend(t)
  <2> HIDE DEF all
  <2> DEFINE S == {Leaving(Refused(r), all), [r EXCEPT !.at = "plain_first"]}
  <2>1. r.at = "plain_send" /\ Step(t, "plain_send", S)
    BY Zenon, <1>3, <1>5 DEF PlainSend, Step, Me
  <2>2. r.open = all /\ r.at \notin Left /\ r.plan.protocol = "vless"
    BY Zenon, <1>0, <1>4, <2>1
  <2>3. "plain_first" \in Running \ {"leave"} /\ Expected("plain_first", r.plan) = all
    BY Zenon, <1>0, <1>1
  <2>4. Sound([r EXCEPT !.at = "plain_first"]) /\ [r EXCEPT !.at = "plain_first"].at \in Running
    BY Zenon, <1>0, <2>2, <2>3, MovesOn
  <2>5. \A q \in S : Sound(q) /\ q.at \in Running
    BY Zenon, <1>0, <1>4, <2>1, <2>4
  <2> HIDE DEF S
  <2> QED
    BY Zenon, <1>0, <1>1, <2>1, <2>5, StepsTo
<1>6. CASE PlainFirst(t)
  <2> HIDE DEF all
  <2> DEFINE S == {Forwarded(r, "plain_greet")} \cup (IF r.held > 0 THEN {Leaving(r, all)} ELSE {})
  <2>1. r.at = "plain_first" /\ Step(t, "plain_first", S)
    BY Zenon, <1>3, <1>6 DEF PlainFirst, Step, Me
  <2>2. r.open = all /\ r.at \notin Left /\ r.plan.protocol = "vless"
    BY Zenon, <1>0, <1>4, <2>1
  <2>3. "plain_greet" \in Running \ {"leave"} /\ Expected("plain_greet", r.plan) = all
    BY Zenon, <1>0, <1>1
  <2>4. Sound(Forwarded(r, "plain_greet")) /\ Forwarded(r, "plain_greet").at \in Running
    BY Zenon, <1>0, <2>2, <2>3, Forwards
  <2>5. r.held > 0 => r.held # 0
    BY <1>2
  <2>6. r.held > 0 => Sound(Leaving(r, all)) /\ Leaving(r, all).at \in Running
    BY Zenon, <1>0, <1>2, <1>4, <2>1, <2>5
  <2>7. \A q \in S : Sound(q) /\ q.at \in Running
    BY Zenon, <2>4, <2>6
  <2> HIDE DEF S
  <2> QED
    BY Zenon, <1>0, <1>1, <2>1, <2>7, StepsTo
<1>7. CASE PlainGreet(t)
  <2>1. r.at = "plain_greet" /\ Step(t, "plain_greet", Greeted(r, "start", all))
    BY Zenon, <1>3, <1>7 DEF PlainGreet, Step, Me
  <2>2. r.open = all /\ r.at \notin Left /\ r.plan.protocol = "vless" /\ r.held = 0
    BY Zenon, <1>0, <1>2, <1>4, <2>1
  <2>3. "start" \in Running \ {"leave"}
    BY Zenon, <1>0, Going
  <2>4. Expected("start", r.plan) = all \cup (IF r.plan.protocol = "vision" THEN {"unpad"} ELSE {})
    BY Zenon, <1>0, ExpectedAt
  <2>5. Expected("start", r.plan) = all
    BY <2>2, <2>4
  <2> HIDE DEF all
  <2>6. \A q \in Greeted(r, "start", all) : Sound(q) /\ q.at \in Running
    BY Zenon, <1>0, <2>2, <2>3, <2>5, Greets
  <2> QED
    BY Zenon, <1>0, <1>1, <2>1, <2>6, StepsTo
<1> QED
  BY Zenon, <1>5, <1>6, <1>7

-----------------------------------------------------------------------------
\* A session's slot is its own: a step of one session leaves the others be.
LEMMA OthersKept ==
  ASSUME NEW t \in Thread, NEW q, DOMAIN worker = Thread, \A u \in Thread : Sound(worker[u]), Sound(q),
         worker' = [worker EXCEPT ![t] = q]
  PROVE  /\ DOMAIN worker' = Thread /\ (\A u \in Thread : Sound(worker'[u]))
         /\ worker'[t] = q /\ \A u \in Thread : u # t => worker'[u] = worker[u]
<1>1. DOMAIN worker' = Thread /\ worker'[t] = q /\ \A u \in Thread : u # t => worker'[u] = worker[u]
  BY Zenon
<1> QED
  BY Zenon, <1>1

\* Which places hold a slot.
HoldsSlot(at) == at \notin {"none", "accepted", "detach"}

\* The slots held, after a step of one session.
LEMMA SlotsHeld ==
  ASSUME NEW t \in Thread, \A u \in Thread : u # t => worker'[u] = worker[u]
  PROVE  /\ IsFiniteSet(Holding) /\ Cardinality(Holding) \in Nat
         /\ HoldsSlot(worker[t].at) /\ HoldsSlot(worker'[t].at) => Cardinality(Holding') = Cardinality(Holding)
         /\ ~HoldsSlot(worker[t].at) /\ ~HoldsSlot(worker'[t].at) => Cardinality(Holding') = Cardinality(Holding)
         /\ ~HoldsSlot(worker[t].at) /\ HoldsSlot(worker'[t].at) => Cardinality(Holding') = Cardinality(Holding) + 1
         /\ HoldsSlot(worker[t].at) /\ ~HoldsSlot(worker'[t].at) =>
              Cardinality(Holding') = Cardinality(Holding) - 1 /\ Cardinality(Holding) > 0
<1>1. Holding = {u \in Thread : HoldsSlot(worker[u].at)} /\ Holding' = {u \in Thread : HoldsSlot(worker'[u].at)}
  BY Zenon DEF Holding, HoldsSlot
<1>2. IsFiniteSet(Holding)
  <2>1. Holding \subseteq Thread /\ IsFiniteSet(Thread)
    BY Zenon, <1>1, ThreadAssumption
  <2> QED
    BY Zenon, <2>1, FS_Subset
<1>3. Cardinality(Holding) \in Nat
  BY Zenon, <1>2, FS_CardinalityType
<1>4. \A u \in Thread : u # t => (u \in Holding' <=> u \in Holding)
  BY Zenon, <1>1
<1>5. (t \in Holding <=> HoldsSlot(worker[t].at)) /\ (t \in Holding' <=> HoldsSlot(worker'[t].at))
  BY Zenon, <1>1
<1>6. (t \in Holding <=> t \in Holding') => Holding' = Holding
  BY Zenon, <1>1, <1>4
<1>7. t \notin Holding /\ t \in Holding' => Holding' = Holding \cup {t}
  BY Zenon, <1>1, <1>4
<1>8. t \in Holding /\ t \notin Holding' => Holding' = Holding \ {t}
  BY Zenon, <1>1, <1>4
<1>9. t \notin Holding => Cardinality(Holding \cup {t}) = Cardinality(Holding) + 1
  BY Zenon, <1>2, FS_AddElement
<1>10. t \in Holding => Cardinality(Holding \ {t}) = Cardinality(Holding) - 1
  BY Zenon, <1>2, FS_RemoveElement
<1>11. t \in Holding => Cardinality(Holding) # 0
  BY Zenon, <1>2, FS_EmptySet
<1>12. t \in Holding => Cardinality(Holding) > 0
  BY <1>3, <1>11
<1> QED
  BY Zenon, <1>2, <1>3, <1>5, <1>6, <1>7, <1>8, <1>9, <1>10, <1>12

\* A session that goes on keeps the invariant.
LEMMA ContinuingKeeps ==
  ASSUME WorkerInv, NEW t \in Thread, Continues(t)
  PROVE  WorkerInv'
<1>1. PICK q : Sound(q) /\ q.at \in Running /\ worker' = [worker EXCEPT ![t] = q]
  BY Zenon DEF Continues
<1>2. /\ DOMAIN worker' = Thread /\ (\A u \in Thread : Sound(worker'[u]))
      /\ worker'[t] = q /\ \A u \in Thread : u # t => worker'[u] = worker[u]
  BY Zenon, <1>1, OthersKept DEF WorkerInv
<1>3. \A a \in Running : HoldsSlot(a) /\ a # "accepted"
  BY DEF Running, HoldsSlot
<1>4. worker[t].at \in Running /\ g_active_client_count' = g_active_client_count /\ listener' = listener
  BY Zenon DEF Continues
<1>5. Cardinality(Holding') = Cardinality(Holding)
  BY Zenon, <1>1, <1>2, <1>3, <1>4, SlotsHeld
<1>6. SlotsExact'
  BY Zenon, <1>4, <1>5 DEF WorkerInv, SlotsExact, Listening
<1>7. HandOver'
  BY Zenon, <1>2, <1>3, <1>4 DEF WorkerInv, HandOver
<1> QED
  BY Zenon, <1>2, <1>4, <1>6, <1>7 DEF WorkerInv

\* A session that has left, or whose thread has ended.
LEMMA EndedSessions ==
  ASSUME NEW r, Sound(r)
  PROVE  /\ Sound(NoWorker) /\ NoWorker.at = "none"
         /\ r.at = "leave" => Sound([r EXCEPT !.at = "detach"]) /\ [r EXCEPT !.at = "detach"].at = "detach"
<1>1. /\ \A a \in {"none", "leave", "detach"} : a \in Ending /\ a \in Places /\ a \notin Plain /\ a \notin Told
      /\ "none" \notin Left /\ "none" # "leave" /\ "detach" \in Left /\ "detach" # "leave" /\ "leave" \in Left
      /\ "detach" \notin PassedOn \cup NothingRead
  BY DEF Ending, Places, Plain, Told, Left, PassedOn, NothingRead
<1>2. Sound(NoWorker) /\ NoWorker.at = "none"
  <2> DEFINE n == NoWorker
  <2>1. /\ n.at = "none" /\ n.open = {} /\ ~n.closedTwice /\ ~n.success /\ n.failures = 0 /\ ~n.silent
        /\ n.read = 0 /\ n.held = 0 /\ n.sent = 0 /\ 0 \in Nat /\ 0 = 0 + 0
    BY DEF NoWorker
  <2>2. n \in SessionRecords
    BY Zenon, <1>1, <2>1 DEF SessionRecords, NoWorker
  <2> HIDE DEF n
  <2>3. n.open = Expected(n.at, n.plan)
    BY Zenon, <1>1, <2>1 DEF Expected
  <2>4. Replied(n) /\ Carried(n)
    BY Zenon, <1>1, <2>1 DEF Replied, Carried
  <2>5. Sound(n) /\ n.at = "none"
    BY Zenon, <1>1, <2>1, <2>2, <2>3, <2>4 DEF Sound
  <2> QED
    BY Zenon, <2>5 DEF n
<1>3. ASSUME r.at = "leave" PROVE Sound([r EXCEPT !.at = "detach"]) /\ [r EXCEPT !.at = "detach"].at = "detach"
  <2> DEFINE q == [r EXCEPT !.at = "detach"]
  <2>1. /\ r \in SessionRecords /\ r.open = Expected(r.at, r.plan) /\ ~r.closedTwice /\ r.read = r.sent + r.held
        /\ (r.failures = 0 \/ (r.failures = 1 /\ ~r.success)) /\ (r.held # 0 => r.success)
    BY Zenon, <1>1, <1>3 DEF Sound, Replied, Carried
  <2>2. /\ q \in SessionRecords /\ q.at = "detach" /\ q.plan = r.plan /\ q.open = r.open
        /\ q.closedTwice = r.closedTwice /\ q.success = r.success /\ q.failures = r.failures
        /\ q.read = r.read /\ q.held = r.held /\ q.sent = r.sent
    BY Zenon, <1>1, <2>1 DEF SessionRecords
  <2> HIDE DEF q
  <2>3. q.open = Expected(q.at, q.plan)
    BY Zenon, <1>1, <1>3, <2>1, <2>2 DEF Expected
  <2>4. Replied(q) /\ Carried(q)
    BY Zenon, <1>1, <2>1, <2>2 DEF Replied, Carried
  <2>5. Sound(q) /\ q.at = "detach"
    BY Zenon, <1>1, <2>1, <2>2, <2>3, <2>4 DEF Sound
  <2> QED
    BY Zenon, <2>5 DEF q
<1> QED
  BY Zenon, <1>2, <1>3

\* Leave and Detach: the slot is released once, and the thread's place is free.
LEMMA EndingKeeps ==
  ASSUME WorkerInv, NEW t \in Thread, Leave(t) \/ Detach(t)
  PROVE  WorkerInv'
<1>1. /\ DOMAIN worker = Thread /\ (\A u \in Thread : Sound(worker[u])) /\ g_active_client_count \in Nat
      /\ HandOver /\ SlotsExact
  BY Zenon DEF WorkerInv
<1>2. /\ HoldsSlot("leave") /\ ~HoldsSlot("detach") /\ ~HoldsSlot("none")
      /\ "leave" # "accepted" /\ "detach" # "accepted"
  BY DEF HoldsSlot
<1>3. CASE Leave(t)
  <2> DEFINE q == [worker[t] EXCEPT !.at = "detach"]
  <2>1. worker[t].at = "leave" /\ g_active_client_count' = release_client_slot /\ listener' = listener
    BY Zenon, <1>3 DEF Leave
  <2>2. worker' = [worker EXCEPT ![t] = q]
    BY Zenon, <1>3 DEF Leave
  <2>3. Sound(q) /\ q.at = "detach"
    BY Zenon, <1>1, <2>1, EndedSessions
  <2> HIDE DEF q
  <2>4. /\ DOMAIN worker' = Thread /\ (\A u \in Thread : Sound(worker'[u]))
        /\ worker'[t] = q /\ \A u \in Thread : u # t => worker'[u] = worker[u]
    BY Zenon, <1>1, <2>2, <2>3, OthersKept
  <2>5. Cardinality(Holding') = Cardinality(Holding) - 1 /\ Cardinality(Holding) > 0 /\ Cardinality(Holding) \in Nat
    BY Zenon, <1>2, <2>1, <2>3, <2>4, SlotsHeld
  <2>6. SlotsExact' /\ g_active_client_count' \in Nat
    <3> DEFINE c == Cardinality(Holding)
    <3>1. Cardinality(Holding') = c - 1 /\ c > 0 /\ c \in Nat
      BY <2>5
    <3>2. g_active_client_count = c + (IF Listening("create") THEN 1 ELSE 0) /\ g_active_client_count <= MaxClients
      BY Zenon, <1>1 DEF SlotsExact
    <3>3. Listening("create")' = Listening("create")
      BY Zenon, <2>1 DEF Listening
    <3> HIDE DEF c
    <3>4. g_active_client_count' = g_active_client_count - 1
      BY <2>1, <3>1, <3>2, <1>1 DEF release_client_slot
    <3>5. /\ g_active_client_count' = (c - 1) + (IF Listening("create") THEN 1 ELSE 0)
          /\ g_active_client_count' <= MaxClients /\ g_active_client_count' \in Nat
      BY <1>1, <3>1, <3>2, <3>4, ThreadAssumption
    <3> QED
      BY Zenon, <3>1, <3>3, <3>5 DEF SlotsExact
  <2>7. HandOver'
    BY Zenon, <1>1, <1>2, <2>1, <2>4 DEF HandOver
  <2> QED
    BY Zenon, <2>4, <2>6, <2>7 DEF WorkerInv
<1>4. CASE Detach(t)
  <2>1. /\ worker[t].at = "detach" /\ g_active_client_count' = g_active_client_count /\ listener' = listener
        /\ worker' = [worker EXCEPT ![t] = NoWorker]
    BY Zenon, <1>4 DEF Detach, Step
  <2>2. Sound(NoWorker) /\ NoWorker.at = "none"
    BY Zenon, <1>1, EndedSessions
  <2>3. /\ DOMAIN worker' = Thread /\ (\A u \in Thread : Sound(worker'[u]))
        /\ worker'[t] = NoWorker /\ \A u \in Thread : u # t => worker'[u] = worker[u]
    BY Zenon, <1>1, <2>1, <2>2, OthersKept
  <2>4. Cardinality(Holding') = Cardinality(Holding)
    BY Zenon, <1>2, <2>1, <2>2, <2>3, SlotsHeld
  <2>5. SlotsExact'
    BY Zenon, <1>1, <2>1, <2>4 DEF SlotsExact, Listening
  <2>6. HandOver'
    BY Zenon, <1>1, <1>2, <2>1, <2>3 DEF HandOver
  <2> QED
    BY Zenon, <1>1, <2>1, <2>3, <2>5, <2>6 DEF WorkerInv
<1> QED
  BY Zenon, <1>3, <1>4

\* The client that was just accepted, and the session its thread starts.
LEMMA NewSessions ==
  /\ \A p \in Plans : LET q == [NoWorker EXCEPT !.at = "accepted", !.plan = p, !.open = {"client"}]
                      IN  Sound(q) /\ q.at = "accepted"
  /\ \A r : Sound(r) /\ r.at = "accepted" =>
       /\ Sound([r EXCEPT !.at = "attach"]) /\ [r EXCEPT !.at = "attach"].at = "attach"
       /\ r.open = {"client"} /\ ~r.closedTwice
<1>1. /\ \A a \in {"accepted", "attach"} :
            a \in Begun /\ a \in Places /\ a \notin Plain /\ a \notin Told /\ a \notin Left /\ a # "leave"
            /\ a \in PassedOn \cup NothingRead
      /\ {"client"} \in SUBSET Things
  BY DEF Begun, Places, Plain, Told, Left, PassedOn, NothingRead, Things
<1>2. \A p : \A a \in Begun : Expected(a, p) = {"client"}
  BY Zenon, ExpectedAt
<1>3. ASSUME NEW q \in SessionRecords, q.at \in {"accepted", "attach"}, q.open = {"client"}, ~q.closedTwice,
             q.failures = 0, q.held = 0, q.read = q.sent + q.held
      PROVE  Sound(q)
  <2>1. Replied(q) /\ Carried(q)
    BY Zenon, <1>1, <1>3 DEF Replied, Carried
  <2>2. q.open = Expected(q.at, q.plan) /\ q.at \notin Plain
    BY Zenon, <1>1, <1>2, <1>3
  <2> QED
    BY Zenon, <1>3, <2>1, <2>2 DEF Sound
<1>4. ASSUME NEW p \in Plans
      PROVE  LET q == [NoWorker EXCEPT !.at = "accepted", !.plan = p, !.open = {"client"}]
             IN  Sound(q) /\ q.at = "accepted"
  <2> DEFINE q == [NoWorker EXCEPT !.at = "accepted", !.plan = p, !.open = {"client"}]
  <2>1. 0 \in Nat /\ 0 = 0 + 0
    OBVIOUS
  <2>2. /\ q.at = "accepted" /\ q.open = {"client"} /\ ~q.closedTwice /\ q.failures = 0
        /\ q.read = 0 /\ q.held = 0 /\ q.sent = 0
    BY Zenon DEF NoWorker
  <2>3. q \in SessionRecords
    BY Zenon, <1>1, <2>1 DEF SessionRecords, NoWorker
  <2> HIDE DEF q
  <2>4. Sound(q) /\ q.at = "accepted"
    BY Zenon, <1>3, <2>1, <2>2, <2>3
  <2> QED
    BY Zenon, <2>4 DEF q
<1>5. ASSUME NEW r, Sound(r), r.at = "accepted"
      PROVE  /\ Sound([r EXCEPT !.at = "attach"]) /\ [r EXCEPT !.at = "attach"].at = "attach"
             /\ r.open = {"client"} /\ ~r.closedTwice
  <2> DEFINE q == [r EXCEPT !.at = "attach"]
  <2>1. /\ r \in SessionRecords /\ ~r.closedTwice /\ r.failures = 0 /\ r.held = 0 /\ r.read = r.sent + r.held
        /\ r.open = Expected(r.at, r.plan)
    BY Zenon, <1>1, <1>5 DEF Sound, Replied, Carried
  <2>2. r.open = {"client"}
    BY Zenon, <1>1, <1>2, <1>5, <2>1
  <2>3. /\ q \in SessionRecords /\ q.at = "attach" /\ q.open = r.open /\ q.closedTwice = r.closedTwice
        /\ q.failures = r.failures /\ q.held = r.held /\ q.sent = r.sent /\ q.read = r.read
    BY Zenon, <1>1, <2>1 DEF SessionRecords
  <2> HIDE DEF q
  <2>4. Sound(q) /\ q.at = "attach"
    BY Zenon, <1>3, <2>1, <2>2, <2>3
  <2> QED
    BY Zenon, <2>1, <2>2, <2>4 DEF q
<1> QED
  BY Zenon, <1>4, <1>5

\* The accept itself, and the listener's end.
LEMMA AcceptKeeps ==
  ASSUME WorkerInv, Accept \/ AcceptFails
  PROVE  WorkerInv'
<1>1. /\ DOMAIN worker = Thread /\ (\A u \in Thread : Sound(worker[u])) /\ g_active_client_count \in Nat
      /\ HandOver /\ SlotsExact
  BY Zenon DEF WorkerInv
<1>2. listener \in [at : {"accept", "slot", "create", "ended"}, thread : Thread \cup {NoThread}, accepts : Nat]
  BY Zenon, <1>1 DEF HandOver
<1>3. CASE Accept
  <2>1. PICK t \in Thread, p \in Plans :
          /\ worker[t].at = "none"
          /\ worker' = [worker EXCEPT ![t] = [NoWorker EXCEPT !.at = "accepted", !.plan = p, !.open = {"client"}]]
          /\ listener' = [listener EXCEPT !.at = "slot", !.thread = t, !.accepts = @ + 1]
    BY Zenon, <1>3 DEF Accept
  <2> DEFINE q == [NoWorker EXCEPT !.at = "accepted", !.plan = p, !.open = {"client"}]
  <2>2. Sound(q) /\ q.at = "accepted" /\ worker' = [worker EXCEPT ![t] = q]
    BY Zenon, <2>1, NewSessions
  <2> HIDE DEF q
  <2>3. /\ DOMAIN worker' = Thread /\ (\A u \in Thread : Sound(worker'[u]))
        /\ worker'[t] = q /\ \A u \in Thread : u # t => worker'[u] = worker[u]
    BY Zenon, <1>1, <2>2, OthersKept
  <2>4. ~HoldsSlot("none") /\ ~HoldsSlot("accepted")
    BY DEF HoldsSlot
  <2>a. ~HoldsSlot(worker[t].at) /\ ~HoldsSlot(worker'[t].at)
    <3>1. worker[t].at = "none"
      BY Zenon, <2>1
    <3>2. worker'[t].at = "accepted"
      BY Zenon, <2>2, <2>3
    <3> QED
      BY Zenon, <2>4, <3>1, <3>2
  <2>b. \A u \in Thread : u # t => worker'[u] = worker[u]
    BY Zenon, <2>3
  <2>5. Cardinality(Holding') = Cardinality(Holding)
    BY Zenon, <2>a, <2>b, SlotsHeld
  <2>6. /\ listener' \in [at : {"accept", "slot", "create", "ended"}, thread : Thread \cup {NoThread}, accepts : Nat]
        /\ listener'.at = "slot" /\ listener'.thread = t
    <3>1. listener' = [listener EXCEPT !.at = "slot", !.thread = t, !.accepts = @ + 1]
      BY Zenon, <2>1
    <3>2. \A n \in Nat : n + 1 \in Nat
      OBVIOUS
    <3> QED
      BY Zenon, <1>2, <3>1, <3>2
  <2>7. HandOver'
    BY Zenon, <2>2, <2>3, <2>6 DEF HandOver
  <2>8. ~Listening("create") /\ ~Listening("create")' /\ g_active_client_count' = g_active_client_count
    <3>1. listener.at = "accept" /\ g_active_client_count' = g_active_client_count
      BY Zenon, <1>3 DEF Accept, Listening
    <3>2. "accept" # "create" /\ "slot" # "create"
      OBVIOUS
    <3> QED
      BY Zenon, <2>6, <3>1, <3>2 DEF Listening
  <2>9. SlotsExact'
    BY Zenon, <1>1, <2>5, <2>8 DEF SlotsExact
  <2> QED
    BY Zenon, <1>1, <2>3, <2>7, <2>8, <2>9 DEF WorkerInv
<1>4. CASE AcceptFails
  <2>1. worker' = worker /\ g_active_client_count' = g_active_client_count /\ listener' = [listener EXCEPT !.at = "ended"]
    BY Zenon, <1>4 DEF AcceptFails
  <2>2. /\ listener' \in [at : {"accept", "slot", "create", "ended"}, thread : Thread \cup {NoThread}, accepts : Nat]
        /\ listener'.at = "ended"
    BY <1>2, <2>1
  <2>3. HandOver'
    BY <2>2 DEF HandOver
  <2>4. ~Listening("create") /\ ~Listening("create")'
    BY <1>4, <2>2 DEF AcceptFails, Listening
  <2>5. SlotsExact'
    BY Zenon, <1>1, <2>1, <2>4 DEF SlotsExact, Holding
  <2> QED
    BY Zenon, <1>1, <2>1, <2>3, <2>5 DEF WorkerInv
<1> QED
  BY Zenon, <1>3, <1>4

\* Turning a client away closes its socket and leaves no session behind.
LEMMA TurnedAway ==
  ASSUME NEW t \in Thread, Sound(worker[t]), worker[t].at = "accepted"
  PROVE  \E q : Sound(q) /\ q.at = "none" /\ Turned(t) = [worker EXCEPT ![t] = q]
<1>1. worker[t].open = {"client"} /\ ~worker[t].closedTwice /\ worker[t] \in SessionRecords
  BY Zenon, NewSessions DEF Sound
<1> DEFINE c == Closing(worker[t], {"client"})
           q == [NoWorker EXCEPT !.closedTwice = c.closedTwice, !.open = c.open]
<1>2. c.open = {} /\ ~c.closedTwice /\ c.closedTwice \in BOOLEAN
  BY Zenon, <1>1 DEF Closing, SessionRecords
<1> HIDE DEF c
<1>3. /\ "none" \in Ending /\ "none" \in Places /\ "none" \notin Plain /\ "none" \notin Told /\ "none" \notin Left
      /\ "none" # "leave" /\ 0 \in Nat /\ 0 = 0 + 0
  BY DEF Ending, Places, Plain, Told, Left
<1>4. /\ q.at = "none" /\ q.open = {} /\ ~q.closedTwice /\ q.failures = 0 /\ q.read = 0 /\ q.held = 0 /\ q.sent = 0
  BY Zenon, <1>2 DEF NoWorker
<1>5. q \in SessionRecords
  BY Zenon, <1>2, <1>3 DEF SessionRecords, NoWorker
<1>6. Turned(t) = [worker EXCEPT ![t] = q]
  BY Zenon DEF Turned, c
<1> HIDE DEF q
<1>7. q.open = Expected(q.at, q.plan)
  BY Zenon, <1>3, <1>4 DEF Expected
<1>8. Replied(q) /\ Carried(q)
  BY Zenon, <1>3, <1>4 DEF Replied, Carried
<1>9. Sound(q)
  BY Zenon, <1>3, <1>4, <1>5, <1>7, <1>8 DEF Sound
<1> QED
  BY Zenon, <1>4, <1>6, <1>9

\* The slot, and the thread: one is taken, or the client is turned away; the
\* thread starts, or the slot goes back.
LEMMA HandOverKeeps ==
  ASSUME WorkerInv, AcquireSlot \/ NoSlot \/ CreateFails \/ CreateThread
  PROVE  WorkerInv'
<1> DEFINE t == listener.thread
           Listeners == [at : {"accept", "slot", "create", "ended"}, thread : Thread \cup {NoThread}, accepts : Nat]
           c == Cardinality(Holding)
<1>1. /\ DOMAIN worker = Thread /\ (\A u \in Thread : Sound(worker[u])) /\ g_active_client_count \in Nat
      /\ HandOver /\ SlotsExact
  BY Zenon DEF WorkerInv
<1>2. listener \in Listeners /\ (listener.at \in {"slot", "create"} => t \in Thread /\ worker[t].at = "accepted")
  BY Zenon, <1>1 DEF HandOver
<1>3. listener.at \in {"slot", "create"}
  BY Zenon DEF AcquireSlot, NoSlot, CreateFails, CreateThread, Listening
<1>4. t \in Thread /\ worker[t].at = "accepted" /\ Sound(worker[t])
  BY Zenon, <1>1, <1>2, <1>3
<1>5. /\ "accept" # "create" /\ "slot" # "create" /\ "accept" \notin {"slot", "create"}
      /\ ~HoldsSlot("none") /\ ~HoldsSlot("accepted") /\ HoldsSlot("attach")
  BY DEF HoldsSlot
<1>6. ASSUME listener' = [listener EXCEPT !.at = "accept", !.thread = NoThread]
      PROVE  HandOver' /\ ~Listening("create")'
  <2>1. listener' \in Listeners /\ listener'.at = "accept"
    BY Zenon, <1>2, <1>6
  <2> QED
    BY Zenon, <1>5, <2>1 DEF HandOver, Listening
<1>7. /\ g_active_client_count = c + (IF Listening("create") THEN 1 ELSE 0) /\ g_active_client_count <= MaxClients
  BY Zenon, <1>1 DEF SlotsExact
<1>8. ASSUME worker' = Turned(t)
      PROVE  /\ DOMAIN worker' = Thread /\ (\A u \in Thread : Sound(worker'[u]))
             /\ Cardinality(Holding') = c /\ c \in Nat
  <2>1. PICK q : Sound(q) /\ q.at = "none" /\ worker' = [worker EXCEPT ![t] = q]
    BY Zenon, <1>4, <1>8, TurnedAway
  <2>2. /\ DOMAIN worker' = Thread /\ (\A u \in Thread : Sound(worker'[u]))
        /\ worker'[t] = q /\ \A u \in Thread : u # t => worker'[u] = worker[u]
    BY Zenon, <1>1, <1>4, <2>1, OthersKept
  <2> QED
    BY Zenon, <1>4, <1>5, <2>1, <2>2, SlotsHeld
<1> HIDE DEF Listeners
<1>9. CASE AcquireSlot
  <2>1. /\ worker' = worker /\ listener.at = "slot" /\ listener' = [listener EXCEPT !.at = "create"]
        /\ g_active_client_count < MaxClients /\ g_active_client_count' = g_active_client_count + 1
    BY Zenon, <1>9 DEF AcquireSlot, Listening, acquire_client_slot
  <2>2. listener' \in Listeners /\ listener'.at = "create" /\ listener'.thread = t
    BY Zenon, <1>2, <2>1 DEF Listeners
  <2>3. HandOver'
    BY Zenon, <1>4, <2>1, <2>2 DEF HandOver, Listeners
  <2>4. ~Listening("create") /\ Listening("create")'
    BY Zenon, <1>5, <2>1, <2>2 DEF Listening
  <2>5. Cardinality(Holding') = c
    BY Zenon, <2>1 DEF Holding
  <2> HIDE DEF c
  <2>6. c = g_active_client_count
    BY <1>1, <1>7, <2>4, <1>9, SlotsHeld, <1>4 DEF c, AcquireSlot
  <2>7. g_active_client_count' = c + 1 /\ g_active_client_count' <= MaxClients /\ g_active_client_count' \in Nat
    BY <1>1, <2>1, <2>6, ThreadAssumption
  <2>8. SlotsExact'
    BY Zenon, <2>4, <2>5, <2>7 DEF SlotsExact
  <2> QED
    BY Zenon, <1>1, <2>1, <2>3, <2>7, <2>8 DEF WorkerInv
<1>10. CASE NoSlot
  <2>1. /\ worker' = Turned(t) /\ listener.at = "slot" /\ g_active_client_count' = g_active_client_count
        /\ listener' = [listener EXCEPT !.at = "accept", !.thread = NoThread]
    BY Zenon, <1>10 DEF NoSlot, Listening
  <2>2. ~Listening("create") /\ ~Listening("create")'
    BY Zenon, <1>5, <1>6, <2>1 DEF Listening
  <2>3. SlotsExact'
    BY Zenon, <1>7, <1>8, <2>1, <2>2 DEF SlotsExact
  <2> QED
    BY Zenon, <1>1, <1>6, <1>8, <2>1, <2>3 DEF WorkerInv
<1>11. CASE CreateFails
  <2>1. /\ worker' = Turned(t) /\ Listening("create") /\ g_active_client_count' = release_client_slot
        /\ listener' = [listener EXCEPT !.at = "accept", !.thread = NoThread]
    BY Zenon, <1>11 DEF CreateFails
  <2>2. ~Listening("create")' /\ Cardinality(Holding') = c /\ c \in Nat
    BY Zenon, <1>6, <1>8, <2>1
  <2>3. g_active_client_count = c + 1
    BY Zenon, <1>7, <2>1
  <2> HIDE DEF c
  <2>4. g_active_client_count' = c
    BY <2>1, <2>2, <2>3 DEF release_client_slot
  <2>5. c <= MaxClients /\ c + 0 = c
    BY <1>7, <2>2, <2>3, ThreadAssumption
  <2>6. SlotsExact'
    BY Zenon, <2>2, <2>4, <2>5 DEF SlotsExact
  <2>7. g_active_client_count' \in Nat
    BY Zenon, <2>2, <2>4
  <2> QED
    BY Zenon, <1>6, <1>8, <2>1, <2>6, <2>7 DEF WorkerInv
<1>12. CASE CreateThread
  <2> DEFINE q == [worker[t] EXCEPT !.at = "attach"]
  <2>1. /\ worker' = [worker EXCEPT ![t] = q] /\ Listening("create") /\ g_active_client_count' = g_active_client_count
        /\ listener' = [listener EXCEPT !.at = "accept", !.thread = NoThread]
    BY Zenon, <1>12 DEF CreateThread
  <2>2. Sound(q) /\ q.at = "attach"
    BY Zenon, <1>4, NewSessions
  <2> HIDE DEF q
  <2>3. /\ DOMAIN worker' = Thread /\ (\A u \in Thread : Sound(worker'[u]))
        /\ worker'[t] = q /\ \A u \in Thread : u # t => worker'[u] = worker[u]
    BY Zenon, <1>1, <1>4, <2>1, <2>2, OthersKept
  <2>4. Cardinality(Holding') = c + 1 /\ c \in Nat
    BY Zenon, <1>4, <1>5, <2>2, <2>3, SlotsHeld
  <2>5. g_active_client_count = c + 1
    BY Zenon, <1>7, <2>1
  <2> HIDE DEF c
  <2>6. (c + 1) + 0 = c + 1
    BY <2>4
  <2>7. ~Listening("create")'
    BY Zenon, <1>6, <2>1
  <2>8. SlotsExact'
    BY Zenon, <1>7, <2>1, <2>4, <2>5, <2>6, <2>7 DEF SlotsExact
  <2> QED
    BY Zenon, <1>1, <1>6, <2>1, <2>3, <2>8 DEF WorkerInv
<1> QED
  BY Zenon, <1>9, <1>10, <1>11, <1>12

\* Every step of every session and of the listener keeps the invariant.
LEMMA WorkerInvNext == WorkerInv /\ WorkerNext => WorkerInv'
<1> SUFFICES ASSUME WorkerInv, WorkerNext PROVE WorkerInv'
  OBVIOUS
<1>1. CASE Accept \/ AcceptFails
  BY Zenon, <1>1, AcceptKeeps
<1>2. CASE AcquireSlot \/ NoSlot \/ CreateFails \/ CreateThread
  BY Zenon, <1>2, HandOverKeeps
<1>3. ASSUME NEW t \in Thread, Session(t) PROVE WorkerInv'
  <2>1. Sound(worker[t])
    BY Zenon DEF WorkerInv
  <2>2. CASE Leave(t) \/ Detach(t)
    BY Zenon, <2>2, EndingKeeps
  <2>3. CASE ~(Leave(t) \/ Detach(t))
    <3>1. Continues(t)
      BY Zenon, <1>3, <2>1, <2>3, FirstSteps, DirectSteps, Socks5Steps, CarrierSteps, FirstPacketSteps, PlainSteps
         DEF Session
    <3> QED
      BY Zenon, <3>1, ContinuingKeeps
  <2> QED
    BY Zenon, <2>2, <2>3
<1> QED
  BY Zenon, <1>1, <1>2, <1>3 DEF WorkerNext

\* A core that has just started: no client, no slot taken.
LEMMA WorkerInvInit == WorkerInit => WorkerInv
<1> SUFFICES ASSUME WorkerInit PROVE WorkerInv
  OBVIOUS
<1>1. g_active_client_count = 0 /\ worker = [t \in Thread |-> NoWorker]
      /\ listener = [at |-> "accept", thread |-> NoThread, accepts |-> 0]
  BY Zenon DEF WorkerInit
<1>2. Sound(NoWorker)
  <2> DEFINE n == NoWorker
  <2>1. /\ "none" \in Ending /\ "none" \in Places /\ "none" \notin Plain /\ "none" \notin Told /\ "none" \notin Left
        /\ "none" # "leave" /\ 0 \in Nat /\ 0 = 0 + 0
    BY DEF Ending, Places, Plain, Told, Left
  <2>2. /\ n.at = "none" /\ n.open = {} /\ ~n.closedTwice /\ n.failures = 0 /\ n.read = 0 /\ n.held = 0 /\ n.sent = 0
    BY Zenon DEF NoWorker
  <2>3. n \in SessionRecords
    BY Zenon, <2>1, <2>2 DEF SessionRecords, NoWorker
  <2> HIDE DEF n
  <2>4. n.open = Expected(n.at, n.plan) /\ Replied(n) /\ Carried(n)
    BY Zenon, <2>1, <2>2 DEF Expected, Replied, Carried
  <2>5. Sound(n)
    BY Zenon, <2>1, <2>2, <2>3, <2>4 DEF Sound
  <2> QED
    BY Zenon, <2>5 DEF n
<1>3. DOMAIN worker = Thread /\ \A t \in Thread : Sound(worker[t]) /\ worker[t].at = "none"
  BY Zenon, <1>1, <1>2 DEF NoWorker
<1>4. HandOver
  <2>1. /\ "accept" \in {"accept", "slot", "create", "ended"} /\ "accept" \notin {"slot", "create"} /\ 0 \in Nat
    OBVIOUS
  <2> QED
    BY Zenon, <1>1, <2>1 DEF HandOver
<1>5. Holding = {}
  BY Zenon, <1>3 DEF Holding
<1>6. SlotsExact
  <2>1. ~Listening("create")
    BY <1>1 DEF Listening
  <2>2. Cardinality(Holding) = 0
    BY Zenon, <1>5, FS_EmptySet
  <2> QED
    BY <1>1, <2>1, <2>2, ThreadAssumption DEF SlotsExact
<1> QED
  BY <1>1, <1>3, <1>4, <1>6 DEF WorkerInv

\* The invariant says that everything a session holds is given back.
LEMMA InvReleases == WorkerInv => SessionsReleased
<1> SUFFICES ASSUME WorkerInv PROVE SessionsReleased
  OBVIOUS
<1>1. ASSUME NEW t \in Thread
      PROVE  ~worker[t].closedTwice /\ (worker[t].at \in {"none", "leave", "detach"} => worker[t].open = {})
  <2>1. Sound(worker[t])
    BY Zenon DEF WorkerInv
  <2> QED
    BY Zenon, <2>1 DEF Sound, Expected, Ending
<1> QED
  BY Zenon, <1>1 DEF WorkerInv, SessionsReleased, EverythingClosed

\* And that every client is answered once and its first payload passed on.
LEMMA InvServes == WorkerInv => ClientServed
<1> SUFFICES ASSUME WorkerInv PROVE ClientServed
  OBVIOUS
<1>0. \A a \in {"direct_relay", "socks5_relay", "relay"} : a \in Told /\ a \in PassedOn \cup NothingRead
  BY DEF Told, PassedOn
<1>1. ASSUME NEW t \in Thread
      PROVE  LET r == worker[t] IN
        /\ r.failures + (IF r.success THEN 1 ELSE 0) <= 1
        /\ r.at = "leave" /\ ~r.silent => r.success \/ r.failures = 1
        /\ r.at \in {"direct_relay", "socks5_relay", "relay"} => r.success
        /\ r.at \in {"direct_relay", "socks5_relay", "relay"} => r.held = 0 /\ r.sent = r.read
  <2> DEFINE r == worker[t]
  <2>1. Sound(r)
    BY Zenon DEF WorkerInv
  <2>2. r.failures = 0 \/ (r.failures = 1 /\ ~r.success)
    BY Zenon, <2>1 DEF Sound, Replied
  <2>3. r.failures + (IF r.success THEN 1 ELSE 0) <= 1
    BY <2>2
  <2>4. r.at = "leave" => r.silent \/ r.success \/ r.failures = 1
    BY Zenon, <2>1 DEF Sound, Replied
  <2>5. (r.at \in Told => r.success) /\ (r.at \in PassedOn \cup NothingRead => r.held = 0)
    BY Zenon, <2>1, Here
  <2>6. r.read = r.sent + r.held /\ r.sent \in Nat
    BY Zenon, <2>1 DEF Sound, Carried, SessionRecords
  <2>7. r.held = 0 => r.sent = r.read
    BY <2>6
  <2> QED
    BY Zenon, <1>0, <2>3, <2>4, <2>5, <2>7
<1> QED
  BY Zenon, <1>1 DEF ClientServed, OneReply, FirstPayloadKept

\* The inductive invariant holds of every behaviour of the listener and its
\* threads.
THEOREM WorkerSafe == WorkerSpec => []WorkerInv
<1>1. WorkerInv /\ [WorkerNext]_workerVars => WorkerInv'
  <2> SUFFICES ASSUME WorkerInv, [WorkerNext]_workerVars PROVE WorkerInv'
    OBVIOUS
  <2>1. CASE WorkerNext
    BY Zenon, <2>1, WorkerInvNext
  <2>2. CASE UNCHANGED workerVars
    BY Zenon, <2>2 DEF workerVars, WorkerInv, HandOver, SlotsExact, Holding, Listening
  <2> QED
    BY Zenon, <2>1, <2>2
<1> QED
  BY <1>1, WorkerInvInit, PTL DEF WorkerSpec

\* client_worker_run and main: whichever step of whichever session fails, and
\* however accepts, hand-overs and endings interleave, the slots counted are
\* those in use, and every way out closes what the session had open, each
\* thing once.
THEOREM SessionsAreReleased == WorkerSpec => []SessionsReleased
  BY WorkerSafe, InvReleases, PTL

\* client_worker_run and socks5.c: each client gets one reply, and none after
\* success; a relay starts only after success, when what was read of the
\* client before it has been sent on once.
THEOREM ClientsAreServed == WorkerSpec => []ClientServed
  BY WorkerSafe, InvServes, PTL

-----------------------------------------------------------------------------
(* The TLS endpoints. *)

Offers == {"chacha", "aes"}
Entries == (Site \X Addr) \cup {NoAddr}
Phases == {"idle", "look", "dial", "hand", "aes", "endpoint", "stale", "failed"}
ConnRecords ==
  [pc : Phases, by : {"manual", "socket", NoAddr},
   site : Site \cup {NoAddr}, cached : Addr \cup {NoAddr}, left : SUBSET Addr, addr : Addr \cup {NoAddr},
   offer : Offers, again : BOOLEAN, use_aes : BOOLEAN, broken : BOOLEAN]

EndpointTypeOK ==
  /\ accepts \in [Addr -> SUBSET Offers] /\ endpoints \in [Slots -> Entries]
  /\ conn \in [Caller -> ConnRecords]

\* Some address of the server accepts AES.
AesSeen(acc) == \E a \in Addr : "aes" \in acc[a]

\* The connection offers nothing but AES.
AesOnly(c) == c.by = "manual" /\ c.offer = "aes" /\ ~c.again

\* What it knows of an address it has tried.
Refuses(c, acc, a) == IF AesOnly(c) THEN "aes" \notin acc[a] ELSE acc[a] = {}

Searching == {"look", "dial", "hand", "stale"}

\* A connection that is still looking has been refused, if the network failed
\* nowhere, by every address that is no longer left.
Tried(c, acc) ==
  c.pc \in Searching /\ ~c.broken => \A a \in Addr \ c.left : (c.pc = "hand" /\ a = c.addr) \/ Refuses(c, acc, a)

\* It offers AES alone only where AES has worked.
Knows(c, acc) == (c.pc \in Searching /\ AesOnly(c)) \/ c.pc = "aes" => AesSeen(acc)

\* The second offer at an address is the other one.
Second(c, acc) ==
  /\ c.pc \in Searching \ {"hand"} => ~c.again
  /\ c.pc = "hand" /\ c.again => /\ c.by = "manual" => c.offer = "aes"
                                 /\ ~c.broken => Other(c.offer) \notin acc[c.addr]

Placed(c) ==
  /\ c.pc \in Searching \cup {"aes", "endpoint"} => c.by \in {"manual", "socket"} /\ c.site \in Site
  /\ c.pc \in {"hand", "stale", "aes", "endpoint"} => c.addr \in Addr

Reached(c, acc) == c.pc = "failed" /\ ~c.broken => \A a \in Addr : acc[a] = {}

Looks(c, acc) ==
  /\ c \in ConnRecords /\ Placed(c) /\ Knows(c, acc) /\ Second(c, acc) /\ Tried(c, acc) /\ Reached(c, acc)

\* The inductive invariant.
EndpointsInv ==
  /\ EndpointTypeOK /\ (aes # {} => AesSeen(accepts))
  /\ \A t \in Caller : Looks(conn[t], accepts)

-----------------------------------------------------------------------------
\* The phases a connection goes through.
LEMMA PhasesAre ==
  /\ "idle" \in Phases /\ "look" \in Phases /\ "dial" \in Phases /\ "hand" \in Phases
  /\ "aes" \in Phases /\ "endpoint" \in Phases /\ "stale" \in Phases /\ "failed" \in Phases
  BY DEF Phases

\* A thread that opens nothing.
LEMMA IdleLooks == \A acc : Looks(NoConn, acc)
<1> DEFINE n == NoConn
<1>1. /\ n.pc = "idle" /\ "idle" \notin Searching \cup {"aes", "endpoint"} /\ "idle" \notin Searching
      /\ "idle" \notin {"hand", "stale", "aes", "endpoint"} /\ "idle" # "hand" /\ "idle" # "failed" /\ "idle" # "aes"
      /\ "idle" \notin Searching \ {"hand"} /\ "chacha" \in Offers
  BY DEF Searching, NoConn, Offers
<1>2. n \in ConnRecords
  BY Zenon, <1>1, PhasesAre DEF ConnRecords, NoConn
<1> HIDE DEF n
<1>3. ASSUME NEW acc PROVE Looks(n, acc)
  BY Zenon, <1>1, <1>2 DEF Looks, Placed, Knows, Second, Tried, Reached
<1> QED
  BY Zenon, <1>3 DEF n

\* connect_manual_tls and open_tls_socket begin: every address is left.
LEMMA Begins ==
  ASSUME NEW acc, NEW q \in ConnRecords, q.pc \in {"look", "dial"}, q.by \in {"manual", "socket"}, q.site \in Site,
         q.left = Addr, ~q.again, AesOnly(q) => AesSeen(acc)
  PROVE  Looks(q, acc)
<1>1. q.pc \in Searching /\ q.pc \notin {"hand", "stale", "aes", "endpoint"} /\ q.pc # "hand" /\ q.pc # "aes" /\ q.pc # "failed"
  BY DEF Searching
<1> QED
  BY Zenon, <1>1 DEF Looks, Placed, Knows, Second, Tried, Reached

\* ConnectManual and OpenTlsSocket.
LEMMA BeginLooks ==
  ASSUME EndpointsInv, NEW s \in Site, NEW flag \in BOOLEAN
  PROVE  /\ Looks([NoConn EXCEPT !.pc = "look", !.by = "manual", !.site = s, !.left = Addr,
                                 !.offer = IF NeedsAes(s, NoAddr) THEN "aes" ELSE "chacha"], accepts)
         /\ Looks([NoConn EXCEPT !.pc = "dial", !.by = "socket", !.site = s, !.left = Addr, !.use_aes = flag], accepts)
<1> DEFINE o == IF NeedsAes(s, NoAddr) THEN "aes" ELSE "chacha"
           m == [NoConn EXCEPT !.pc = "look", !.by = "manual", !.site = s, !.left = Addr, !.offer = o]
           k == [NoConn EXCEPT !.pc = "dial", !.by = "socket", !.site = s, !.left = Addr, !.use_aes = flag]
<1>0. /\ "chacha" \in Offers /\ "aes" \in Offers /\ "chacha" # "aes" /\ "socket" # "manual" /\ Addr \in SUBSET Addr
  BY DEF Offers
<1>1. o \in Offers /\ (o = "aes" => AesSeen(accepts))
  BY Zenon, <1>0 DEF EndpointsInv, NeedsAes
<1> HIDE DEF o
<1>2. NoConn \in ConnRecords
  BY Zenon, IdleLooks DEF Looks
<1>3. m \in ConnRecords /\ m.pc = "look" /\ m.by = "manual" /\ m.site = s /\ m.left = Addr /\ ~m.again /\ m.offer = o
  BY Zenon, <1>1, <1>2, PhasesAre DEF ConnRecords, NoConn
<1>4. k \in ConnRecords /\ k.pc = "dial" /\ k.by = "socket" /\ k.site = s /\ k.left = Addr /\ ~k.again
  BY Zenon, <1>0, <1>2, PhasesAre DEF ConnRecords, NoConn
<1> HIDE DEF m, k
<1>5. Looks(m, accepts)
  BY Zenon, <1>1, <1>3, Begins DEF AesOnly
<1>6. Looks(k, accepts)
  BY Zenon, <1>0, <1>4, Begins DEF AesOnly
<1> QED
  BY Zenon, <1>5, <1>6 DEF m, k, o

\* A look into the table, and the end of a failed first choice: the search
\* goes on as it was.
LEMMA SearchesOn ==
  ASSUME NEW acc, NEW c, Looks(c, acc), c.pc \in {"look", "stale"}, NEW q \in ConnRecords, q.pc = "dial",
         q.by = c.by, q.site = c.site, q.left = c.left, q.offer = c.offer, q.again = c.again, q.broken = c.broken
  PROVE  Looks(q, acc)
<1>1. /\ c.pc \in Searching /\ c.pc # "hand" /\ c.pc \in Searching \ {"hand"} /\ c.pc \in Searching \cup {"aes", "endpoint"}
      /\ q.pc \in Searching /\ q.pc # "hand" /\ q.pc # "aes" /\ q.pc # "failed"
      /\ q.pc \notin {"hand", "stale", "aes", "endpoint"}
  BY DEF Searching
<1>2. AesOnly(q) = AesOnly(c) /\ \A a : Refuses(q, acc, a) = Refuses(c, acc, a)
  BY Zenon DEF AesOnly, Refuses
<1>3. Placed(q) /\ Knows(q, acc) /\ Second(q, acc) /\ Reached(q, acc)
  BY Zenon, <1>1, <1>2 DEF Looks, Placed, Knows, Second, Reached
<1>4. Tried(q, acc)
  BY Zenon, <1>1, <1>2 DEF Looks, Tried
<1> QED
  BY Zenon, <1>3, <1>4 DEF Looks

\* core_dialer_next hands out an address: it is the one being tried now.
LEMMA TakesAddress ==
  ASSUME NEW acc, NEW c, Looks(c, acc), c.pc = "dial", NEW a \in c.left, NEW q \in ConnRecords, q.pc = "hand",
         q.by = c.by, q.site = c.site, q.left = c.left \ {a}, q.addr = a, q.again = c.again, q.broken = c.broken,
         c.by = "manual" => q.offer = c.offer
  PROVE  Looks(q, acc)
<1>1. /\ "dial" \in Searching /\ "dial" \in Searching \ {"hand"} /\ "dial" # "hand" /\ "hand" \in Searching
      /\ "hand" \notin Searching \ {"hand"} /\ "hand" # "aes" /\ "hand" # "failed" /\ "dial" \in Searching \cup {"aes", "endpoint"}
  BY DEF Searching
<1>2. c.left \in SUBSET Addr
  BY Zenon DEF Looks, ConnRecords
<1>3. ~c.again
  BY Zenon, <1>1 DEF Looks, Second
<1>4. AesOnly(q) = AesOnly(c) /\ \A x : Refuses(q, acc, x) = Refuses(c, acc, x)
  BY Zenon DEF AesOnly, Refuses
<1>5. Placed(q) /\ Knows(q, acc) /\ Second(q, acc) /\ Reached(q, acc)
  BY Zenon, <1>1, <1>2, <1>3, <1>4 DEF Looks, Placed, Knows, Second, Reached
<1>6. Tried(q, acc)
  BY Zenon, <1>1, <1>2, <1>4 DEF Looks, Tried
<1> QED
  BY Zenon, <1>5, <1>6 DEF Looks

\* It fails to connect one: the network has failed.
LEMMA LosesAddress ==
  ASSUME NEW acc, NEW c, Looks(c, acc), c.pc = "dial", NEW q \in ConnRecords, q.pc = c.pc,
         q.by = c.by, q.site = c.site, q.offer = c.offer, q.again = c.again, q.broken
  PROVE  Looks(q, acc)
<1>1. /\ "dial" \in Searching /\ "dial" # "hand" /\ "dial" # "failed" /\ "dial" \notin {"hand", "stale", "aes", "endpoint"}
  BY DEF Searching
<1>2. AesOnly(q) = AesOnly(c)
  BY Zenon DEF AesOnly
<1> QED
  BY Zenon, <1>1, <1>2 DEF Looks, Placed, Knows, Second, Tried, Reached

\* No address is left.
LEMMA GivesUp ==
  ASSUME NEW acc, NEW c, Looks(c, acc), c.pc = "dial", c.left = {}
  PROVE  Looks([NoConn EXCEPT !.pc = "failed", !.broken = c.broken], acc)
<1> DEFINE q == [NoConn EXCEPT !.pc = "failed", !.broken = c.broken]
<1>1. /\ "dial" \in Searching /\ "dial" # "hand" /\ "failed" \notin Searching /\ "failed" \notin Searching \ {"hand"}
      /\ "failed" \notin Searching \cup {"aes", "endpoint"} /\ "failed" \notin {"hand", "stale", "aes", "endpoint"}
      /\ "failed" # "hand" /\ "failed" # "aes"
  BY DEF Searching
<1>2. NoConn \in ConnRecords /\ c.broken \in BOOLEAN
  BY Zenon, IdleLooks DEF Looks, ConnRecords
<1>3. q \in ConnRecords /\ q.pc = "failed" /\ q.broken = c.broken
  BY Zenon, <1>2, PhasesAre DEF ConnRecords
<1> HIDE DEF q
<1>4. ~c.broken => \A a \in Addr : Refuses(c, acc, a)
  BY Zenon, <1>1 DEF Looks, Tried
<1>5. AesOnly(c) => AesSeen(acc)
  BY Zenon, <1>1 DEF Looks, Knows
<1>6. ~c.broken => \A a \in Addr : acc[a] = {}
  BY Zenon, <1>4, <1>5 DEF Refuses, AesSeen
<1>7. Looks(q, acc)
  BY Zenon, <1>1, <1>3, <1>6 DEF Looks, Placed, Knows, Second, Tried, Reached
<1> QED
  BY Zenon, <1>7 DEF q

\* The handshake succeeds; what worked is remembered next.
LEMMA SucceedsLooks ==
  ASSUME NEW acc, NEW c, Looks(c, acc)
  PROVE  /\ c.pc = "hand" /\ c.offer \in acc[c.addr] => Looks(Succeeded(c), acc)
         /\ c.pc \in {"hand", "aes"} => Looks(Connected(c), acc)
<1>1. /\ \A p \in {"aes", "endpoint"} : p \notin Searching /\ p \notin Searching \ {"hand"} /\ p # "hand" /\ p # "failed"
      /\ "endpoint" # "aes" /\ "hand" \in Searching \cup {"aes", "endpoint"} /\ "aes" \in Searching \cup {"aes", "endpoint"}
      /\ {} \in SUBSET Addr
  BY DEF Searching
<1>2. c.pc \in {"hand", "aes"} => c.by \in {"manual", "socket"} /\ c.site \in Site /\ c.addr \in Addr
  BY Zenon, <1>1 DEF Looks, Placed
<1>3. c \in ConnRecords
  BY Zenon DEF Looks
<1>4. ASSUME NEW p \in {"aes", "endpoint"}, c.pc \in {"hand", "aes"}, p = "aes" => AesSeen(acc)
      PROVE  Looks([c EXCEPT !.pc = p, !.left = {}, !.cached = NoAddr, !.broken = FALSE], acc)
  <2> DEFINE q == [c EXCEPT !.pc = p, !.left = {}, !.cached = NoAddr, !.broken = FALSE]
  <2>1. q \in ConnRecords /\ q.pc = p /\ q.by = c.by /\ q.site = c.site /\ q.addr = c.addr
    BY Zenon, <1>1, <1>3, <1>4, PhasesAre DEF ConnRecords
  <2> HIDE DEF q
  <2>2. Looks(q, acc)
    BY Zenon, <1>1, <1>2, <1>4, <2>1 DEF Looks, Placed, Knows, Second, Tried, Reached
  <2> QED
    BY Zenon, <2>2 DEF q
<1>5. c.pc \in {"hand", "aes"} => Looks(Connected(c), acc)
  BY Zenon, <1>1, <1>4, IdleLooks DEF Connected
<1>6. ASSUME c.pc = "hand", c.offer \in acc[c.addr] PROVE Looks(Succeeded(c), acc)
  <2>1. c.offer = "aes" => AesSeen(acc)
    BY Zenon, <1>2, <1>6 DEF AesSeen
  <2> QED
    BY Zenon, <1>4, <1>5, <1>6, <2>1 DEF Succeeded
<1> QED
  BY Zenon, <1>5, <1>6

\* A refused first offer is followed by the other one.
LEMMA RetriesLooks ==
  ASSUME NEW acc, NEW c, Looks(c, acc), c.pc = "hand", NEW broken \in BOOLEAN, NEW unchosen, Retries(c, unchosen),
         c.offer \in acc[c.addr] => broken
  PROVE  Looks([c EXCEPT !.offer = Other(@), !.again = TRUE, !.broken = @ \/ broken], acc)
<1> DEFINE q == [c EXCEPT !.offer = Other(@), !.again = TRUE, !.broken = @ \/ broken]
<1>1. /\ "hand" \in Searching /\ "hand" \notin Searching \ {"hand"} /\ "hand" # "aes" /\ "hand" # "failed"
      /\ "chacha" \in Offers /\ "aes" \in Offers /\ "chacha" # "aes" /\ \A o \in Offers : o = "chacha" \/ o = "aes"
  BY DEF Searching, Offers
<1>2. c \in ConnRecords /\ c.offer \in Offers /\ c.broken \in BOOLEAN
  BY Zenon DEF Looks, ConnRecords
<1>3. Other(c.offer) \in Offers /\ Other(Other(c.offer)) = c.offer /\ (c.offer = "chacha" => Other(c.offer) = "aes")
  BY Zenon, <1>1, <1>2 DEF Other
<1>4. /\ q \in ConnRecords /\ q.pc = "hand" /\ q.by = c.by /\ q.site = c.site /\ q.left = c.left /\ q.addr = c.addr
      /\ q.offer = Other(c.offer) /\ q.again /\ q.broken = (c.broken \/ broken)
  BY Zenon, <1>2, <1>3 DEF ConnRecords
<1> HIDE DEF q
<1>5. ~c.again /\ (c.by = "manual" => c.offer = "chacha")
  BY Zenon DEF Retries
<1>6. ~AesOnly(c) /\ ~AesOnly(q)
  BY Zenon, <1>1, <1>4, <1>5 DEF AesOnly
<1>7. \A a : Refuses(q, acc, a) = Refuses(c, acc, a)
  BY Zenon, <1>6 DEF Refuses
<1>8. Second(q, acc)
  BY Zenon, <1>1, <1>3, <1>4, <1>5 DEF Second
<1>9. Placed(q) /\ Knows(q, acc) /\ Reached(q, acc)
  BY Zenon, <1>1, <1>4, <1>6 DEF Looks, Placed, Knows, Reached
<1>10. Tried(q, acc)
  BY Zenon, <1>1, <1>4, <1>7 DEF Looks, Tried
<1>11. Looks(q, acc)
  BY Zenon, <1>4, <1>8, <1>9, <1>10 DEF Looks
<1> QED
  BY Zenon, <1>11 DEF q

\* What the search knows of an address after its last offer there: an address
\* that refused both, or AES from a connection that offers nothing else.
LEMMA LastOffer ==
  ASSUME NEW acc \in [Addr -> SUBSET Offers], NEW c, Looks(c, acc), c.pc = "hand", ~c.broken,
         c.offer \notin acc[c.addr], ~Retries(c, TRUE)
  PROVE  /\ c.addr \in Addr /\ Refuses(c, acc, c.addr) /\ (c.again \/ AesOnly(c))
         /\ \A a \in Addr \ c.left : Refuses(c, acc, a)
<1>1. "hand" \in Searching /\ "hand" \in {"hand", "stale", "aes", "endpoint"} /\ \A o \in Offers : o = "chacha" \/ o = "aes"
  BY DEF Searching, Offers
<1>2. c.offer \in Offers /\ c.again \in BOOLEAN /\ c.addr \in Addr
  BY Zenon, <1>1 DEF Looks, ConnRecords, Placed
<1>3. acc[c.addr] \in SUBSET Offers
  BY Zenon, <1>2
<1>4. c.again \/ AesOnly(c)
  BY Zenon, <1>1, <1>2 DEF Retries, AesOnly
<1>5. c.again => acc[c.addr] = {}
  <2> SUFFICES ASSUME c.again PROVE acc[c.addr] = {}
    OBVIOUS
  <2>1. Other(c.offer) \notin acc[c.addr]
    BY Zenon DEF Looks, Second
  <2>2. "chacha" \notin acc[c.addr] /\ "aes" \notin acc[c.addr]
    BY Zenon, <1>1, <1>2, <2>1 DEF Other
  <2> QED
    BY Zenon, <1>1, <1>3, <2>2
<1>6. Refuses(c, acc, c.addr)
  BY Zenon, <1>4, <1>5 DEF Refuses, AesOnly
<1>7. \A a \in Addr \ c.left : Refuses(c, acc, a)
  BY Zenon, <1>1, <1>6 DEF Looks, Tried
<1> QED
  BY Zenon, <1>2, <1>4, <1>6, <1>7

\* The address is given up.
LEMMA LostLooks ==
  ASSUME NEW acc \in [Addr -> SUBSET Offers], NEW c, Looks(c, acc), c.pc = "hand", NEW b \in BOOLEAN,
         ~b => c.offer \notin acc[c.addr] /\ ~Retries(c, TRUE), NEW stale \in BOOLEAN
  PROVE  Looks([c EXCEPT !.pc = IF stale THEN "stale" ELSE "dial", !.addr = IF stale THEN @ ELSE NoAddr,
                         !.offer = IF c.by = "manual" /\ ~ c.again THEN @ ELSE "chacha",
                         !.again = FALSE, !.broken = @ \/ b], acc)
<1> DEFINE p == IF stale THEN "stale" ELSE "dial"
           d == IF stale THEN c.addr ELSE NoAddr
           o == IF c.by = "manual" /\ ~ c.again THEN c.offer ELSE "chacha"
           q == [c EXCEPT !.pc = p, !.addr = d, !.offer = o, !.again = FALSE, !.broken = @ \/ b]
<1>1. /\ "hand" \in Searching \cup {"aes", "endpoint"} /\ "hand" \in Searching /\ "chacha" # "aes" /\ "chacha" \in Offers
      /\ "hand" \in {"hand", "stale", "aes", "endpoint"}
  BY DEF Searching, Offers
<1>2. /\ p \in Searching /\ p \in Searching \ {"hand"} /\ p # "hand" /\ p # "aes" /\ p # "failed"
      /\ p \in Phases
      /\ (p \in {"hand", "stale", "aes", "endpoint"} => stale)
  BY DEF Searching, Phases
<1>3. c \in ConnRecords /\ c.offer \in Offers /\ c.broken \in BOOLEAN /\ c.again \in BOOLEAN
  BY Zenon DEF Looks, ConnRecords
<1>4. c.addr \in Addr /\ c.by \in {"manual", "socket"} /\ c.site \in Site
  BY Zenon, <1>1 DEF Looks, Placed
<1>5. d \in Addr \cup {NoAddr} /\ (stale => d \in Addr) /\ o \in Offers
  BY Zenon, <1>1, <1>3, <1>4
<1> HIDE DEF p, d
<1>6. /\ q \in ConnRecords /\ q.pc = p /\ q.by = c.by /\ q.site = c.site /\ q.left = c.left /\ q.addr = d
      /\ q.offer = o /\ ~q.again /\ q.broken = (c.broken \/ b)
  <2> HIDE DEF o
  <2>1. p \in Phases /\ d \in Addr \cup {NoAddr}
    BY Zenon, <1>2, <1>5
  <2>2. o \in Offers /\ (c.broken \/ b) \in BOOLEAN /\ c \in ConnRecords /\ FALSE \in BOOLEAN
    BY Zenon, <1>3, <1>5
  <2>3. q \in ConnRecords
    BY Zenon, <2>1, <2>2 DEF ConnRecords
  <2>4. /\ q.pc = p /\ q.by = c.by /\ q.site = c.site /\ q.left = c.left /\ q.addr = d
        /\ q.offer = o /\ ~q.again /\ q.broken = (c.broken \/ b)
    BY Zenon, <2>2 DEF ConnRecords
  <2> QED
    BY Zenon, <2>3, <2>4
<1>7. AesOnly(q) <=> AesOnly(c)
  <2> HIDE DEF q
  <2>1. CASE c.by = "manual" /\ ~c.again
    <3>1. q.offer = c.offer
      BY Zenon, <1>6, <2>1
    <3> QED
      BY Zenon, <1>6, <2>1, <3>1 DEF AesOnly
  <2>2. CASE ~(c.by = "manual" /\ ~c.again)
    <3>1. q.offer = "chacha"
      BY Zenon, <1>6, <2>2
    <3> QED
      BY Zenon, <1>1, <1>6, <2>2, <3>1 DEF AesOnly
  <2> QED
    BY Zenon, <2>1, <2>2
<1> HIDE DEF q, o
<1>8. \A a : Refuses(q, acc, a) <=> Refuses(c, acc, a)
  BY Zenon, <1>7 DEF Refuses
<1>9. Placed(q) /\ Knows(q, acc) /\ Second(q, acc) /\ Reached(q, acc)
  BY Zenon, <1>1, <1>2, <1>4, <1>5, <1>6, <1>7 DEF Looks, Placed, Knows, Second, Reached
<1>10. Tried(q, acc)
  <2> SUFFICES ASSUME ~q.broken PROVE \A a \in Addr \ q.left : Refuses(q, acc, a)
    BY Zenon DEF Tried
  <2>1. ~c.broken /\ ~b
    BY Zenon, <1>6
  <2>2. \A a \in Addr \ c.left : Refuses(c, acc, a)
    BY Zenon, <2>1, LastOffer
  <2> QED
    BY Zenon, <1>6, <1>8, <2>2
<1>11. Looks(q, acc)
  BY Zenon, <1>6, <1>9, <1>10 DEF Looks
<1> QED
  BY Zenon, <1>11 DEF p, d, o, q

\* A step of one thread, after which its connection is sound.
Goes(t) == accepts' = accepts /\ \E q : Looks(q, accepts) /\ Set(t, q)

\* Such a step keeps the invariant if it keeps the tables.
LEMMA GoesKeeps ==
  ASSUME EndpointsInv, NEW t \in Caller, Goes(t), endpoints' \in [Slots -> Entries], aes' # {} => AesSeen(accepts)
  PROVE  EndpointsInv'
<1>1. PICK q : Looks(q, accepts) /\ conn' = [conn EXCEPT ![t] = q]
  BY Zenon DEF Goes, Set
<1>2. accepts' = accepts /\ accepts \in [Addr -> SUBSET Offers] /\ conn \in [Caller -> ConnRecords]
      /\ \A u \in Caller : Looks(conn[u], accepts)
  BY Zenon DEF Goes, EndpointsInv, EndpointTypeOK
<1>3. q \in ConnRecords
  BY Zenon, <1>1 DEF Looks
<1>4. conn' \in [Caller -> ConnRecords] /\ conn'[t] = q /\ \A u \in Caller : u # t => conn'[u] = conn[u]
  BY Zenon, <1>1, <1>2, <1>3
<1>5. \A u \in Caller : Looks(conn'[u], accepts)
  BY Zenon, <1>1, <1>2, <1>4
<1> QED
  BY Zenon, <1>2, <1>4, <1>5 DEF EndpointsInv, EndpointTypeOK

\* The beginning of a connection and the look into the table.
LEMMA BeginSteps ==
  ASSUME EndpointsInv, NEW t \in Caller,
         LookUp(t) \/ \E s \in Site : ConnectManual(t, s) \/ \E flag \in BOOLEAN : OpenTlsSocket(t, s, flag)
  PROVE  Goes(t)
<1>1. ASSUME NEW s \in Site, ConnectManual(t, s) PROVE Goes(t)
  <2>1. TRUE \in BOOLEAN
    OBVIOUS
  <2> QED
    BY Zenon, <1>1, <2>1, BeginLooks DEF ConnectManual, Goes
<1>2. ASSUME NEW s \in Site, NEW flag \in BOOLEAN, OpenTlsSocket(t, s, flag) PROVE Goes(t)
  BY Zenon, <1>2, BeginLooks DEF OpenTlsSocket, Goes
<1>3. CASE LookUp(t)
  <2> DEFINE c == conn[t]
             hits == IF Cached(c.site) = {} THEN {NoAddr} ELSE {endpoints[i][2] : i \in Cached(c.site)}
  <2>1. PICK hit \in hits : Set(t, [c EXCEPT !.pc = "dial", !.cached = hit])
    BY Zenon, <1>3 DEF LookUp
  <2>2. c.pc = "look" /\ accepts' = accepts
    BY Zenon, <1>3 DEF LookUp
  <2>3. ASSUME NEW i \in Cached(c.site) PROVE endpoints[i][2] \in Addr
    <3>1. endpoints[i] \in Entries /\ endpoints[i] # NoAddr
      BY Zenon DEF Cached, EndpointsInv, EndpointTypeOK
    <3>2. endpoints[i] \in Site \X Addr
      BY Zenon, <3>1 DEF Entries
    <3> QED
      BY <3>2
  <2>4. hit \in Addr \cup {NoAddr}
    BY Zenon, <2>3
  <2>5. Looks(c, accepts) /\ c \in ConnRecords
    BY Zenon DEF EndpointsInv, Looks
  <2> DEFINE q == [c EXCEPT !.pc = "dial", !.cached = hit]
  <2>6. /\ q \in ConnRecords /\ q.pc = "dial" /\ q.by = c.by /\ q.site = c.site /\ q.left = c.left
        /\ q.offer = c.offer /\ q.again = c.again /\ q.broken = c.broken
    BY Zenon, <2>4, <2>5, PhasesAre DEF ConnRecords
  <2> HIDE DEF q, c
  <2>7. Looks(q, accepts)
    BY Zenon, <2>2, <2>5, <2>6, SearchesOn
  <2>8. Set(t, q)
    BY Zenon, <2>1 DEF q
  <2> QED
    BY Zenon, <2>2, <2>7, <2>8 DEF Goes
<1> QED
  BY Zenon, <1>1, <1>2, <1>3

\* core_dialer_next.
LEMMA DialerSteps ==
  ASSUME EndpointsInv, NEW t \in Caller, DialerNext(t)
  PROVE  Goes(t)
<1> DEFINE c == conn[t]
           asked(a) == IF c.by = "manual" THEN c.offer
                       ELSE IF (c.left = Addr /\ c.use_aes) \/ NeedsAes(c.site, a) THEN "aes" ELSE "chacha"
<1>1. Looks(c, accepts) /\ c \in ConnRecords
  BY Zenon DEF EndpointsInv, Looks
<1>2. c.pc = "dial" /\ accepts' = accepts
  BY Zenon DEF DialerNext
<1>3. c.left \in SUBSET Addr /\ c.offer \in Offers
  BY Zenon, <1>1 DEF ConnRecords
<1>4. "chacha" \in Offers /\ "aes" \in Offers
  BY DEF Offers
<1>5. \A a : asked(a) \in Offers /\ (c.by = "manual" => asked(a) = c.offer)
  BY Zenon, <1>3, <1>4
<1>6. ASSUME NEW a \in c.left, NEW o \in Offers, c.by = "manual" => o = c.offer,
             Set(t, [c EXCEPT !.pc = "hand", !.left = @ \ {a}, !.addr = a, !.offer = o, !.use_aes = FALSE])
      PROVE  Goes(t)
  <2> DEFINE q == [c EXCEPT !.pc = "hand", !.left = @ \ {a}, !.addr = a, !.offer = o, !.use_aes = FALSE]
  <2>1. c.left \ {a} \in SUBSET Addr /\ a \in Addr
    BY Zenon, <1>3
  <2>2. /\ q \in ConnRecords /\ q.pc = "hand" /\ q.by = c.by /\ q.site = c.site /\ q.left = c.left \ {a} /\ q.addr = a
        /\ q.again = c.again /\ q.broken = c.broken /\ q.offer = o
    BY Zenon, <1>1, <2>1, PhasesAre DEF ConnRecords
  <2>3. Set(t, q)
    BY Zenon, <1>6
  <2> HIDE DEF q, c
  <2>4. Looks(q, accepts)
    BY Zenon, <1>1, <1>2, <1>6, <2>2, TakesAddress
  <2> QED
    BY Zenon, <1>2, <2>3, <2>4 DEF Goes
<1>7. ASSUME NEW a \in c.left, Set(t, [c EXCEPT !.left = @ \ {a}, !.broken = TRUE]) PROVE Goes(t)
  <2> DEFINE q == [c EXCEPT !.left = @ \ {a}, !.broken = TRUE]
  <2>1. c.left \ {a} \in SUBSET Addr
    BY Zenon, <1>3
  <2>2. /\ q \in ConnRecords /\ q.pc = c.pc /\ q.by = c.by /\ q.site = c.site
        /\ q.again = c.again /\ q.broken /\ q.offer = c.offer
    BY Zenon, <1>1, <2>1 DEF ConnRecords
  <2>3. Set(t, q)
    BY Zenon, <1>7
  <2> HIDE DEF q, c
  <2>4. Looks(q, accepts)
    BY Zenon, <1>1, <1>2, <2>2, LosesAddress
  <2> QED
    BY Zenon, <1>2, <2>3, <2>4 DEF Goes
<1>8. ASSUME c.left = {}, Set(t, [NoConn EXCEPT !.pc = "failed", !.broken = c.broken]) PROVE Goes(t)
  BY Zenon, <1>1, <1>2, <1>8, GivesUp DEF Goes
<1>9. \/ \E a \in c.left : Set(t, [c EXCEPT !.pc = "hand", !.left = @ \ {a}, !.addr = a, !.offer = asked(a), !.use_aes = FALSE])
      \/ \E a \in c.left : Set(t, [c EXCEPT !.left = @ \ {a}, !.broken = TRUE])
      \/ c.left = {} /\ Set(t, [NoConn EXCEPT !.pc = "failed", !.broken = c.broken])
  BY Zenon DEF DialerNext
<1> HIDE DEF c, asked
<1> QED
  BY Zenon, <1>5, <1>6, <1>7, <1>8, <1>9

\* One handshake.
LEMMA HandshakeSteps ==
  ASSUME EndpointsInv, NEW t \in Caller, Handshake(t)
  PROVE  Goes(t)
<1> DEFINE c == conn[t]
           stale == c.by = "manual" /\ c.cached = c.addr
           lost(b) == [c EXCEPT !.pc = IF stale THEN "stale" ELSE "dial", !.addr = IF stale THEN @ ELSE NoAddr,
                                !.offer = IF c.by = "manual" /\ ~ c.again THEN @ ELSE "chacha",
                                !.again = FALSE, !.broken = @ \/ b]
<1>1. Looks(c, accepts) /\ accepts \in [Addr -> SUBSET Offers]
  BY Zenon DEF EndpointsInv, EndpointTypeOK
<1>2. c.pc = "hand" /\ accepts' = accepts
  BY Zenon DEF Handshake
<1>3. CASE c.offer \in accepts[c.addr] /\ Set(t, Succeeded(c))
  BY Zenon, <1>1, <1>2, <1>3, SucceedsLooks DEF Goes
<1>4. ASSUME NEW broken \in BOOLEAN, NEW connected \in BOOLEAN, c.offer \in accepts[c.addr] => broken,
             NEW unchosen \in (IF broken THEN BOOLEAN ELSE {TRUE}),
             IF Retries(c, unchosen) /\ connected
             THEN Set(t, [c EXCEPT !.offer = Other(@), !.again = TRUE, !.broken = @ \/ broken])
             ELSE Set(t, lost(broken \/ (Retries(c, unchosen) /\ ~ connected)))
      PROVE  Goes(t)
  <2> HIDE DEF c
  <2>1. CASE Retries(c, unchosen) /\ connected
    <3>1. Looks([c EXCEPT !.offer = Other(@), !.again = TRUE, !.broken = @ \/ broken], accepts)
      BY Zenon, <1>1, <1>2, <1>4, <2>1, RetriesLooks
    <3> QED
      BY Zenon, <1>2, <1>4, <2>1, <3>1 DEF Goes
  <2>2. CASE ~(Retries(c, unchosen) /\ connected)
    <3> DEFINE b == broken \/ (Retries(c, unchosen) /\ ~ connected)
    <3>1. Set(t, lost(b)) /\ b \in BOOLEAN /\ stale \in BOOLEAN
      BY Zenon, <1>4, <2>2
    <3>2. ASSUME ~b PROVE c.offer \notin accepts[c.addr] /\ ~Retries(c, TRUE)
      <4>1. ~broken /\ ~Retries(c, unchosen)
        BY Zenon, <2>2, <3>2
      <4>2. unchosen = TRUE
        BY <1>4, <4>1
      <4> QED
        BY Zenon, <1>4, <4>1, <4>2
    <3> HIDE DEF b
    <3>3. Looks(lost(b), accepts)
      <4> HIDE DEF stale
      <4> QED
        BY Zenon, <1>1, <1>2, <3>1, <3>2, LostLooks
    <3> HIDE DEF lost
    <3> QED
      BY Zenon, <1>2, <3>1, <3>3 DEF Goes
  <2> QED
    BY Zenon, <2>1, <2>2
<1>5. \/ c.offer \in accepts[c.addr] /\ Set(t, Succeeded(c))
      \/ \E broken, connected \in BOOLEAN :
           /\ c.offer \in accepts[c.addr] => broken
           /\ \E unchosen \in IF broken THEN BOOLEAN ELSE {TRUE} :
                IF Retries(c, unchosen) /\ connected
                THEN Set(t, [c EXCEPT !.offer = Other(@), !.again = TRUE, !.broken = @ \/ broken])
                ELSE Set(t, lost(broken \/ (Retries(c, unchosen) /\ ~ connected)))
  BY Zenon DEF Handshake
<1> HIDE DEF c, lost
<1> QED
  BY Zenon, <1>3, <1>4, <1>5

\* The tables: what worked is remembered, what failed forgotten.
LEMMA TableSteps ==
  ASSUME EndpointsInv, NEW t \in Caller, CacheAes(t) \/ CacheEndpoint(t) \/ Invalidate(t) \/ Over(t)
  PROVE  EndpointsInv'
<1> DEFINE c == conn[t]
<1>1. /\ Looks(c, accepts) /\ endpoints \in [Slots -> Entries] /\ (aes # {} => AesSeen(accepts)) /\ c \in ConnRecords
  BY Zenon DEF EndpointsInv, EndpointTypeOK, Looks
<1>2. CASE CacheAes(t)
  <2>1. c.pc = "aes" /\ endpoints' = endpoints /\ accepts' = accepts /\ Set(t, Connected(c))
    BY Zenon, <1>2 DEF CacheAes
  <2>2. AesSeen(accepts)
    BY Zenon, <1>1, <2>1 DEF Looks, Knows
  <2>3. Goes(t)
    BY Zenon, <1>1, <2>1, SucceedsLooks DEF Goes
  <2> QED
    BY Zenon, <1>1, <2>1, <2>2, <2>3, GoesKeeps
<1>3. CASE CacheEndpoint(t)
  <2>1. c.pc = "endpoint" /\ accepts' = accepts /\ aes' = aes /\ Set(t, NoConn) /\ cache_tls_endpoint(c.site, c.addr)
    BY Zenon, <1>3 DEF CacheEndpoint
  <2>2. Goes(t)
    BY Zenon, <2>1, IdleLooks DEF Goes
  <2>3. "endpoint" \in Searching \cup {"aes", "endpoint"} /\ "endpoint" \in {"hand", "stale", "aes", "endpoint"}
    OBVIOUS
  <2>4. c.site \in Site /\ c.addr \in Addr
    BY Zenon, <1>1, <2>1, <2>3 DEF Looks, Placed
  <2>5. <<c.site, c.addr>> \in Entries
    BY Zenon, <2>4 DEF Entries
  <2>6. \E i : endpoints' = [endpoints EXCEPT ![i] = <<c.site, c.addr>>]
    BY Zenon, <2>1 DEF cache_tls_endpoint
  <2>7. endpoints' \in [Slots -> Entries]
    BY Zenon, <1>1, <2>5, <2>6
  <2> QED
    BY Zenon, <1>1, <2>1, <2>2, <2>7, GoesKeeps
<1>4. CASE Invalidate(t)
  <2> DEFINE q == [c EXCEPT !.pc = "dial", !.addr = NoAddr, !.cached = NoAddr]
             gone == Stale(c.site, c.addr)
  <2>1. c.pc = "stale" /\ accepts' = accepts /\ aes' = aes /\ Set(t, q)
        /\ endpoints' = [i \in Slots |-> IF i \in gone THEN NoAddr ELSE endpoints[i]]
    BY Zenon, <1>4 DEF Invalidate
  <2>2. /\ q \in ConnRecords /\ q.pc = "dial" /\ q.by = c.by /\ q.site = c.site /\ q.left = c.left
        /\ q.offer = c.offer /\ q.again = c.again /\ q.broken = c.broken
    BY Zenon, <1>1, PhasesAre DEF ConnRecords
  <2> HIDE DEF q, gone, c
  <2>3. Looks(q, accepts)
    BY Zenon, <1>1, <2>1, <2>2, SearchesOn
  <2>4. Goes(t)
    BY Zenon, <2>1, <2>3 DEF Goes
  <2>5. NoAddr \in Entries
    BY Zenon DEF Entries
  <2>6. endpoints' \in [Slots -> Entries]
    BY Zenon, <1>1, <2>1, <2>5
  <2> QED
    BY Zenon, <1>1, <2>1, <2>4, <2>6, GoesKeeps
<1>5. CASE Over(t)
  <2>1. accepts' = accepts /\ aes' = aes /\ endpoints' = endpoints /\ Set(t, NoConn)
    BY Zenon, <1>5 DEF Over
  <2>2. Goes(t)
    BY Zenon, <2>1, IdleLooks DEF Goes
  <2> QED
    BY Zenon, <1>1, <2>1, <2>2, GoesKeeps
<1> QED
  BY Zenon, <1>2, <1>3, <1>4, <1>5

\* Every step keeps the invariant.
LEMMA EndpointsInvNext == EndpointsInv /\ EndpointsNext => EndpointsInv'
<1> SUFFICES ASSUME EndpointsInv, NEW t \in Caller,
                    \/ \E s \in Site : ConnectManual(t, s) \/ \E flag \in BOOLEAN : OpenTlsSocket(t, s, flag)
                    \/ LookUp(t) \/ DialerNext(t) \/ Handshake(t) \/ CacheAes(t) \/ CacheEndpoint(t)
                    \/ Invalidate(t) \/ Over(t)
             PROVE  EndpointsInv'
  BY Zenon DEF EndpointsNext
<1>1. endpoints \in [Slots -> Entries] /\ (aes # {} => AesSeen(accepts))
  BY Zenon DEF EndpointsInv, EndpointTypeOK
<1>2. CASE LookUp(t) \/ \E s \in Site : ConnectManual(t, s) \/ \E flag \in BOOLEAN : OpenTlsSocket(t, s, flag)
  <2>1. endpoints' = endpoints /\ aes' = aes
    BY Zenon, <1>2 DEF LookUp, ConnectManual, OpenTlsSocket
  <2> QED
    BY Zenon, <1>1, <1>2, <2>1, BeginSteps, GoesKeeps
<1>3. CASE DialerNext(t)
  <2>1. endpoints' = endpoints /\ aes' = aes
    BY Zenon, <1>3 DEF DialerNext
  <2> QED
    BY Zenon, <1>1, <1>3, <2>1, DialerSteps, GoesKeeps
<1>4. CASE Handshake(t)
  <2>1. endpoints' = endpoints /\ aes' = aes
    BY Zenon, <1>4 DEF Handshake
  <2> QED
    BY Zenon, <1>1, <1>4, <2>1, HandshakeSteps, GoesKeeps
<1> QED
  BY Zenon, <1>2, <1>3, <1>4, TableSteps

\* Nothing is known at first.
LEMMA EndpointsInvInit == EndpointsInit => EndpointsInv
<1> SUFFICES ASSUME EndpointsInit PROVE EndpointsInv
  OBVIOUS
<1>1. NoConn \in ConnRecords /\ NoAddr \in Entries
  BY Zenon, IdleLooks DEF Looks, Entries
<1> QED
  BY Zenon, <1>1, IdleLooks DEF EndpointsInit, EndpointsInv, EndpointTypeOK, Offers

\* The invariant holds of every behaviour of the threads that open connections.
THEOREM EndpointsSafe == EndpointsSpec => []EndpointsInv
<1>1. EndpointsInv /\ [EndpointsNext]_endpointVars => EndpointsInv'
  <2> SUFFICES ASSUME EndpointsInv, [EndpointsNext]_endpointVars PROVE EndpointsInv'
    OBVIOUS
  <2>1. CASE EndpointsNext
    BY Zenon, <2>1, EndpointsInvNext
  <2>2. CASE UNCHANGED endpointVars
    BY Zenon, <2>2 DEF endpointVars, EndpointsInv, EndpointTypeOK
  <2> QED
    BY Zenon, <2>1, <2>2
<1> QED
  BY <1>1, EndpointsInvInit, PTL DEF EndpointsSpec

\* connect_manual_tls and open_tls_socket: what other threads put into the
\* tables never costs a connection its server.
THEOREM ServersReached == EndpointsSpec => []ServerReached
<1>1. EndpointsInv => ServerReached
  BY Zenon DEF EndpointsInv, Looks, Reached, ServerReached
<1> QED
  BY <1>1, EndpointsSafe, PTL

-----------------------------------------------------------------------------
\* A set of natural numbers that is not empty has a least element.
LEMMA LeastNumber ==
  ASSUME NEW T \in SUBSET Nat, T # {}
  PROVE  \E m \in T : \A k \in T : m <= k
<1> DEFINE R == OpToRel(<, Nat)
<1>1. IsWellFoundedOn(R, Nat)
  BY Zenon, NatLessThanWellFounded
<1>2. \A x, y \in Nat : x < y => <<x, y>> \in R
  BY DEF OpToRel
<1> HIDE DEF R
<1>3. PICK m \in T : \A k \in T : ~(<<k, m>> \in R)
  BY Zenon, <1>1, WFMin
<1>4. \A k \in T : ~(k < m)
  BY Zenon, <1>2, <1>3
<1>5. \A k \in T : m <= k
  BY <1>4
<1> QED
  BY Zenon, <1>5

\* The slot cache_tls_endpoint writes: the site's own, a free one, or any slot
\* of a table full of other sites.
LEMMA SlotTaken ==
  ASSUME NEW s, NEW a, cache_tls_endpoint(s, a)
  PROVE  \E i : /\ endpoints' = [endpoints EXCEPT ![i] = <<s, a>>]
                /\ \/ i \in Slots /\ endpoints[i] # NoAddr /\ endpoints[i][1] = s
                   \/ i \in Slots /\ endpoints[i] = NoAddr
                   \/ \A j \in Slots : endpoints[j] # NoAddr /\ endpoints[j][1] # s
<1> DEFINE free == {i \in Slots : endpoints[i] = NoAddr}
           slot == IF Slot(s) # {} THEN CHOOSE j \in Slot(s) : TRUE ELSE replace_index
<1>1. endpoints' = [endpoints EXCEPT ![slot] = <<s, a>>]
  BY Zenon DEF cache_tls_endpoint
<1>2. Slot(s) # {} => slot \in Slot(s)
  BY Zenon
<1> HIDE DEF slot
<1>3. CASE Cached(s) # {}
  <2>1. Slot(s) = Cached(s)
    BY Zenon, <1>3 DEF Slot
  <2>2. slot \in Slots /\ endpoints[slot] # NoAddr /\ endpoints[slot][1] = s
    BY Zenon, <1>2, <1>3, <2>1 DEF Cached
  <2> QED
    BY Zenon, <1>1, <2>2
<1>4. CASE Cached(s) = {} /\ free # {}
  <2>1. free \in SUBSET Nat
    BY DEF Slots
  <2>2. Slot(s) = First(free)
    BY Zenon, <1>4 DEF Slot
  <2> HIDE DEF free
  <2>3. PICK m \in free : \A k \in free : m <= k
    BY Zenon, <1>4, <2>1, LeastNumber
  <2>4. m \in Slot(s)
    BY Zenon, <2>2, <2>3 DEF First
  <2>5. slot \in free
    BY Zenon, <1>2, <2>2, <2>4 DEF First
  <2>6. slot \in Slots /\ endpoints[slot] = NoAddr
    BY Zenon, <2>5 DEF free
  <2> QED
    BY Zenon, <1>1, <2>6
<1>5. CASE Cached(s) = {} /\ free = {}
  <2>1. \A j \in Slots : endpoints[j] # NoAddr /\ endpoints[j][1] # s
    BY Zenon, <1>5 DEF Cached
  <2> QED
    BY Zenon, <1>1, <2>1
<1> QED
  BY Zenon, <1>3, <1>4, <1>5

\* An entry that cache_tls_endpoint drops.
LEMMA WriteForCause ==
  ASSUME EndpointsInv, NEW t \in Caller, CacheEndpoint(t), NEW s \in Site, NEW a \in Addr, NEW k \in Slots,
         endpoints[k] = <<s, a>>, endpoints'[k] # <<s, a>>
  PROVE  /\ conn[t].pc = "endpoint" /\ conn'[t] # conn[t]
         /\ conn[t].site = s \/ \A i \in Slots : endpoints[i] # NoAddr /\ endpoints[i][1] # conn[t].site
<1> DEFINE c == conn[t]
<1>1. c.pc = "endpoint" /\ conn' = [conn EXCEPT ![t] = NoConn] /\ cache_tls_endpoint(c.site, c.addr)
  BY Zenon DEF CacheEndpoint, Set
<1>2. DOMAIN conn = Caller /\ DOMAIN endpoints = Slots
  BY Zenon DEF EndpointsInv, EndpointTypeOK
<1>3. conn'[t] # conn[t]
  <2>1. conn'[t] = NoConn
    BY Zenon, <1>1, <1>2
  <2>2. NoConn.pc = "idle" /\ "idle" # "endpoint"
    BY DEF NoConn
  <2> QED
    BY Zenon, <1>1, <2>1, <2>2
<1>4. PICK i : /\ endpoints' = [endpoints EXCEPT ![i] = <<c.site, c.addr>>]
               /\ \/ i \in Slots /\ endpoints[i] # NoAddr /\ endpoints[i][1] = c.site
                  \/ i \in Slots /\ endpoints[i] = NoAddr
                  \/ \A j \in Slots : endpoints[j] # NoAddr /\ endpoints[j][1] # c.site
  BY Zenon, <1>1, SlotTaken
<1>5. k # i => endpoints'[k] = endpoints[k]
  BY Zenon, <1>2, <1>4
<1>6. k = i
  BY Zenon, <1>5
<1>7. <<s, a>> # NoAddr /\ <<s, a>>[1] = s
  BY NoAddrAssumption
<1>8. c.site = s \/ \A j \in Slots : endpoints[j] # NoAddr /\ endpoints[j][1] # c.site
  BY Zenon, <1>4, <1>6, <1>7
<1> QED
  BY Zenon, <1>1, <1>3, <1>8

\* An entry that invalidate_cached_tls_endpoint drops.
LEMMA ForgottenForCause ==
  ASSUME EndpointsInv, NEW t \in Caller, Invalidate(t), NEW s \in Site, NEW a \in Addr, NEW k \in Slots,
         endpoints[k] = <<s, a>>, endpoints'[k] # <<s, a>>
  PROVE  conn[t].pc = "stale" /\ conn[t].site = s /\ conn[t].addr = a /\ conn'[t] # conn[t]
<1> DEFINE c == conn[t]
           q == [c EXCEPT !.pc = "dial", !.addr = NoAddr, !.cached = NoAddr]
<1>1. /\ c.pc = "stale" /\ conn' = [conn EXCEPT ![t] = q]
      /\ endpoints' = [i \in Slots |-> IF i \in Stale(c.site, c.addr) THEN NoAddr ELSE endpoints[i]]
  BY Zenon DEF Invalidate, Set
<1>2. conn \in [Caller -> ConnRecords] /\ c \in ConnRecords
  BY Zenon DEF EndpointsInv, EndpointTypeOK
<1>3. q.pc = "dial" /\ "dial" # "stale"
  BY Zenon, <1>2 DEF ConnRecords
<1>4. conn'[t] # conn[t]
  <2> HIDE DEF q
  <2>1. conn'[t] = q
    BY Zenon, <1>1, <1>2
  <2> QED
    BY Zenon, <1>1, <1>3, <2>1
<1>5. k \in Stale(c.site, c.addr)
  BY Zenon, <1>1
<1>6. endpoints[k][1] = c.site /\ endpoints[k][2] = c.addr
  BY Zenon, <1>5 DEF Stale, Cached
<1>7. <<s, a>>[1] = s /\ <<s, a>>[2] = a
  OBVIOUS
<1>8. c.site = s /\ c.addr = a
  BY Zenon, <1>6, <1>7
<1> QED
  BY Zenon, <1>1, <1>4, <1>8

\* No other step touches the table.
LEMMA TableLeftAlone ==
  ASSUME NEW t \in Caller,
         \/ \E s \in Site : ConnectManual(t, s) \/ \E flag \in BOOLEAN : OpenTlsSocket(t, s, flag)
         \/ LookUp(t) \/ DialerNext(t) \/ Handshake(t) \/ CacheAes(t) \/ Over(t)
  PROVE  endpoints' = endpoints
  BY Zenon DEF ConnectManual, OpenTlsSocket, LookUp, DialerNext, Handshake, CacheAes, Over

\* cache_tls_endpoint and invalidate_cached_tls_endpoint: a remembered address
\* is forgotten only for cause, for any threads, sites, addresses and any size
\* of the table.
THEOREM EndpointsAreKept == EndpointsSpec => EndpointsKept
<1>1. ASSUME EndpointsInv, EndpointsNext, NEW s \in Site, NEW a \in Addr, NEW k \in Slots,
             endpoints[k] = <<s, a>>, \A i \in Slots : endpoints'[i] # <<s, a>>
      PROVE  \E t \in Caller :
               \/ conn[t].pc = "stale" /\ conn[t].site = s /\ conn[t].addr = a /\ conn'[t] # conn[t]
               \/ /\ conn[t].pc = "endpoint" /\ conn'[t] # conn[t]
                  /\ conn[t].site = s \/ \A i \in Slots : endpoints[i] # NoAddr /\ endpoints[i][1] # conn[t].site
  <2>0. endpoints'[k] # <<s, a>>
    BY Zenon, <1>1
  <2>1. PICK t \in Caller :
             \/ \E z \in Site : ConnectManual(t, z) \/ \E flag \in BOOLEAN : OpenTlsSocket(t, z, flag)
             \/ LookUp(t) \/ DialerNext(t) \/ Handshake(t) \/ CacheAes(t) \/ CacheEndpoint(t)
             \/ Invalidate(t) \/ Over(t)
    BY Zenon, <1>1 DEF EndpointsNext
  <2>2. CASE CacheEndpoint(t)
    BY <1>1, <2>0, <2>2, WriteForCause
  <2>3. CASE Invalidate(t)
    <3>1. conn[t].pc = "stale" /\ conn[t].site = s /\ conn[t].addr = a /\ conn'[t] # conn[t]
      BY <1>1, <2>0, <2>3, ForgottenForCause
    <3> QED
      BY Zenon, <3>1
  <2>4. CASE ~CacheEndpoint(t) /\ ~Invalidate(t)
    <3>1. endpoints' = endpoints
      BY Zenon, <2>1, <2>4, TableLeftAlone
    <3> QED
      BY Zenon, <1>1, <2>0, <3>1
  <2> QED
    BY Zenon, <2>1, <2>2, <2>3, <2>4
<1>2. EndpointsInv /\ EndpointsNext => EndpointForgottenForCause
  BY <1>1 DEF EndpointForgottenForCause
<1>3. EndpointsInv /\ [EndpointsNext]_endpointVars => [EndpointForgottenForCause]_endpointVars
  BY Zenon, <1>2
<1> QED
  BY <1>3, EndpointsSafe, PTL DEF EndpointsSpec, EndpointsKept
=============================================================================
