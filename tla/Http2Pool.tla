------------------------------ MODULE Http2Pool ------------------------------
(***************************************************************************)
(* Lifetimes and admission in the shared HTTP/2 pool (http2_pool.c): the   *)
(* streams of the client workers, the actors (one thread per physical      *)
(* connection) that carry them, the groups actors belong to, and the       *)
(* requests an actor has open.  `pool' is the state mux_lock guards, an    *)
(* action is what one thread does while it holds the lock, and the helpers *)
(* map a pool to the set of pools the code may leave.  Output is flushed   *)
(* as a whole here; windows, credit and the bytes of an upload are the     *)
(* subject of Http2Credit and Http2Upload.                                 *)
(***************************************************************************)
EXTENDS Integers, Sequences, FiniteSets, SequencesExt

CONSTANTS Stream,        \* streams of client workers, each connected once
          Actor, Group,  \* memory for actors and groups: sets 1 .. n
          Plans,         \* configurations of the streams that come, functions to plans
          ActorLimit,    \* 512 running actors
          ManagerLimit,  \* 64 managers
          ChannelLimit,  \* 4 connections of one gRPC manager
          GroupStreams,  \* sampled xmux maxConcurrency, 0 for no limit
          Concurrency,   \* values of SETTINGS_MAX_CONCURRENT_STREAMS
          MaxWrites(_),  \* bound: blocks the client of a stream uploads
          MaxTroubles(_) \* bound: failed calls, blocked output, errors, limits, SETTINGS, per plan

VARIABLES plan,  \* configuration of each stream
          pool,  \* what mux_lock guards
          pc     \* where the client worker of a stream is

poolVars == <<plan, pool, pc>>

None == 0
Free == [phase |-> "free"]
NoGroup == [live |-> FALSE]

\* A manager per distinct configuration; an independent download leg
\* (downloadSettings) has a manager of its own.
UpManager(s) == [plan |-> plan[s], side |-> "up"]
DownManager(s) == [plan |-> plan[s], side |-> IF plan[s].split THEN "down" ELSE "up"]
Grpc(m) == m.plan.mode = "grpc"

FreshStream(s) == [up |-> None, down |-> None, up_id |-> FALSE, down_id |-> FALSE, ready |-> 0, failed |-> FALSE,
                   closed |-> FALSE, tx |-> 0, left |-> MaxWrites(s), references |-> 1, waiting |-> FALSE]
FreshActor(g) == [phase |-> "opening", g |-> g, failed |-> FALSE, draining |-> FALSE, closing |-> FALSE,
                  http2 |-> TRUE, conc |-> 9, waiters |-> 0, net |-> FALSE, wake |-> FALSE, requests |-> <<>>]

Live(p, a) == p.actor[a].phase # "free"
Running(p, a) == p.actor[a].phase \notin {"free", "stopped"}
ManagerOf(p, a) == p.group[p.actor[a].g].m
Legs(p, s) == {p.stream[s].up, p.stream[s].down} \ {None}
Bound(p, a) == {s \in Range(p.streams) : a \in Legs(p, s)}
Map(f, A, Op(_)) == [x \in DOMAIN f |-> IF x \in A THEN Op(f[x]) ELSE f[x]]

\* Unusual events so far, counted only to bound the model.
Trouble(p) == [p EXCEPT !.troubles = @ + 1]
Sound(p) == p.troubles < MaxTroubles(plan)

request_active(x) == Cardinality({i \in DOMAIN x.requests :
                         LET q == x.requests[i] IN ~q.reset /\ ~(q.ended /\ q.send_ended)})

wake_actors(p, A) == [p EXCEPT !.actor = Map(@, {a \in A : Running(p, a)}, LAMBDA x : [x EXCEPT !.wake = TRUE])]
wake_channels(p, a) == wake_actors(p, {b \in Actor : Live(p, b) /\ b # a /\ ManagerOf(p, b) = ManagerOf(p, a)})
fail_streams(p, S) == [p EXCEPT !.stream = Map(@, S, LAMBDA t : [t EXCEPT !.failed = TRUE])]
AddRunning(p, g, n) == [p EXCEPT !.group[g].running = @ + n]

\* collect_stopped_actors: the memory of actors nobody names any more, then
\* of the groups without an actor.
Collect(p, dead) ==
    LET left == {a \in Actor : Live(p, a)} \ dead
        used == {p.actor[a].g : a \in left}
    IN  [p EXCEPT !.actor = Map(@, dead, LAMBDA x : Free),
                  !.order = SelectSeq(@, LAMBDA a : a \in left),
                  !.group = Map(@, {g \in Group \ used : p.group[g].live /\ p.group[g].running = 0}, LAMBDA g : NoGroup)]

Unused(p) == {a \in Actor : p.actor[a].phase = "stopped" /\ Bound(p, a) = {}}
collect_NoWaiters(p) == Collect(p, Unused(p))   \* Mutant: a closer may still wait for the actor.
collect_stopped_actors(p) == Collect(p, {a \in Unused(p) : p.actor[a].waiters = 0})

\* release_stream, n times: the last reference of a closed stream unlinks and
\* frees it (a freed stream is one that is no longer in the list).
release_stream(p, s, n) ==
    LET left == p.stream[s].references - n
    IN  [p EXCEPT !.stream[s].references = left,
                  !.streams = IF left = 0 /\ p.stream[s].closed THEN SelectSeq(@, LAMBDA t : t # s) ELSE @]

-----------------------------------------------------------------------------
\* Channels.  Each operator yields the possible results [p, a, err].

Result(p, a, err) == [p |-> p, a |-> a, err |-> err]
Lowest(S) == CHOOSE x \in S : \A y \in S : x <= y

AtLimit(p) == Cardinality({b \in Actor : Running(p, b)}) >= ActorLimit

\* new_actor: the limit, the budgets and the thread may each refuse.  Memory
\* freed in the same step is not handed out, so that a stale pointer shows.
new_actor(p, g) ==
    LET a == Lowest({b \in Actor : ~Live(p, b) /\ ~Live(pool, b)})
    IN  IF AtLimit(p) THEN {Result(p, None, "again")}
        ELSE {Result([p EXCEPT !.actor[a] = FreshActor(g), !.order = <<a>> \o @], a, "")} \cup
             (IF Sound(p) THEN {Result(Trouble(p), None, e) : e \in {"again", "error"}} ELSE {})

Usable(x) == /\ x.phase # "stopped" /\ ~x.failed /\ ~x.draining
             /\ \/ x.phase = "opening"
                \/ x.http2 /\ request_active(x) + 1 <= x.conc
                \/ ~x.http2 /\ request_active(x) = 0 /\ ~x.net

\* group_channel: the first usable connection of the group, else a new one.
group_channel(p, g) ==
    LET fit == SelectSeq(p.order, LAMBDA a : p.actor[a].g = g /\ Usable(p.actor[a]))
        m == p.group[g].m
    IN  IF fit # <<>> THEN {Result(p, Head(fit), "")}
        ELSE IF Grpc(m) /\ Cardinality({a \in Actor : Running(p, a) /\ ManagerOf(p, a) = m}) >= ChannelLimit
        THEN {Result(p, None, "again")}
        ELSE new_actor(p, g)

\* choose_group: the group of a gRPC manager; with xmux a group with room that
\* is not retired (`old' has just reached its reuse, request or age limit),
\* once there are as many as maxConnections asks for; else a new group.
\* Without xmux every stream has one of its own.
choose_group(q, m) ==
    LET p == collect_stopped_actors(q)
        mine == {g \in Group : p.group[g].live /\ p.group[g].m = m}
        young == {g \in mine : ~p.group[g].retired}
        retire(old) == wake_actors([(IF old = {} THEN p ELSE Trouble(p)) EXCEPT
                                        !.group = Map(@, old, LAMBDA x : [x EXCEPT !.retired = TRUE])],
                                   {a \in Actor : Live(p, a) /\ p.actor[a].g \in (mine \ young) \cup old})
        open(r, old) == {g \in young \ old : GroupStreams = 0 \/ r.group[g].running < GroupStreams}
        new == Lowest({g \in Group : ~p.group[g].live /\ ~pool.group[g].live})
        fresh(r) == IF AtLimit(r) THEN [p |-> r, g |-> None]
                    ELSE [p |-> [r EXCEPT !.group[new] = [live |-> TRUE, m |-> m, running |-> 0, retired |-> FALSE]], g |-> new]
        olds == {{}} \cup IF Sound(p) THEN {{g} : g \in young} ELSE {}
    IN  IF Grpc(m) /\ mine # {} THEN {[p |-> p, g |-> g] : g \in mine}
        ELSE IF ~m.plan.xmux THEN {fresh(p)}
        ELSE UNION {LET r == retire(old)
                    IN  IF open(r, old) # {} /\ Cardinality(young \ old) >= m.plan.connections
                        THEN {[p |-> r, g |-> g] : g \in open(r, old)} ELSE {fresh(r)} : old \in olds}

choose_actor(p, m) ==
    UNION {IF c.g = None THEN {Result(c.p, None, "again")} ELSE group_channel(c.p, c.g) : c \in choose_group(p, m)}

\* allocate_channels: both legs or nothing.  An upload connection chosen in
\* vain and serving nobody is told to go.
bind_channels(p, s, u, d) ==
    LET gu == p.actor[u].g
        gd == p.actor[d].g
        r == AddRunning(p, gu, 1)
    IN  wake_actors([(IF gd # gu THEN AddRunning(r, gd, 1) ELSE r) EXCEPT !.stream[s].up = u, !.stream[s].down = d], {u, d})

allocate_channels(p, s) ==
    LET undo(q, u) == IF q.group[q.actor[u].g].running = 0 /\ request_active(q.actor[u]) = 0
                      THEN wake_actors([q EXCEPT !.actor[u].failed = TRUE], {u}) ELSE q
        second(u) == IF plan[s].split THEN choose_actor(u.p, DownManager(s)) ELSE {u}
    IN  UNION {IF u.a = None THEN {u}
               ELSE {IF d.a = None THEN Result(undo(d.p, u.a), None, d.err)
                     ELSE Result(bind_channels(d.p, s, u.a, d.a), u.a, "") : d \in second(u)} : u \in choose_actor(p, UpManager(s))}

PoolInit ==
    /\ plan \in Plans
    /\ pool = [streams |-> <<>>, stream |-> [s \in Stream |-> FreshStream(s)], actor |-> [a \in Actor |-> Free],
               order |-> <<>>, group |-> [g \in Group |-> NoGroup], managers |-> {}, troubles |-> 0]
    /\ pc = [s \in Stream |-> "idle"]

-----------------------------------------------------------------------------
\* The client worker.

get_manager(p, m) ==
    IF m \in p.managers \/ Cardinality(p.managers) < ManagerLimit
    THEN [p |-> [p EXCEPT !.managers = @ \cup {m}], ok |-> TRUE] ELSE [p |-> p, ok |-> FALSE]

\* core_http2_connect up to its loop, with get_manager for both legs: bound,
\* waiting for admission (EAGAIN), or refused.
Connect(s) ==
    /\ pc[s] = "idle" /\ s \in DOMAIN plan
    /\ LET up == get_manager(pool, UpManager(s))
           both == IF up.ok THEN get_manager(up.p, DownManager(s)) ELSE up
       IN  IF ~both.ok THEN pc' = [pc EXCEPT ![s] = "done"] /\ pool' = both.p
           ELSE \E r \in allocate_channels(both.p, s) :
                  IF r.err = "error" THEN pc' = [pc EXCEPT ![s] = "done"] /\ pool' = r.p
                  ELSE /\ pc' = [pc EXCEPT ![s] = "wait"]
                       /\ pool' = [r.p EXCEPT !.streams = <<s>> \o @, !.stream[s].waiting = r.err = "again"]
    /\ UNCHANGED plan

\* One round of the loop of core_http2_connect; it comes round at every
\* notification and at least every 100 ms.
ConnectLoop(s) ==
    /\ pc[s] = "wait"
    /\ \E r \in IF pool.stream[s].waiting THEN allocate_channels(pool, s) ELSE {Result(pool, None, "")}, late \in BOOLEAN :
         LET p == [r.p EXCEPT !.stream[s].waiting = @ /\ r.err # "", !.stream[s].failed = @ \/ r.err = "error"]
         IN  /\ late => Sound(p)
             /\ pool' = IF late THEN Trouble(p) ELSE p
             /\ pc' = [pc EXCEPT ![s] = IF p.stream[s].ready = 1 THEN "open"
                                        ELSE IF p.stream[s].failed \/ late THEN "abort" ELSE "wait"]
    /\ UNCHANGED plan

\* core_http2_write_parts, as far as lifetimes are concerned.
Write(s) ==
    /\ pc[s] = "open" /\ ~pool.stream[s].failed /\ pool.stream[s].left > 0
    /\ pool' = wake_actors([pool EXCEPT !.stream[s].tx = @ + 1, !.stream[s].left = @ - 1], {pool.stream[s].up})
    /\ UNCHANGED <<plan, pc>>

\* Connections that serve this stream only are closed with it.
PrivateActors(s) == IF plan[s].mode = "grpc" \/ plan[s].xmux THEN {} ELSE Legs(pool, s)

Awoken(s) == Legs(pool, s)

\* core_http2_close up to the wait for the private connections.
Close(s) ==
    /\ pc[s] \in {"open", "abort"}
    /\ LET own == PrivateActors(s)
           groups == {pool.actor[a].g : a \in Legs(pool, s)}
           told == wake_actors([pool EXCEPT !.actor = Map(@, own, LAMBDA x : [x EXCEPT !.closing = TRUE, !.waiters = @ + 1]),
                                            !.group = Map(@, groups, LAMBDA g : [g EXCEPT !.running = @ - 1]),
                                            !.stream[s].closed = TRUE, !.stream[s].tx = 0], Awoken(s))
       IN  /\ pool' = collect_stopped_actors(release_stream(told, s, 1))
           /\ pc' = [pc EXCEPT ![s] = IF own = {} THEN "done" ELSE "closing"]
    /\ UNCHANGED plan

\* core_http2_close after its private connections have stopped.
CloseWait(s) ==
    /\ pc[s] = "closing"
    /\ \A a \in PrivateActors(s) : pool.actor[a].phase = "stopped"
    /\ pool' = collect_stopped_actors([pool EXCEPT !.actor = Map(@, PrivateActors(s), LAMBDA x : [x EXCEPT !.waiters = @ - 1])])
    /\ pc' = [pc EXCEPT ![s] = "done"]
    /\ UNCHANGED plan

-----------------------------------------------------------------------------
\* One call of advance_streams.  A step is [p, next]: "on" within the
\* iteration of a stream, "skip" to the next stream, "fail" out of the call.

Step(p, next) == [p |-> p, next |-> next]
Then(steps, Op(_)) == UNION {IF t.next = "on" THEN Op(t.p) ELSE {t} : t \in steps}

\* start_request: refused for now (concurrency, buffers), failed, or entered
\* in the list with a reference to its stream.
start_request(p, a, s, role, sent) ==
    LET x == p.actor[a]
        q == [s |-> s, role |-> role, ended |-> FALSE, send_ended |-> sent, reset |-> FALSE]
    IN  {Step(p, "skip")} \cup
        (IF Sound(p) THEN {Step(Trouble([p EXCEPT !.actor[a].failed = TRUE]), "fail")} ELSE {}) \cup
        (IF request_active(x) >= x.conc THEN {}
         ELSE {Step([p EXCEPT !.actor[a].requests = <<q>> \o @, !.actor[a].net = TRUE, !.stream[s].references = @ + 1,
                              !.stream[s].down_id = @ \/ role \in {"get", "both"},
                              !.stream[s].up_id = @ \/ role \in {"both", "up"}], "on")})

\* The connection is full or draining: another one takes the stream over.
hand_over(found, s, moved) ==
    Step(CASE found.err = "again" -> found.p [] found.err = "error" -> fail_streams(found.p, {s})
           [] OTHER -> wake_actors(moved, {found.a}), "skip")
crowded(x) == request_active(x) >= x.conc \/ x.draining
MoveUp(p, s, b) == [p EXCEPT !.stream[s].up = b]
MoveFrom(p, s, a, b) == [p EXCEPT !.stream[s].down = IF @ = a THEN b ELSE @, !.stream[s].up = IF @ = a THEN b ELSE @]

\* The request for the download (with stream-one and gRPC, for both ways).
start_download(p, a, s) ==
    LET mode == plan[s].mode
        role == IF mode \in {"grpc", "stream-one"} THEN "both" ELSE "get"
    IN  IF p.stream[s].down # a \/ p.stream[s].down_id THEN {Step(p, "on")}
        ELSE (IF Sound(p) THEN {Step(Trouble(fail_streams(p, {s})), "skip")} ELSE {})   \* past until_ms
             \cup IF crowded(p.actor[a])
                  THEN {hand_over(r, s, MoveFrom(r.p, s, a, r.a)) : r \in group_channel(p, p.actor[a].g)}
                  ELSE Then(start_request(p, a, s, role, role = "get"),
                            LAMBDA q : {Step(IF mode = "stream-up" THEN q ELSE [q EXCEPT !.stream[s].ready = 2], "on")})

\* stream-up: the request that carries the upload.
start_upload(p, a, s) ==
    LET t == p.stream[s]
    IN  IF ~(plan[s].mode = "stream-up" /\ t.up = a /\ t.down_id /\ ~t.up_id) THEN {Step(p, "on")}
        ELSE IF crowded(p.actor[a])
        THEN {hand_over(r, s, MoveUp(r.p, s, r.a)) : r \in group_channel(p, p.actor[a].g)}
        ELSE Then(start_request(p, a, s, "up", FALSE), LAMBDA q : {Step([q EXCEPT !.stream[s].ready = 2], "on")})

\* packet-up with no POST in progress: a retired group (or one that reaches a
\* limit now) or a busy connection hands the upload on, else a POST starts.
rotate(p, s, b) ==
    LET old == p.actor[p.stream[s].up].g
        down == p.actor[p.stream[s].down].g
        new == p.actor[b].g
        q == IF old # down THEN AddRunning(p, old, -1) ELSE p
    IN  MoveUp(IF new # down THEN AddRunning(q, new, 1) ELSE q, s, b)

start_packet(p, a, s) ==
    LET x == p.actor[a]
        retired == p.group[x.g].retired
        limit == [(IF retired THEN p ELSE Trouble(p)) EXCEPT !.group[x.g].retired = TRUE]
    IN  (IF plan[s].xmux /\ (retired \/ Sound(p))
         THEN {hand_over(r, s, rotate(r.p, s, r.a)) : r \in choose_actor(limit, ManagerOf(p, a))} ELSE {})
        \cup (IF retired THEN {}
              ELSE IF x.draining \/ (~x.http2 /\ request_active(x) > 0)
              THEN {hand_over(r, s, MoveUp(r.p, s, r.a)) : r \in group_channel(p, x.g)}
              ELSE UNION {Then(start_request(p, a, s, "packet", sent),
                               LAMBDA q : {Step(IF sent THEN [q EXCEPT !.stream[s].tx = @ - 1] ELSE q, "on")}) : sent \in BOOLEAN})

\* DATA of the request in progress, unless a window, the fence of the last
\* POST or the interval between two says not now.  A streamed POST ends with
\* its last byte or when its idle timer has run out.
send_upload(p, a, s) ==
    LET t == p.stream[s]
        R == p.actor[a].requests
        packet == plan[s].mode = "packet-up"
        mine == {i \in DOMAIN R : R[i].s = s /\ R[i].role # "get" /\ ~R[i].reset /\ (packet => ~R[i].ended)}
        unsent == {i \in mine : ~R[i].send_ended}
        out(n, i, last) == [p EXCEPT !.stream[s].tx = @ - n, !.actor[a].net = TRUE, !.actor[a].requests[i].send_ended = last]
    IN  {Step(p, "skip")} \cup (IF t.up = a /\ packet /\ t.tx = 0 THEN {Step(out(0, i, TRUE), "skip") : i \in unsent} ELSE {}) \cup
        IF t.up # a \/ t.ready # 1 \/ t.tx = 0 THEN {}
        ELSE IF unsent # {} THEN {Step(IF packet /\ ~last THEN Trouble(out(1, i, last)) ELSE out(1, i, last), "skip") :
                                       i \in unsent, last \in IF Sound(p) THEN {packet, FALSE} ELSE {packet}}
        ELSE IF packet /\ ~p.actor[a].net /\ (p.actor[a].http2 \/ mine = {}) THEN start_packet(p, a, s)
        ELSE {}

advance_stream(p, a, s) ==
    IF p.stream[s].failed \/ p.stream[s].closed THEN {Step(p, "skip")}
    ELSE Then(Then(start_download(p, a, s), LAMBDA q : start_upload(q, a, s)), LAMBDA q : send_upload(q, a, s))

\* move_waiting_streams
move_waiting_streams(p, a) ==
    LET stays(q, s) == \/ q.stream[s].closed \/ q.stream[s].failed \/ s \notin Bound(q, a)
                       \/ q.stream[s].down = a /\ q.stream[s].down_id
                       \/ q.stream[s].up = a /\ q.stream[s].up_id
                       \/ \E i \in DOMAIN q.actor[a].requests : LET r == q.actor[a].requests[i] IN r.s = s /\ ~r.ended
        move(q, s) == IF stays(q, s) THEN {Step(q, "on")}
                      ELSE {IF r.a # None THEN Step(wake_actors(MoveFrom(r.p, s, a, r.a), {r.a}), "on")
                            ELSE Step([r.p EXCEPT !.actor[a].failed = TRUE], "fail") : r \in group_channel(q, q.actor[a].g)}
    IN  FoldLeft(LAMBDA acc, s : Then(acc, LAMBDA q : move(q, s)), {Step(p, "on")}, p.streams)

\* The last walk: requests that are over leave the list and drop their
\* reference.  On HTTP/1.1 an unfinished response makes the connection
\* useless, and the streams that wait for it move on first.
drop_requests(p, a) ==
    LET R == p.actor[a].requests
        over(q) == p.stream[q.s].closed \/ p.stream[q.s].failed \/ (q.ended /\ (q.role = "packet" \/ q.send_ended))
        gone == {i \in DOMAIN R : over(R[i])}
        cancel == \E i \in gone : ~R[i].reset /\ ~(R[i].ended /\ R[i].send_ended)
        drop(q) == wake_channels(FoldLeft(LAMBDA r, i : IF i \in gone THEN release_stream(r, R[i].s, 1) ELSE r,
                       [q EXCEPT !.actor[a].requests = SelectSeq(R, LAMBDA x : ~over(x)), !.actor[a].net = @ \/ cancel],
                       [i \in DOMAIN R |-> i]), a)
    IN  IF gone = {} THEN {Step(p, "on")}
        ELSE IF ~p.actor[a].http2 /\ \E i \in gone : ~R[i].ended
        THEN Then(move_waiting_streams([p EXCEPT !.actor[a].draining = TRUE], a), LAMBDA q : {Step(drop(q), "on")})
        ELSE {Step(drop(p), "on")}

advance_streams(p, a) ==
    LET walk == FoldLeft(LAMBDA acc, s : UNION {IF t.next = "fail" THEN {t} ELSE advance_stream(t.p, a, s) : t \in acc},
                         {Step(p, "skip")}, p.streams)
    IN  UNION {IF t.next = "fail" THEN {t} ELSE drop_requests(t.p, a) : t \in walk}

\* stop_idle_actor: a connection nobody uses goes; a shared one only when its
\* group is retired, it drains, or its idle or drain timer ran out.
stop_idle_actor(p, a) ==
    LET x == p.actor[a]
        m == ManagerOf(p, a)
    IN  IF x.requests # <<>> \/ \E s \in Bound(p, a) : ~p.stream[s].closed THEN {FALSE}
        ELSE IF Grpc(m) /\ ~x.draining THEN BOOLEAN
        ELSE IF ~x.draining /\ ~p.group[x.g].retired /\ m.plan.xmux THEN (IF x.net THEN BOOLEAN ELSE {FALSE})
        ELSE {TRUE}

\* backend->flush and account_output: the output has all gone, is held up, or
\* the connection is broken.  A stream is ready once its requests are out on
\* both legs (`past': what the other leg still holds was queued behind it).
flush(p, a) ==
    LET settled(b, past) == b = a \/ (p.actor[b].phase # "opening" /\ (past \/ ~p.actor[b].net))
        ready(past) == {s \in Bound(p, a) : p.stream[s].ready = 2 /\ \A b \in Legs(p, s) : settled(b, past)}
    IN  {[p EXCEPT !.actor[a].net = FALSE, !.actor[a].phase = "input",
                   !.stream = Map(@, ready(past), LAMBDA t : [t EXCEPT !.ready = 1])] : past \in BOOLEAN} \cup
        IF Sound(p) THEN {Trouble([p EXCEPT !.actor[a].phase = "input"]),
                          Trouble([p EXCEPT !.actor[a].failed = TRUE, !.actor[a].phase = "sweep"])} ELSE {}

-----------------------------------------------------------------------------
\* The actor thread, actor_worker.

\* The open call returned: HTTP/2, HTTP/1.1 or an error.  The other leg of
\* every stream on this connection is woken.
Opened(a) ==
    /\ pool.actor[a].phase = "opening"
    /\ \E kind \in {"h2", "h1", "error"} :
         LET p == [pool EXCEPT !.actor[a].phase = "input", !.actor[a].wake = TRUE, !.actor[a].http2 = kind = "h2",
                               !.actor[a].failed = @ \/ kind = "error", !.actor[a].conc = IF kind = "h2" THEN @ ELSE 1]
             legs == UNION {Legs(p, s) : s \in {t \in Bound(p, a) : ~p.stream[t].closed}}
         IN  /\ kind = "h1" => ~Grpc(ManagerOf(pool, a))
             /\ kind = "error" => Sound(pool)
             /\ pool' = wake_actors(IF kind = "error" THEN Trouble(p) ELSE p, legs \ {a})
    /\ UNCHANGED <<plan, pc>>

\* After the poll returned, woken or for a socket event or a timer: the loop
\* is left when the actor has failed or is closing.
Over(x) == x.failed \/ x.closing
Leave(a) ==
    /\ pool.actor[a].phase = "input" /\ Over(pool.actor[a])
    /\ pool' = [pool EXCEPT !.actor[a].phase = "sweep", !.actor[a].wake = FALSE]
    /\ UNCHANGED <<plan, pc>>

\* Otherwise one round of the loop: the streams advance, output is flushed.
Round(a) ==
    /\ pool.actor[a].phase = "input" /\ ~Over(pool.actor[a])
    /\ \E t \in advance_streams([pool EXCEPT !.actor[a].wake = FALSE], a) : \E done \in stop_idle_actor(t.p, a) :
         LET q == [t.p EXCEPT !.actor[a].draining = @ \/ done]
         IN  pool' \in IF done \/ Over(q.actor[a]) THEN {[q EXCEPT !.actor[a].phase = "sweep"]} ELSE flush(q, a)
    /\ UNCHANGED <<plan, pc>>

\* process_frame on a request of this connection: end of the response, a
\* non-200 or rejected response, RST_STREAM with an error or without (which
\* after the response only stops the upload).  The wake stands for the zero
\* timeout after progress.
Frame(a) ==
    /\ pool.actor[a].phase = "input"
    /\ \E i \in DOMAIN pool.actor[a].requests, what \in {"end", "refused", "rejected", "reset", "no_error"} :
         LET q == pool.actor[a].requests[i]
             rst == what \in {"reset", "no_error"}
             p == [(IF what = "end" THEN pool ELSE Trouble(pool)) EXCEPT !.actor[a].wake = TRUE,
                      !.actor[a].net = @ \/ what = "rejected",
                      !.actor[a].requests[i] = [q EXCEPT !.ended = TRUE, !.reset = rst \/ what = "rejected",
                                                         !.send_ended = @ \/ rst]]
         IN  /\ ~q.reset
             /\ what = "end" => ~q.ended
             /\ what # "end" => pool.actor[a].http2 /\ Sound(pool)
             /\ pool' = CASE what \in {"refused", "rejected", "reset"} \/ (rst /\ ~q.ended) -> fail_streams(p, {q.s})
                          [] what = "no_error" /\ q.ended /\ q.role \in {"both", "up"} /\ p.stream[q.s].up = a ->
                                [p EXCEPT !.stream[q.s].tx = 0, !.stream[q.s].left = 0]
                          [] OTHER -> p
    /\ UNCHANGED <<plan, pc>>

\* process_frame on the connection: SETTINGS; GOAWAY, which refuses the
\* requests above its last stream, the backend retiring the connection, or the
\* peer's close of an idle HTTP/1.1 connection; and every error that ends it, a missed PING answer included.
Control(a) ==
    /\ pool.actor[a].phase = "input" /\ Sound(pool)
    /\ LET x == pool.actor[a]
           p == Trouble([pool EXCEPT !.actor[a].wake = TRUE])
       IN  \/ x.http2 /\ \E n \in Concurrency : pool' = [p EXCEPT !.actor[a].conc = n]
           \/ /\ ~x.draining
              /\ x.http2 \/ request_active(x) = 0
              /\ \E cut \in IF x.http2 THEN 0 .. Len(x.requests) ELSE {0} :
                   pool' = fail_streams([p EXCEPT !.actor[a].draining = TRUE, !.actor[a].requests =
                               Map(@, 1 .. cut, LAMBDA q : [q EXCEPT !.ended = TRUE])], {x.requests[i].s : i \in 1 .. cut})
           \/ pool' = [p EXCEPT !.actor[a].failed = TRUE, !.actor[a].phase = "sweep"]
    /\ UNCHANGED <<plan, pc>>

\* The end of actor_worker, first locked part: every open stream still bound
\* fails and the requests drop their references.
Told_Requests(p, a) == {p.actor[a].requests[i].s : i \in DOMAIN p.actor[a].requests}   \* Mutant: only streams with a request.
Told(p, a) == {s \in Bound(p, a) : ~p.stream[s].closed}
Sweep(a) ==
    /\ pool.actor[a].phase = "sweep"
    /\ pool' = [FoldLeft(LAMBDA r, q : release_stream(r, q.s, 1), fail_streams(pool, Told(pool, a)), pool.actor[a].requests)
                   EXCEPT !.actor[a].phase = "closed", !.actor[a].requests = <<>>]
    /\ UNCHANGED <<plan, pc>>

\* Second locked part: the connection is closed, the thread gives itself up.
Stop(a) ==
    /\ pool.actor[a].phase = "closed"
    /\ pool' = collect_stopped_actors(wake_channels([pool EXCEPT !.actor[a].phase = "stopped", !.actor[a].net = FALSE], a))
    /\ UNCHANGED <<plan, pc>>

PoolNext ==
    \/ \E s \in Stream : Connect(s) \/ ConnectLoop(s) \/ Write(s) \/ Close(s) \/ CloseWait(s)
    \/ \E a \in Actor : Opened(a) \/ Leave(a) \/ Round(a) \/ Frame(a) \/ Control(a) \/ Sweep(a) \/ Stop(a)

PoolSpec == PoolInit /\ [][PoolNext]_poolVars

-----------------------------------------------------------------------------
OpenStreams == {s \in Range(pool.streams) : ~pool.stream[s].closed}
RequestsOf(s) == UNION {{a} \X {i \in DOMAIN pool.actor[a].requests : pool.actor[a].requests[i].s = s}
                        : a \in {b \in Actor : Live(pool, b)}}

\* No pointer outlives its target: the actors of every stream in the list,
\* the group of every actor, the stream of every request and the connections
\* a close still waits for are all allocated (collect_stopped_actors and
\* release_stream free nothing that is still named).
ChannelsAlive ==
    /\ \A s \in Range(pool.streams) : \A a \in Legs(pool, s) : Live(pool, a)
    /\ \A a \in Actor : Live(pool, a) => pool.group[pool.actor[a].g].live
    /\ \A s \in Stream : RequestsOf(s) # {} => s \in Range(pool.streams)
    /\ \A s \in Stream : pc[s] = "closing" => \A a \in PrivateActors(s) : Live(pool, a)

\* The counters that decide about freeing are exact: the references of a
\* stream are its open handle and its requests on any connection, and
\* `running' of a group counts the open streams with a leg in it, through
\* moves, rotation and closes.
CountsExact ==
    /\ \A s \in Range(pool.streams) : pool.stream[s].references =
          Cardinality(RequestsOf(s)) + (IF pool.stream[s].closed THEN 0 ELSE 1)
    /\ \A g \in Group : pool.group[g].live => pool.group[g].running =
          Cardinality({s \in OpenStreams : \E a \in Legs(pool, s) : pool.actor[a].g = g})

\* Nothing of the pool is freed while it is in use, and the counters that
\* decide about it are exact.
PoolExact == ChannelsAlive /\ CountsExact

\* An open stream is never left behind: once a connection has told its
\* streams that it is over (the sweep at the end of actor_worker), no stream
\* is bound to it that has not failed, so every reader and writer of a dead
\* connection hears of it.
NoStreamStranded ==
    \A s \in OpenStreams : \A a \in Legs(pool, s) : pool.actor[a].phase \in {"closed", "stopped"} => pool.stream[s].failed

\* core_http2_close never waits for nothing: a connection it waits for is told
\* to close, and is still opening, woken, on its way out or already stopped;
\* it never sleeps in its poll with nobody left to wake it.
CloseNotForgotten ==
    \A s \in Stream : pc[s] = "closing" => \A a \in PrivateActors(s) :
        /\ pool.actor[a].closing /\ pool.actor[a].waiters > 0
        /\ pool.actor[a].phase = "input" => pool.actor[a].wake

\* Nobody waits for a connection that is over: its streams have been told, and
\* a close waits only for connections that are about to stop.
NobodyForgotten == NoStreamStranded /\ CloseNotForgotten
=============================================================================
