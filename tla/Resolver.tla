------------------------------ MODULE Resolver ------------------------------
(***************************************************************************)
(* src/resolver.c: a queue of name queries served by a few threads that    *)
(* call getaddrinfo.  A query is shared by the client that started it and  *)
(* the worker that will answer it; it counts two references, and whoever   *)
(* drops the last one frees it.  The client may give up at any moment.     *)
(*                                                                         *)
(* A step is one section under resolver_lock; resolver_free runs outside   *)
(* the lock and is a step of its own.  The linked list is a sequence here; *)
(* LinkedQueue shows that the pointer operations implement it.             *)
(***************************************************************************)
EXTENDS Integers, Sequences, FiniteSets

CONSTANTS Queries,      \* pieces of memory for queries, used again once freed
          Workers,      \* resolver_worker threads (RESOLVER_WORKERS)
          QueueLimit,   \* RESOLVER_QUEUE_LIMIT
          NoQuery

ASSUME WorkersAssumption == IsFiniteSet(Workers)
ASSUME LimitAssumption == QueueLimit \in Nat
ASSUME NoQueryAssumption == NoQuery \notin Queries

VARIABLES
  queue, queued,    \* the list from resolver_head on, and resolver_queued
  live,             \* live[q]: the memory of q is allocated
  started, done, references,   \* the fields of a query
  addresses,        \* addresses[q]: who points to the list getaddrinfo made
  client, expired,  \* what the client of q is doing; its deadline has passed
  worker, serving   \* what worker w is doing, and the query it has taken

fields == <<live, started, done, references>>
vars == <<queue, queued, fields, addresses, client, expired, worker, serving>>

Init ==
  /\ queue = <<>> /\ queued = 0
  /\ live = [q \in Queries |-> FALSE]
  /\ started = [q \in Queries |-> FALSE]
  /\ done = [q \in Queries |-> FALSE]
  /\ references = [q \in Queries |-> 0]
  /\ addresses = [q \in Queries |-> {}]
  /\ client = [q \in Queries |-> "none"]
  /\ expired = [q \in Queries |-> FALSE]
  /\ worker = [w \in Workers |-> "looks"]
  /\ serving = [w \in Workers |-> NoQuery]

-----------------------------------------------------------------------------
Sleepers == {w \in Workers : worker[w] = "sleeps"}
Awake == {w \in Workers : worker[w] \in {"looks", "woken"}}
In(s, x) == \E i \in 1..Len(s) : s[i] = x
Distinct(s) == \A i, j \in 1..Len(s) : s[i] = s[j] => i = j
Without(s, i) == [j \in 1..(Len(s) - 1) |-> IF j < i THEN s[j] ELSE s[j + 1]]

WakeOne == \E w \in Sleepers : worker' = [worker EXCEPT ![w] = "woken"]

\* Mutant: no signal while a query is already waiting.
Signal_OnlyWhenEmpty == IF queue # <<>> \/ Sleepers = {} THEN UNCHANGED worker ELSE WakeOne

\* pthread_cond_signal(&resolver_ready): one sleeper, if there is one.
Signal == IF Sleepers = {} THEN UNCHANGED worker ELSE WakeOne

Enqueue(q) ==
  /\ client[q] = "none" /\ ~live[q]
  /\ live' = [live EXCEPT ![q] = TRUE]
  /\ started' = [started EXCEPT ![q] = FALSE]
  /\ done' = [done EXCEPT ![q] = FALSE]
  /\ references' = [references EXCEPT ![q] = 2]
  /\ queue' = Append(queue, q) /\ queued' = queued + 1
  /\ Signal
  /\ client' = [client EXCEPT ![q] = "holds"]
  /\ expired' = [expired EXCEPT ![q] = FALSE]
  /\ UNCHANGED <<addresses, serving>>

\* core_resolver_start; when the queue is full nothing changes.
Start(q) == queued < QueueLimit /\ Enqueue(q)

-----------------------------------------------------------------------------
(* resolver_worker *)

Sleep(w) ==
  /\ worker[w] \in {"looks", "woken"}
  /\ worker' = [worker EXCEPT ![w] = "sleeps"]
  /\ UNCHANGED <<queue, queued, fields, addresses, client, expired, serving>>

WorkerSleeps(w) == queue = <<>> /\ Sleep(w)

SpuriousWakeup(w) ==
  /\ worker[w] = "sleeps"
  /\ worker' = [worker EXCEPT ![w] = "woken"]
  /\ UNCHANGED <<queue, queued, fields, addresses, client, expired, serving>>

Unlinked == queue' = Tail(queue) /\ queued' = queued - 1

WorkerTakes(w) ==
  /\ worker[w] \in {"looks", "woken"} /\ queue # <<>>
  /\ Unlinked
  /\ started' = [started EXCEPT ![Head(queue)] = TRUE]
  /\ worker' = [worker EXCEPT ![w] = "resolves"]
  /\ serving' = [serving EXCEPT ![w] = Head(queue)]
  /\ UNCHANGED <<live, done, references, addresses, client, expired>>

\* getaddrinfo returned a list or an error.  The signal on query->ready ends
\* the wait of the client; so may the 50 ms limit, at any moment.
WorkerAnswers(w) ==
  LET q == serving[w] IN
  /\ worker[w] = "resolves"
  /\ \E list \in {{}, {"query"}} : addresses' = [addresses EXCEPT ![q] = list]
  /\ done' = [done EXCEPT ![q] = TRUE]
  /\ client' = IF client[q] = "waits" THEN [client EXCEPT ![q] = "looks"] ELSE client
  /\ references' = [references EXCEPT ![q] = @ - 1]
  /\ IF references[q] = 1
     THEN worker' = [worker EXCEPT ![w] = "frees"] /\ UNCHANGED serving
     ELSE worker' = [worker EXCEPT ![w] = "looks"] /\ serving' = [serving EXCEPT ![w] = NoQuery]
  /\ UNCHANGED <<queue, queued, live, started, expired>>

\* resolver_free
Free(q) ==
  /\ live' = [live EXCEPT ![q] = FALSE]
  /\ addresses' = [addresses EXCEPT ![q] = @ \ {"query"}]

WorkerFrees(w) ==
  /\ worker[w] = "frees"
  /\ Free(serving[w])
  /\ worker' = [worker EXCEPT ![w] = "looks"]
  /\ serving' = [serving EXCEPT ![w] = NoQuery]
  /\ UNCHANGED <<queue, queued, started, done, references, client, expired>>

-----------------------------------------------------------------------------
(* The client: core_resolver_result, core_resolver_wait, core_resolver_release *)

Become(q, state) == client' = [client EXCEPT ![q] = state]

Handed(list) == {"client"}

TakeAddresses(q) == addresses' = [addresses EXCEPT ![q] = IF "query" \in @ THEN Handed(@) ELSE @]

Result(q) ==
  /\ client[q] = "holds" /\ done[q]
  /\ TakeAddresses(q)
  /\ UNCHANGED <<queue, queued, fields, client, expired, worker, serving>>

Wait(q) ==
  /\ client[q] = "holds"
  /\ Become(q, "looks")
  /\ UNCHANGED <<queue, queued, fields, addresses, expired, worker, serving>>

TimedOut(q) == expired[q]

\* The deadline is looked at first: an answer that comes with it is left to resolver_free.
WaitLooks(q) ==
  /\ client[q] = "looks"
  /\ Become(q, IF TimedOut(q) \/ done[q] THEN "holds" ELSE "waits")
  /\ IF ~TimedOut(q) /\ done[q] THEN TakeAddresses(q) ELSE UNCHANGED addresses
  /\ UNCHANGED <<queue, queued, fields, expired, worker, serving>>

\* 50 ms passed, or pthread_cond_timedwait failed.
WaitWakes(q, state) ==
  /\ client[q] = "waits"
  /\ Become(q, state)
  /\ UNCHANGED <<queue, queued, fields, addresses, expired, worker, serving>>

Expire(q) ==
  /\ client[q] \in {"looks", "waits"} /\ ~expired[q]
  /\ expired' = [expired EXCEPT ![q] = TRUE]
  /\ UNCHANGED <<queue, queued, fields, addresses, client, worker, serving>>

Drop(q, n) ==
  /\ client[q] = "holds"
  /\ references' = [references EXCEPT ![q] = @ - n]
  /\ Become(q, IF references[q] = n THEN "frees" ELSE "used")
  /\ UNCHANGED <<live, started, done, addresses, expired, worker, serving>>

\* A query nobody started leaves the list, with the reference of its worker.
ReleaseQueued(q, i) ==
  /\ ~started[q] /\ ~done[q] /\ queue[i] = q
  /\ queue' = Without(queue, i) /\ queued' = queued - 1
  /\ Drop(q, 2)

\* Mutant: the client drops the reference of the worker too.
ReleaseStarted_DropsBoth(q) == (started[q] \/ done[q]) /\ Drop(q, references[q]) /\ UNCHANGED <<queue, queued>>

ReleaseStarted(q) == (started[q] \/ done[q]) /\ Drop(q, 1) /\ UNCHANGED <<queue, queued>>

ClientFrees(q) ==
  /\ client[q] = "frees"
  /\ Free(q)
  /\ Become(q, "used")
  /\ UNCHANGED <<queue, queued, started, done, references, expired, worker, serving>>

\* freeaddrinfo by the client, which may come after the release.
Finish(q) ==
  /\ client[q] = "used"
  /\ addresses' = [addresses EXCEPT ![q] = @ \ {"client"}]
  /\ Become(q, "none")
  /\ UNCHANGED <<queue, queued, fields, expired, worker, serving>>

-----------------------------------------------------------------------------
WorkerStep(w) == WorkerSleeps(w) \/ WorkerTakes(w) \/ WorkerAnswers(w) \/ WorkerFrees(w)

WaitStep(q) == WaitLooks(q) \/ WaitWakes(q, "looks")

ClientStep(q) ==
  \/ Result(q) \/ Wait(q) \/ WaitWakes(q, "holds")
  \/ ReleaseStarted(q) \/ ClientFrees(q) \/ Finish(q)

Next ==
  \/ \E w \in Workers : WorkerStep(w) \/ SpuriousWakeup(w)
  \/ \E q \in Queries : WaitStep(q) \/ ClientStep(q) \/ Expire(q)
  \/ \E q \in Queries : Start(q) \/ \E i \in 1..Len(queue) : ReleaseQueued(q, i)

Spec == Init /\ [][Next]_vars

-----------------------------------------------------------------------------
ClientStates == {"none", "holds", "looks", "waits", "frees", "used"}
WorkerStates == {"looks", "sleeps", "woken", "resolves", "frees"}

(* Every variable has its type; no more queries wait than the limit allows. *)
TypeOK ==
  /\ queue \in Seq(Queries) /\ queued \in 0..QueueLimit
  /\ live \in [Queries -> BOOLEAN] /\ started \in [Queries -> BOOLEAN]
  /\ done \in [Queries -> BOOLEAN] /\ expired \in [Queries -> BOOLEAN]
  /\ references \in [Queries -> 0..2]
  /\ addresses \in [Queries -> SUBSET {"query", "client"}]
  /\ client \in [Queries -> ClientStates]
  /\ worker \in [Workers -> WorkerStates]
  /\ serving \in [Workers -> Queries \cup {NoQuery}]

InQueue(q) == In(queue, q)
Held(q) == client[q] \in {"holds", "looks", "waits"}
Resolving(q) == \E w \in Workers : worker[w] = "resolves" /\ serving[w] = q
Freeing(q) == client[q] = "frees" \/ \E w \in Workers : worker[w] = "frees" /\ serving[w] = q
Pending(q) == InQueue(q) \/ Resolving(q)
One(P) == IF P THEN 1 ELSE 0

(* The counter is the length of the list, no query is in it twice, and those *)
(* in it are allocated, unstarted and in no worker's hands.                  *)
QueueExact ==
  /\ queued = Len(queue)
  /\ Distinct(queue)
  /\ \A q \in Queries : InQueue(q) => live[q] /\ ~started[q] /\ ~done[q] /\ ~Resolving(q)

(* The references of a query are the client that holds it and the queue or   *)
(* the worker that will answer it: nobody has one that is not counted.       *)
ReferencesExact ==
  \A q \in Queries : live[q] /\ ~Freeing(q) => references[q] = One(Held(q)) + One(Pending(q))

(* A query that a client, the queue or a worker can still reach is not       *)
(* freed, and one that nobody can reach is freed or about to be, by exactly  *)
(* one thread.                                                               *)
FreedOnce ==
  /\ \A q \in Queries :
        /\ Held(q) \/ Pending(q) => live[q] /\ ~Freeing(q)
        /\ live[q] <=> Held(q) \/ Pending(q) \/ Freeing(q)
        /\ client[q] = "frees" => \A w \in Workers : serving[w] # q
  /\ \A v, w \in Workers : serving[v] = serving[w] => v = w \/ serving[w] = NoQuery

(* The list of addresses has one owner: the client that took it, or the      *)
(* query, which frees it; it is never lost with the query, nor freed twice.  *)
AddressesOwned ==
  \A q \in Queries :
     /\ addresses[q] # {"query", "client"}
     /\ "query" \in addresses[q] => live[q] /\ done[q]
     /\ "client" \in addresses[q] => client[q] # "none"

\* A query and its addresses have one owner at a time between the client that
\* may give up and the worker that may answer late: nothing is used after it
\* was freed, freed twice or leaked.
OwnedOnce == FreedOnce /\ AddressesOwned

(* No worker sleeps through a query: while one sleeps, each query in the     *)
(* list has a worker that was woken or is about to look at the list.         *)
NoIdleWorker == Sleepers # {} => Len(queue) <= Cardinality(Awake)
=============================================================================
