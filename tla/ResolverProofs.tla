--------------------------- MODULE ResolverProofs ---------------------------
(***************************************************************************)
(* Proofs about Resolver.  The properties the runs check are inductive     *)
(* together, once it is said which workers have a query (ServingOK).       *)
(***************************************************************************)
EXTENDS Resolver, FiniteSetTheorems, TLAPS

(* Exactly the workers that resolve or free have taken a query, and none has *)
(* one that is not allocated.                                                *)
ServingOK == \A w \in Workers : serving[w] \in Queries <=> worker[w] \in {"resolves", "frees"}

Inv == TypeOK /\ ServingOK /\ QueueExact /\ ReferencesExact /\ FreedOnce /\ AddressesOwned /\ NoIdleWorker

-----------------------------------------------------------------------------
(* Sequences without repetition *)

(* Putting a query that is not in the list at its end (core_resolver_start). *)
LEMMA AppendDistinct ==
  ASSUME NEW S, NEW s \in Seq(S), NEW q \in S, Distinct(s), ~In(s, q)
  PROVE  /\ Append(s, q) \in Seq(S) /\ Len(Append(s, q)) = Len(s) + 1
         /\ Distinct(Append(s, q))
         /\ \A x : In(Append(s, q), x) <=> In(s, x) \/ x = q
<1> DEFINE t == Append(s, q)
<1>1. t \in Seq(S) /\ Len(t) = Len(s) + 1 /\ Len(s) \in Nat
  OBVIOUS
<1>2. /\ \A i \in 1..Len(s) : t[i] = s[i]
      /\ t[Len(s) + 1] = q
  OBVIOUS
<1>3. \A i \in 1..Len(t) : i \in 1..Len(s) \/ i = Len(s) + 1
  BY <1>1
<1>4. Distinct(t)
  BY <1>1, <1>2, <1>3 DEF Distinct, In
<1>5. \A x : In(t, x) <=> In(s, x) \/ x = q
  BY <1>1, <1>2, <1>3 DEF In
<1> QED
  BY <1>1, <1>4, <1>5

(* Taking the first query off the list (resolver_worker). *)
LEMMA TailDistinct ==
  ASSUME NEW S, NEW s \in Seq(S), s # <<>>, Distinct(s)
  PROVE  /\ Tail(s) \in Seq(S) /\ Len(Tail(s)) = Len(s) - 1
         /\ Head(s) \in S /\ In(s, Head(s))
         /\ Distinct(Tail(s))
         /\ \A x : In(Tail(s), x) <=> In(s, x) /\ x # Head(s)
<1> DEFINE t == Tail(s)
<1>1. /\ t \in Seq(S) /\ Len(t) = Len(s) - 1 /\ Len(s) \in Nat \ {0}
      /\ Head(s) = s[1] /\ s[1] \in S
  OBVIOUS
<1>2. \A i \in 1..Len(t) : t[i] = s[i + 1] /\ i + 1 \in 1..Len(s)
  BY <1>1
<1>3. Distinct(t)
  BY <1>1, <1>2 DEF Distinct
<1>4. ASSUME NEW x
      PROVE  In(t, x) <=> In(s, x) /\ x # Head(s)
  <2>1. ASSUME In(t, x) PROVE In(s, x) /\ x # Head(s)
    BY <1>1, <1>2, <2>1 DEF In, Distinct
  <2>2. ASSUME In(s, x), x # Head(s) PROVE In(t, x)
    <3>1. PICK i \in 1..Len(s) : s[i] = x
      BY <2>2 DEF In
    <3>2. i - 1 \in 1..Len(t) /\ t[i - 1] = x
      BY <1>1, <1>2, <2>2, <3>1
    <3> QED
      BY <3>2 DEF In
  <2> QED
    BY <2>1, <2>2
<1>5. In(s, Head(s))
  BY <1>1 DEF In
<1> QED
  BY <1>1, <1>3, <1>4, <1>5

(* Taking any query off the list (core_resolver_release). *)
LEMMA WithoutDistinct ==
  ASSUME NEW S, NEW s \in Seq(S), NEW k \in 1..Len(s), Distinct(s)
  PROVE  /\ Without(s, k) \in Seq(S) /\ Len(Without(s, k)) = Len(s) - 1
         /\ Distinct(Without(s, k))
         /\ \A x : In(Without(s, k), x) <=> In(s, x) /\ x # s[k]
<1> DEFINE t == Without(s, k)
<1>1. Len(s) \in Nat \ {0} /\ \A i \in 1..Len(s) : s[i] \in S
  OBVIOUS
<1>2. t = [j \in 1..(Len(s) - 1) |-> IF j < k THEN s[j] ELSE s[j + 1]]
  BY DEF Without
<1>3. \A j \in 1..(Len(s) - 1) : t[j] = (IF j < k THEN s[j] ELSE s[j + 1]) /\ t[j] \in S
  BY <1>1, <1>2
<1>4. t \in Seq(S) /\ Len(t) = Len(s) - 1
  BY <1>1, <1>2, <1>3
<1>5. \A j \in 1..Len(t) : \E i \in 1..Len(s) : t[j] = s[i] /\ i # k /\ i = (IF j < k THEN j ELSE j + 1)
  BY <1>1, <1>3, <1>4
<1>6. Distinct(t)
  <2>1. ASSUME NEW a \in 1..Len(t), NEW b \in 1..Len(t), t[a] = t[b] PROVE a = b
    <3>1. PICK i \in 1..Len(s) : t[a] = s[i] /\ i = (IF a < k THEN a ELSE a + 1)
      BY <1>5
    <3>2. PICK j \in 1..Len(s) : t[b] = s[j] /\ j = (IF b < k THEN b ELSE b + 1)
      BY <1>5
    <3>3. i = j
      BY Zenon, <2>1, <3>1, <3>2 DEF Distinct
    <3> QED
      BY <3>1, <3>2, <3>3
  <2> QED
    BY <2>1 DEF Distinct
<1>7. ASSUME NEW x
      PROVE  In(t, x) <=> In(s, x) /\ x # s[k]
  <2>1. ASSUME In(t, x) PROVE In(s, x) /\ x # s[k]
    BY <1>5, <2>1 DEF In, Distinct
  <2>2. ASSUME In(s, x), x # s[k] PROVE In(t, x)
    <3>1. PICK i \in 1..Len(s) : s[i] = x /\ i # k
      BY <2>2 DEF In
    <3>2. CASE i < k
      <4>1. i \in 1..Len(t) /\ t[i] = x
        BY <1>1, <1>3, <1>4, <3>1, <3>2
      <4> QED
        BY <4>1 DEF In
    <3>3. CASE i > k
      <4>1. i - 1 \in 1..Len(t) /\ t[i - 1] = x
        BY <1>1, <1>3, <1>4, <3>1, <3>3
      <4> QED
        BY <4>1 DEF In
    <3> QED
      BY <3>1, <3>2, <3>3
  <2> QED
    BY <2>1, <2>2
<1> QED
  BY <1>4, <1>6, <1>7

-----------------------------------------------------------------------------
(* The workers that are awake *)

(* One worker more, or one less, is awake (pthread_cond_signal, a worker that *)
(* takes a query).                                                            *)
LEMMA AwakeCount ==
  ASSUME TypeOK
  PROVE  /\ IsFiniteSet(Awake) /\ Cardinality(Awake) \in Nat
         /\ \A w \in Workers : w \notin Awake => Cardinality(Awake \cup {w}) = Cardinality(Awake) + 1
         /\ \A w \in Awake : Cardinality(Awake \ {w}) = Cardinality(Awake) - 1
<1>1. Awake \subseteq Workers
  BY DEF Awake
<1>2. IsFiniteSet(Awake)
  BY <1>1, WorkersAssumption, FS_Subset
<1> QED
  BY <1>2, FS_CardinalityType, FS_AddElement, FS_RemoveElement

(* A step that puts nothing into the list, after which no other worker sleeps *)
(* and no fewer are awake, lets no worker sleep through a query.              *)
LEMMA MoreAwake ==
  ASSUME TypeOK, TypeOK', NoIdleWorker, Len(queue') <= Len(queue),
         Awake \subseteq Awake', Sleepers' \subseteq Sleepers
  PROVE  NoIdleWorker'
<1>1. IsFiniteSet(Awake')
  <2>1. Awake' \subseteq Workers
    BY DEF Awake
  <2> QED
    BY <2>1, WorkersAssumption, FS_Subset
<1>2. Cardinality(Awake) <= Cardinality(Awake') /\ Cardinality(Awake) \in Nat /\ Cardinality(Awake') \in Nat
  BY <1>1, FS_Subset, FS_CardinalityType
<1>3. Len(queue) \in Nat /\ Len(queue') \in Nat
  BY DEF TypeOK
<1> QED
  BY <1>2, <1>3 DEF NoIdleWorker

-----------------------------------------------------------------------------
(* core_resolver_start keeps the invariant. *)
LEMMA StartKeepsInv ==
  ASSUME Inv, NEW q \in Queries, Start(q)
  PROVE  Inv'
<1> USE NoQueryAssumption, LimitAssumption
<1>1. ~Held(q) /\ ~Pending(q) /\ ~Freeing(q) /\ client[q] = "none" /\ ~live[q]
  BY DEF Inv, FreedOnce, Start, Enqueue
<1>2. /\ queue' \in Seq(Queries) /\ Len(queue') = Len(queue) + 1 /\ Distinct(queue')
      /\ \A x : In(queue', x) <=> In(queue, x) \/ x = q
  BY <1>1, AppendDistinct DEF Inv, TypeOK, QueueExact, Start, Enqueue, Pending, InQueue
<1>3. /\ worker' \in [Workers -> WorkerStates]
      /\ \A w \in Workers : worker'[w] = worker[w] \/ (worker[w] = "sleeps" /\ worker'[w] = "woken")
  BY DEF Inv, TypeOK, Start, Enqueue, Signal, WakeOne, Sleepers, WorkerStates
<1>4. TypeOK'
  BY <1>2, <1>3 DEF Inv, TypeOK, Start, Enqueue, ClientStates, QueueExact
<1>5. /\ \A x \in Queries : Resolving(x)' <=> Resolving(x)
      /\ \A x \in Queries : x # q => (Freeing(x)' <=> Freeing(x)) /\ (Held(x)' <=> Held(x)) /\ (Pending(x)' <=> Pending(x))
      /\ Held(q)' /\ Pending(q)' /\ ~Freeing(q)' /\ ~Resolving(q)
  BY <1>1, <1>2, <1>3 DEF Inv, TypeOK, Start, Enqueue, Resolving, Freeing, Held, Pending, InQueue
<1>6. ServingOK'
  BY <1>3 DEF Inv, ServingOK, Start, Enqueue
<1>7. QueueExact'
  BY <1>2, <1>5 DEF Inv, TypeOK, QueueExact, Start, Enqueue, InQueue
<1>8. ReferencesExact'
  BY <1>5 DEF Inv, TypeOK, ReferencesExact, Start, Enqueue, One
<1>9. FreedOnce'
  BY <1>1, <1>5 DEF Inv, TypeOK, FreedOnce, Start, Enqueue
<1>10. AddressesOwned'
  BY <1>1 DEF Inv, TypeOK, AddressesOwned, Start, Enqueue
<1>11. NoIdleWorker'
  <2>1. CASE Sleepers = {}
    BY <2>1 DEF Start, Enqueue, Signal, NoIdleWorker, Sleepers
  <2>2. CASE Sleepers # {}
    <3>1. PICK w \in Sleepers : worker' = [worker EXCEPT ![w] = "woken"]
      BY <2>2 DEF Start, Enqueue, Signal, WakeOne
    <3>2. Awake' = Awake \cup {w} /\ w \in Workers /\ w \notin Awake
      BY <3>1 DEF Awake, Sleepers, Inv, TypeOK
    <3>3. Cardinality(Awake') = Cardinality(Awake) + 1 /\ Cardinality(Awake) \in Nat
      BY <3>2, AwakeCount DEF Inv
    <3> QED
      BY <1>2, <2>2, <3>3 DEF Inv, TypeOK, NoIdleWorker
  <2> QED
    BY <2>1, <2>2
<1> QED
  BY <1>4, <1>6, <1>7, <1>8, <1>9, <1>10, <1>11 DEF Inv

(* The steps of a worker keep the invariant. *)
LEMMA WorkerSleepsKeepsInv ==
  ASSUME Inv, NEW w \in Workers, WorkerSleeps(w) \/ SpuriousWakeup(w)
  PROVE  Inv'
<1> USE NoQueryAssumption, LimitAssumption
<1>0. UNCHANGED <<queue, queued, fields, addresses, client, expired, serving>>
  BY DEF WorkerSleeps, Sleep, SpuriousWakeup
<1>1. /\ worker' \in [Workers -> WorkerStates]
      /\ \A v \in Workers : worker[v] \in {"resolves", "frees"} \/ worker'[v] \in {"resolves", "frees"} => worker'[v] = worker[v]
  BY DEF Inv, TypeOK, WorkerStates, WorkerSleeps, Sleep, SpuriousWakeup
<1>2. TypeOK'
  BY <1>0, <1>1 DEF Inv, TypeOK, fields
<1>3. \A x \in Queries : (Resolving(x)' <=> Resolving(x)) /\ (Freeing(x)' <=> Freeing(x)) /\ (Held(x)' <=> Held(x)) /\ (Pending(x)' <=> Pending(x))
  BY <1>0, <1>1 DEF Resolving, Freeing, Held, Pending, InQueue
<1>4. ServingOK'
  BY <1>0, <1>1 DEF Inv, ServingOK
<1>5. QueueExact'
  BY <1>0, <1>3 DEF Inv, QueueExact, InQueue, fields
<1>6. ReferencesExact'
  BY <1>0, <1>3 DEF Inv, ReferencesExact, One, fields
<1>7. FreedOnce' /\ AddressesOwned'
  BY <1>0, <1>3 DEF Inv, FreedOnce, AddressesOwned, fields
<1>8. NoIdleWorker'
  <2>1. CASE WorkerSleeps(w)
    <3>1. IsFiniteSet(Awake')
      <4>1. Awake' \subseteq Workers
        BY DEF Awake
      <4> QED
        BY <4>1, WorkersAssumption, FS_Subset
    <3>2. Cardinality(Awake') \in Nat
      BY <3>1, FS_CardinalityType
    <3> QED
      BY <2>1, <3>2 DEF NoIdleWorker, WorkerSleeps, Sleep
  <2>2. CASE SpuriousWakeup(w)
    <3>1. Awake \subseteq Awake' /\ Sleepers' \subseteq Sleepers
      BY <2>2 DEF Inv, TypeOK, SpuriousWakeup, Awake, Sleepers
    <3>2. Len(queue') <= Len(queue)
      BY <1>0 DEF Inv, TypeOK
    <3> QED
      BY <1>2, <3>1, <3>2, MoreAwake DEF Inv
  <2> QED
    BY <2>1, <2>2
<1> QED
  BY <1>2, <1>4, <1>5, <1>6, <1>7, <1>8 DEF Inv

\* resolver_worker takes the first query off the list.
LEMMA WorkerTakesKeepsInv ==
  ASSUME Inv, NEW w \in Workers, WorkerTakes(w)
  PROVE  Inv'
<1> USE NoQueryAssumption, LimitAssumption
<1>0. Head(queue) \in Queries
  BY TailDistinct DEF Inv, TypeOK, QueueExact, WorkerTakes
<1> PICK q \in Queries : q = Head(queue)
  BY <1>0
<1>1. /\ queue' \in Seq(Queries) /\ Len(queue') = Len(queue) - 1 /\ Distinct(queue') /\ q \in Queries
      /\ In(queue, q) /\ \A x : In(queue', x) <=> In(queue, x) /\ x # q
  BY TailDistinct DEF Inv, TypeOK, QueueExact, WorkerTakes, Unlinked
<1>2. /\ live[q] /\ ~started[q] /\ ~done[q] /\ ~Resolving(q) /\ Pending(q) /\ ~Freeing(q)
      /\ \A v \in Workers : serving[v] # q
  BY <1>1 DEF Inv, QueueExact, FreedOnce, InQueue, Pending, Resolving, Freeing, ServingOK
<1>3. Len(queue) \in Nat /\ queued = Len(queue)
  BY DEF Inv, TypeOK, QueueExact
<1>4. TypeOK'
  BY <1>1, <1>3 DEF Inv, TypeOK, WorkerTakes, Unlinked, WorkerStates
<1>5. \A v \in Workers : v # w => worker'[v] = worker[v] /\ serving'[v] = serving[v]
  BY DEF Inv, TypeOK, WorkerTakes
<1>6. worker[w] \in {"looks", "woken"} /\ worker'[w] = "resolves" /\ serving'[w] = q
  BY DEF Inv, TypeOK, WorkerTakes
<1>7. /\ Resolving(q)' /\ \A x \in Queries : x # q => (Resolving(x)' <=> Resolving(x))
      /\ \A x \in Queries : (Freeing(x)' <=> Freeing(x)) /\ (Held(x)' <=> Held(x))
  BY <1>2, <1>5, <1>6 DEF Resolving, Freeing, Held, WorkerTakes
<1>8. \A x \in Queries : Pending(x)' <=> Pending(x)
  BY <1>1, <1>2, <1>7 DEF Pending, InQueue
<1>9. ServingOK'
  BY <1>1, <1>5, <1>6 DEF Inv, ServingOK
<1>10. QueueExact'
  BY SMTT(60), <1>1, <1>3, <1>7 DEF Inv, TypeOK, QueueExact, InQueue, WorkerTakes, Unlinked
<1>11. ReferencesExact'
  BY <1>7, <1>8 DEF Inv, ReferencesExact, One, WorkerTakes
<1>12. FreedOnce'
  <2>1. \A u, v \in Workers : serving'[u] = serving'[v] => u = v \/ serving'[v] = NoQuery
    BY <1>2, <1>5, <1>6 DEF Inv, FreedOnce
  <2>2. \A x \in Queries : client'[x] = "frees" => \A v \in Workers : serving'[v] # x
    BY <1>2, <1>5, <1>6 DEF Inv, FreedOnce, WorkerTakes, Freeing
  <2> QED
    BY <1>7, <1>8, <2>1, <2>2 DEF Inv, FreedOnce, WorkerTakes
<1>13. AddressesOwned'
  BY DEF Inv, AddressesOwned, WorkerTakes
<1>14. NoIdleWorker'
  <2>1. Awake' = Awake \ {w} /\ w \in Awake /\ Sleepers' = Sleepers
    BY <1>5, <1>6 DEF Awake, Sleepers
  <2>2. Cardinality(Awake') = Cardinality(Awake) - 1 /\ Cardinality(Awake) \in Nat
    BY <2>1, AwakeCount DEF Inv
  <2> QED
    BY <1>1, <1>3, <2>1, <2>2 DEF Inv, NoIdleWorker
<1> QED
  BY <1>4, <1>9, <1>10, <1>11, <1>12, <1>13, <1>14 DEF Inv

\* resolver_worker stores the answer and drops its reference.
LEMMA WorkerAnswersKeepsInv ==
  ASSUME Inv, NEW w \in Workers, WorkerAnswers(w)
  PROVE  Inv'
<1> USE NoQueryAssumption, LimitAssumption
<1>0. serving[w] \in Queries
  BY DEF Inv, ServingOK, WorkerAnswers
<1> PICK q \in Queries : q = serving[w]
  BY <1>0
<1>1. q \in Queries /\ worker[w] = "resolves" /\ Resolving(q) /\ live[q] /\ ~Freeing(q) /\ ~In(queue, q)
  BY DEF Inv, ServingOK, WorkerAnswers, Resolving, FreedOnce, Pending, QueueExact, InQueue
<1>2. references[q] = One(Held(q)) + 1 /\ references[q] \in 1..2
  BY <1>1 DEF Inv, ReferencesExact, Pending, One
<1>3. (references[q] = 1 /\ ~Held(q)) \/ (references[q] = 2 /\ Held(q))
  BY <1>2 DEF One
<1>4. \A v \in Workers : v # w => worker'[v] = worker[v] /\ serving'[v] = serving[v] /\ serving[v] # q
  BY <1>1 DEF Inv, TypeOK, WorkerAnswers, FreedOnce
<1>5. \/ references[q] = 1 /\ worker'[w] = "frees" /\ serving'[w] = q
      \/ references[q] = 2 /\ worker'[w] = "looks" /\ serving'[w] = NoQuery
  BY <1>3 DEF Inv, TypeOK, WorkerAnswers
<1>6. TypeOK'
  <2>0. addresses' \in [Queries -> SUBSET {"query", "client"}]
    BY DEF Inv, TypeOK, WorkerAnswers
  <2>1. client' \in [Queries -> ClientStates]
    BY DEF Inv, TypeOK, WorkerAnswers, ClientStates
  <2>2. worker' \in [Workers -> WorkerStates] /\ serving' \in [Workers -> Queries \cup {NoQuery}]
    BY ZenonT(60) DEF Inv, TypeOK, WorkerAnswers, WorkerStates
  <2>3. references' \in [Queries -> 0..2] /\ done' \in [Queries -> BOOLEAN]
    BY <1>1, <1>2 DEF Inv, TypeOK, WorkerAnswers
  <2> QED
    BY <2>0, <2>1, <2>2, <2>3 DEF Inv, TypeOK, WorkerAnswers
<1>7. /\ \A x \in Queries : Held(x)' <=> Held(x)
      /\ \A x \in Queries : (client'[x] = "frees" <=> client[x] = "frees") /\ (client'[x] = "none" <=> client[x] = "none")
  BY DEF Inv, TypeOK, WorkerAnswers, Held
<1>8. /\ \A x \in Queries : x # q => (Resolving(x)' <=> Resolving(x)) /\ (Freeing(x)' <=> Freeing(x))
      /\ ~Resolving(q)'
  BY <1>1, <1>4, <1>5, <1>7 DEF Resolving, Freeing
<1>9. Freeing(q)' <=> references[q] = 1
  BY <1>1, <1>4, <1>5, <1>7 DEF Freeing
<1>10. \A x \in Queries : x # q => (Pending(x)' <=> Pending(x))
  BY <1>8 DEF Pending, InQueue, WorkerAnswers
<1>11. ~Pending(q)'
  BY <1>1, <1>8 DEF Pending, InQueue, WorkerAnswers
<1>12. ServingOK'
  BY <1>1, <1>4, <1>5 DEF Inv, ServingOK
<1>13. QueueExact'
  <2>1. \A x \in Queries : In(queue, x) => x # q
    BY <1>1
  <2> QED
    BY <1>8, <2>1 DEF Inv, TypeOK, QueueExact, InQueue, WorkerAnswers
<1>14. ReferencesExact'
  <2>a. ReferencesExact /\ live' = live
    BY Zenon DEF Inv, WorkerAnswers
  <2>b. references'[q] = references[q] - 1 /\ \A x \in Queries : x # q => references'[x] = references[x]
    BY DEF Inv, TypeOK, WorkerAnswers
  <2>1. CASE references[q] = 2
    BY <1>1, <1>3, <1>7, <1>8, <1>10, <1>11, <2>a, <2>b, <2>1 DEF ReferencesExact, One
  <2>2. CASE references[q] = 1
    BY <1>7, <1>8, <1>9, <1>10, <2>a, <2>b, <2>2 DEF ReferencesExact, One
  <2> QED
    BY <1>2, <2>1, <2>2
<1>15. FreedOnce'
  <2>a. /\ \A u, v \in Workers : serving[u] = serving[v] => u = v \/ serving[v] = NoQuery
        /\ \A x \in Queries : client[x] = "frees" => \A v \in Workers : serving[v] # x
    BY Zenon DEF Inv, FreedOnce
  <2>1. \A u, v \in Workers : serving'[u] = serving'[v] => u = v \/ serving'[v] = NoQuery
    BY <1>4, <1>5, <2>a
  <2>b. client[q] # "frees"
    BY Zenon, <1>1 DEF Freeing
  <2>2. ASSUME NEW x \in Queries, client'[x] = "frees", NEW v \in Workers PROVE serving'[v] # x
    <3>1. client[x] = "frees" /\ x # q /\ serving[v] # x
      BY Zenon, <1>7, <2>2, <2>a, <2>b
    <3>2. CASE v = w
      BY <1>5, <3>1, <3>2
    <3> QED
      BY Zenon, <1>4, <3>1, <3>2
  <2>3. \A x \in Queries : x # q => /\ Held(x)' \/ Pending(x)' => live[x] /\ ~Freeing(x)'
                                    /\ live[x] <=> Held(x)' \/ Pending(x)' \/ Freeing(x)'
    BY Zenon, <1>7, <1>8, <1>10 DEF Inv, FreedOnce
  <2>4. /\ Held(q)' \/ Pending(q)' => live[q] /\ ~Freeing(q)'
        /\ live[q] <=> Held(q)' \/ Pending(q)' \/ Freeing(q)'
    BY <1>1, <1>3, <1>7, <1>9, <1>11
  <2>5. live' = live
    BY Zenon DEF WorkerAnswers
  <2> QED
    BY Zenon, <2>1, <2>2, <2>3, <2>4, <2>5 DEF FreedOnce
<1>16. AddressesOwned'
  BY <1>1, <1>7 DEF Inv, TypeOK, AddressesOwned, WorkerAnswers
<1>17. NoIdleWorker'
  <2>1. Awake \subseteq Awake' /\ Sleepers' \subseteq Sleepers
    BY <1>1, <1>4, <1>5 DEF Awake, Sleepers
  <2>2. Len(queue') <= Len(queue)
    BY DEF Inv, TypeOK, WorkerAnswers
  <2> QED
    BY SMTT(60), <1>6, <2>1, <2>2, MoreAwake DEF Inv
<1> QED
  BY <1>6, <1>12, <1>13, <1>14, <1>15, <1>16, <1>17 DEF Inv

\* resolver_free, when the worker dropped the last reference.
LEMMA WorkerFreesKeepsInv ==
  ASSUME Inv, NEW w \in Workers, WorkerFrees(w)
  PROVE  Inv'
<1> USE NoQueryAssumption, LimitAssumption
<1>0. serving[w] \in Queries
  BY DEF Inv, ServingOK, WorkerFrees
<1> PICK q \in Queries : q = serving[w]
  BY <1>0
<1>1. Freeing(q) /\ live[q] /\ ~Held(q) /\ ~Pending(q) /\ client[q] # "frees"
  BY DEF Inv, WorkerFrees, Freeing, FreedOnce
<1>2. \A v \in Workers : v # w => worker'[v] = worker[v] /\ serving'[v] = serving[v] /\ serving[v] # q
  BY DEF Inv, TypeOK, WorkerFrees, FreedOnce
<1>3. worker[w] = "frees" /\ worker'[w] = "looks" /\ serving'[w] = NoQuery
  BY DEF Inv, TypeOK, WorkerFrees
<1>4. TypeOK'
  BY DEF Inv, TypeOK, WorkerFrees, Free, WorkerStates
<1>5. /\ \A x \in Queries : (Held(x)' <=> Held(x)) /\ (Resolving(x)' <=> Resolving(x)) /\ (Pending(x)' <=> Pending(x))
      /\ \A x \in Queries : x # q => (Freeing(x)' <=> Freeing(x))
      /\ ~Freeing(q)'
  BY <1>1, <1>2, <1>3 DEF Held, Resolving, Pending, InQueue, Freeing, WorkerFrees
<1>6. /\ \A x \in Queries : x # q => live'[x] = live[x] /\ addresses'[x] = addresses[x]
      /\ ~live'[q] /\ addresses'[q] = addresses[q] \ {"query"}
  BY DEF Inv, TypeOK, WorkerFrees, Free
<1>7. ServingOK'
  BY <1>2, <1>3 DEF Inv, ServingOK
<1>a. /\ QueueExact /\ ReferencesExact
      /\ UNCHANGED <<queue, queued, started, done, references, client, expired>>
  BY Zenon DEF Inv, WorkerFrees
<1>b. \A x \in Queries : InQueue(x) => x # q
  BY Zenon, <1>1 DEF Pending
<1>8. QueueExact'
  BY Zenon, <1>a, <1>b, <1>5, <1>6 DEF QueueExact, InQueue
<1>9. ReferencesExact'
  BY Zenon, <1>a, <1>5, <1>6 DEF ReferencesExact, One
<1>10. FreedOnce'
  <2>1. \A u, v \in Workers : serving'[u] = serving'[v] => u = v \/ serving'[v] = NoQuery
    BY <1>2, <1>3 DEF Inv, FreedOnce
  <2>2. \A x \in Queries : client'[x] = "frees" => \A v \in Workers : serving'[v] # x
    BY <1>2, <1>3 DEF Inv, FreedOnce, WorkerFrees
  <2>3. \A x \in Queries : x # q => /\ Held(x)' \/ Pending(x)' => live'[x] /\ ~Freeing(x)'
                                    /\ live'[x] <=> Held(x)' \/ Pending(x)' \/ Freeing(x)'
    BY Zenon, <1>5, <1>6 DEF Inv, FreedOnce
  <2>4. /\ Held(q)' \/ Pending(q)' => live'[q] /\ ~Freeing(q)'
        /\ live'[q] <=> Held(q)' \/ Pending(q)' \/ Freeing(q)'
    BY Zenon, <1>1, <1>5, <1>6
  <2> QED
    BY Zenon, <2>1, <2>2, <2>3, <2>4 DEF FreedOnce
<1>11. AddressesOwned'
  BY <1>6 DEF Inv, AddressesOwned, WorkerFrees
<1>12. NoIdleWorker'
  <2>1. Awake \subseteq Awake' /\ Sleepers' \subseteq Sleepers
    BY <1>2, <1>3 DEF Awake, Sleepers
  <2>2. Len(queue') <= Len(queue)
    BY DEF Inv, TypeOK, WorkerFrees
  <2> QED
    BY <1>4, <2>1, <2>2, MoreAwake DEF Inv
<1> QED
  BY <1>4, <1>7, <1>8, <1>9, <1>10, <1>11, <1>12 DEF Inv

-----------------------------------------------------------------------------
(* A client step that touches neither the queue nor the workers, and neither *)
(* takes nor drops a reference.                                              *)
Reading == {"holds", "looks", "waits"}
Quiet(q) ==
  /\ UNCHANGED <<queue, queued, fields, worker, serving>>
  /\ \A x \in Queries : x # q => client'[x] = client[x] /\ addresses'[x] = addresses[x]
  /\ (client[q] \in Reading /\ client'[q] \in Reading) \/ (client[q] = "used" /\ client'[q] = "none")
  /\ \/ addresses'[q] = addresses[q]
     \/ addresses'[q] = {"client"} /\ client'[q] # "none"
     \/ addresses'[q] = addresses[q] \ {"client"}
  /\ client'[q] = "none" => "client" \notin addresses'[q]

(* Nobody's view of a query changes when the queue, the fields and the       *)
(* workers do not, and its client goes on holding it or not.                 *)
LEMMA ViewsFrame ==
  ASSUME UNCHANGED <<queue, queued, fields, worker, serving>>,
         \A x \in Queries : (Held(x)' <=> Held(x)) /\ (client'[x] = "frees" <=> client[x] = "frees")
  PROVE  \A x \in Queries : (Resolving(x)' <=> Resolving(x)) /\ (Pending(x)' <=> Pending(x)) /\ (Freeing(x)' <=> Freeing(x))
<1>1. \A x \in Queries : (Resolving(x)' <=> Resolving(x)) /\ (Freeing(x)' <=> Freeing(x))
  BY Zenon DEF Resolving, Freeing
<1>2. \A x \in Queries : Pending(x)' <=> Pending(x)
  BY Zenon, <1>1 DEF Pending, InQueue
<1> QED
  BY Zenon, <1>1, <1>2

\* The queue and its list, left alone.
LEMMA QueueFrame ==
  ASSUME ServingOK, QueueExact, UNCHANGED <<queue, queued, fields, worker, serving>>,
         \A x \in Queries : Resolving(x)' <=> Resolving(x)
  PROVE  ServingOK' /\ QueueExact'
<1>1. ServingOK'
  BY Zenon DEF ServingOK
<1>2. QueueExact'
  BY Zenon DEF QueueExact, InQueue, fields
<1> QED
  BY Zenon, <1>1, <1>2

\* The references to every query, left alone.
LEMMA ReferencesFrame ==
  ASSUME ReferencesExact, FreedOnce, UNCHANGED <<queue, queued, fields, worker, serving>>,
         \A x \in Queries : (Held(x)' <=> Held(x)) /\ (client'[x] = "frees" <=> client[x] = "frees")
  PROVE  ReferencesExact' /\ FreedOnce'
<1>1. \A x \in Queries : (Resolving(x)' <=> Resolving(x)) /\ (Pending(x)' <=> Pending(x)) /\ (Freeing(x)' <=> Freeing(x))
  BY Zenon, ViewsFrame
<1>2. live' = live /\ references' = references /\ serving' = serving
  BY Zenon DEF fields
<1>3. ReferencesExact'
  BY <1>1, <1>2 DEF ReferencesExact, One
<1>4. FreedOnce'
  BY <1>1, <1>2 DEF FreedOnce
<1> QED
  BY Zenon, <1>3, <1>4

\* The workers and the queue they wait for, left alone.
LEMMA AwakeFrame == ASSUME NoIdleWorker, UNCHANGED <<queue, worker>> PROVE NoIdleWorker'
  BY Zenon DEF NoIdleWorker, Sleepers, Awake

(* A quiet step keeps the invariant. *)
LEMMA QuietStepKeepsInv ==
  ASSUME Inv, TypeOK', NEW q \in Queries, Quiet(q)
  PROVE  Inv'
<1>1. /\ ServingOK /\ QueueExact /\ ReferencesExact /\ FreedOnce /\ AddressesOwned /\ NoIdleWorker
      /\ UNCHANGED <<queue, queued, fields, worker, serving>>
  BY Zenon DEF Inv, Quiet
<1>2. \A x \in Queries : (Held(x)' <=> Held(x)) /\ (client'[x] = "frees" <=> client[x] = "frees")
  BY DEF Held, Quiet, Reading
<1>3. \A x \in Queries : Resolving(x)' <=> Resolving(x)
  BY Zenon, <1>1, <1>2, ViewsFrame
<1>4. ServingOK' /\ QueueExact'
  BY Zenon, <1>1, <1>3, QueueFrame
<1>5. ReferencesExact' /\ FreedOnce'
  BY Zenon, <1>1, <1>2, ReferencesFrame
<1>6. AddressesOwned'
  <2>1. live' = live /\ done' = done
    BY Zenon, <1>1 DEF fields
  <2> QED
    BY <1>1, <2>1 DEF AddressesOwned, Quiet, Reading
<1>7. NoIdleWorker'
  BY Zenon, <1>1, AwakeFrame
<1> QED
  BY Zenon, <1>4, <1>5, <1>6, <1>7 DEF Inv

(* core_resolver_result, core_resolver_wait and the freeaddrinfo of a client *)
(* keep the invariant.                                                       *)
LEMMA ResultKeepsInv ==
  ASSUME Inv, NEW q \in Queries, Result(q)
  PROVE  Inv'
<1>1. TypeOK'
  BY DEF Inv, TypeOK, Result, TakeAddresses, Handed, fields
<1>2. UNCHANGED <<queue, queued, fields, client, worker, serving>> /\ client[q] = "holds"
  BY Zenon DEF Result
<1>3. /\ \A x \in Queries : x # q => addresses'[x] = addresses[x]
      /\ addresses'[q] = addresses[q] \/ addresses'[q] = {"client"}
  BY DEF Inv, TypeOK, Result, TakeAddresses, Handed
<1>4. Quiet(q)
  BY <1>2, <1>3 DEF Quiet, Reading
<1> QED
  BY Zenon, <1>1, <1>4, QuietStepKeepsInv

\* A caller looks at the query it waits for.
LEMMA WaitLooksKeepsInv ==
  ASSUME Inv, NEW q \in Queries, WaitLooks(q)
  PROVE  Inv'
<1>1. TypeOK'
  BY DEF Inv, TypeOK, WaitLooks, TakeAddresses, Handed, fields, Become, ClientStates
<1>2. UNCHANGED <<queue, queued, fields, worker, serving>> /\ client[q] = "looks"
  BY Zenon DEF WaitLooks
<1>3. (\A x \in Queries : x # q => client'[x] = client[x]) /\ client'[q] \in {"holds", "waits"}
  BY DEF Inv, TypeOK, WaitLooks, Become
<1>4. /\ \A x \in Queries : x # q => addresses'[x] = addresses[x]
      /\ addresses'[q] = addresses[q] \/ addresses'[q] = {"client"}
  <2>1. addresses' = addresses \/ TakeAddresses(q)
    BY Zenon DEF WaitLooks
  <2>2. addresses \in [Queries -> SUBSET {"query", "client"}]
    BY Zenon DEF Inv, TypeOK
  <2> QED
    BY <2>1, <2>2 DEF TakeAddresses, Handed
<1>5. Quiet(q)
  BY <1>2, <1>3, <1>4 DEF Quiet, Reading
<1> QED
  BY Zenon, <1>1, <1>5, QuietStepKeepsInv

\* A caller waits for its query.
LEMMA WaitKeepsInv ==
  ASSUME Inv, NEW q \in Queries, NEW state \in {"looks", "holds"}, client[q] \in {"holds", "waits"}, Become(q, state),
         UNCHANGED <<queue, queued, fields, addresses, expired, worker, serving>>
  PROVE  Inv'
<1>1. TypeOK'
  <2>1. client' \in [Queries -> ClientStates]
    BY DEF Inv, TypeOK, Become, ClientStates
  <2> QED
    BY Zenon, <2>1 DEF Inv, TypeOK, fields
<1>2. (\A x \in Queries : x # q => client'[x] = client[x]) /\ client'[q] \in {"looks", "holds"}
  BY DEF Inv, TypeOK, Become
<1>3. Quiet(q)
  BY <1>2 DEF Quiet, Reading
<1> QED
  BY Zenon, <1>1, <1>3, QuietStepKeepsInv

\* A caller's time is over.
LEMMA ExpireKeepsInv ==
  ASSUME Inv, NEW q \in Queries, Expire(q)
  PROVE  Inv'
<1>1. TypeOK'
  BY DEF Inv, TypeOK, Expire, fields
<1>2. UNCHANGED <<queue, queued, fields, addresses, client, worker, serving>> /\ client[q] \in {"looks", "waits"}
  BY Zenon DEF Expire
<1>3. Quiet(q)
  BY <1>2 DEF Quiet, Reading
<1> QED
  BY Zenon, <1>1, <1>3, QuietStepKeepsInv

\* A caller is done with its query.
LEMMA FinishKeepsInv ==
  ASSUME Inv, NEW q \in Queries, Finish(q)
  PROVE  Inv'
<1>1. TypeOK'
  BY DEF Inv, TypeOK, Finish, Become, ClientStates, fields
<1>2. UNCHANGED <<queue, queued, fields, worker, serving>> /\ client[q] = "used"
  BY Zenon DEF Finish
<1>3. /\ \A x \in Queries : x # q => client'[x] = client[x] /\ addresses'[x] = addresses[x]
      /\ client'[q] = "none" /\ addresses'[q] = addresses[q] \ {"client"}
  BY DEF Inv, TypeOK, Finish, Become
<1>4. Quiet(q)
  BY <1>2, <1>3 DEF Quiet, Reading
<1> QED
  BY Zenon, <1>1, <1>4, QuietStepKeepsInv

\* The steps of a caller that change no query.
LEMMA ReadingKeepsInv ==
  ASSUME Inv, NEW q \in Queries,
         Result(q) \/ Wait(q) \/ WaitLooks(q) \/ WaitWakes(q, "looks") \/ WaitWakes(q, "holds") \/ Expire(q) \/ Finish(q)
  PROVE  Inv'
<1>1. CASE Wait(q)
  BY <1>1, WaitKeepsInv DEF Wait
<1>2. ASSUME NEW state \in {"looks", "holds"}, WaitWakes(q, state) PROVE Inv'
  BY <1>2, WaitKeepsInv DEF WaitWakes
<1> QED
  BY <1>1, <1>2, ResultKeepsInv, WaitLooksKeepsInv, ExpireKeepsInv, FinishKeepsInv

(* core_resolver_release keeps the invariant: of a query still in the list, *)
LEMMA ReleaseQueuedKeepsInv ==
  ASSUME Inv, NEW q \in Queries, NEW i \in 1..Len(queue), ReleaseQueued(q, i)
  PROVE  Inv'
<1> USE NoQueryAssumption, LimitAssumption
<1>a. /\ queue[i] = q /\ queue' = Without(queue, i) /\ queued' = queued - 1 /\ client[q] = "holds"
      /\ references' = [references EXCEPT ![q] = references[q] - 2]
      /\ client' = [client EXCEPT ![q] = IF references[q] = 2 THEN "frees" ELSE "used"]
      /\ UNCHANGED <<live, started, done, addresses, expired, worker, serving>>
  BY Zenon DEF ReleaseQueued, Drop, Become
<1>b. queue \in Seq(Queries) /\ queued = Len(queue) /\ Distinct(queue)
  BY Zenon DEF Inv, TypeOK, QueueExact
<1>1. queue[i] = q /\ client[q] = "holds" /\ In(queue, q)
  BY Zenon, <1>a DEF In
<1>2. /\ queue' \in Seq(Queries) /\ Len(queue') = Len(queue) - 1 /\ Distinct(queue')
      /\ \A x : In(queue', x) <=> In(queue, x) /\ x # q
  BY Zenon, <1>a, <1>b, WithoutDistinct
<1>c. live[q] /\ ~Resolving(q)
  BY Zenon, <1>1 DEF Inv, QueueExact, InQueue
<1>d. Held(q) /\ Pending(q)
  BY <1>1 DEF Held, Pending, InQueue
<1>e. ~Freeing(q)
  BY Zenon, <1>d DEF Inv, FreedOnce
<1>f. references[q] = 2
  BY <1>c, <1>d, <1>e DEF Inv, ReferencesExact, One
<1>3. live[q] /\ ~Resolving(q) /\ Held(q) /\ Pending(q) /\ ~Freeing(q) /\ references[q] = 2
  BY Zenon, <1>c, <1>d, <1>e, <1>f
<1>4. \A w \in Workers : serving[w] # q
  BY <1>3 DEF Inv, ServingOK, Resolving, Freeing
<1>5. /\ client' = [client EXCEPT ![q] = "frees"] /\ references' = [references EXCEPT ![q] = 0]
      /\ UNCHANGED <<live, started, done, addresses, expired, worker, serving>>
      /\ queued' = queued - 1 /\ Len(queue) \in Nat /\ queued = Len(queue)
  BY <1>a, <1>b, <1>f
<1>6. TypeOK'
  BY <1>2, <1>5 DEF Inv, TypeOK, ClientStates
<1>7. /\ \A x \in Queries : x # q => (Held(x)' <=> Held(x)) /\ (Freeing(x)' <=> Freeing(x)) /\ (Pending(x)' <=> Pending(x))
      /\ \A x \in Queries : Resolving(x)' <=> Resolving(x)
      /\ ~Held(q)' /\ Freeing(q)' /\ ~Pending(q)'
  BY <1>2, <1>3, <1>5 DEF Inv, TypeOK, Held, Freeing, Resolving, Pending, InQueue
<1>8. ServingOK' /\ QueueExact'
  BY <1>2, <1>5, <1>7 DEF Inv, TypeOK, ServingOK, QueueExact, InQueue
<1>9. ReferencesExact'
  BY <1>5, <1>7 DEF Inv, TypeOK, ReferencesExact, One
<1>10. FreedOnce'
  BY <1>3, <1>4, <1>5, <1>7 DEF Inv, TypeOK, FreedOnce
<1>11. AddressesOwned'
  BY <1>5 DEF Inv, TypeOK, AddressesOwned
<1>12. NoIdleWorker'
  <2>1. Awake' = Awake /\ Sleepers' = Sleepers
    BY <1>5 DEF Awake, Sleepers
  <2>2. Len(queue') <= Len(queue)
    BY <1>2, <1>5
  <2> QED
    BY <1>6, <2>1, <2>2, MoreAwake DEF Inv
<1> QED
  BY SMTT(60), <1>6, <1>8, <1>9, <1>10, <1>11, <1>12 DEF Inv

(* and of one that a worker has taken or answered. *)
LEMMA ReleaseStartedKeepsInv ==
  ASSUME Inv, NEW q \in Queries, ReleaseStarted(q)
  PROVE  Inv'
<1> USE NoQueryAssumption, LimitAssumption
<1>0. client[q] = "holds" /\ (started[q] \/ done[q])
  BY Zenon DEF ReleaseStarted, Drop
<1>a. Held(q)
  BY <1>0 DEF Held
<1>1. client[q] = "holds" /\ Held(q) /\ live[q] /\ ~In(queue, q) /\ ~Freeing(q)
  BY Zenon, <1>0, <1>a DEF Inv, FreedOnce, QueueExact, InQueue
<1>2. references[q] = 1 + One(Pending(q)) /\ (references[q] = 1 <=> ~Pending(q)) /\ references[q] \in 1..2
  BY SMTT(60), <1>1 DEF Inv, ReferencesExact, One
<1>3. ~Pending(q) => \A w \in Workers : serving[w] # q
  BY <1>1 DEF Inv, ServingOK, Pending, Resolving, Freeing
<1>4. /\ client' = [client EXCEPT ![q] = IF Pending(q) THEN "used" ELSE "frees"]
      /\ references' = [references EXCEPT ![q] = references[q] - 1]
      /\ UNCHANGED <<queue, queued, live, started, done, addresses, expired, worker, serving>>
  BY ZenonT(60), <1>2 DEF Inv, TypeOK, ReleaseStarted, Drop, Become
<1>5. TypeOK'
  BY <1>2, <1>4 DEF Inv, TypeOK, ClientStates
<1>6. /\ \A x \in Queries : x # q => (Held(x)' <=> Held(x)) /\ (Freeing(x)' <=> Freeing(x))
      /\ \A x \in Queries : (Resolving(x)' <=> Resolving(x)) /\ (Pending(x)' <=> Pending(x))
      /\ ~Held(q)'
  BY <1>4 DEF Inv, TypeOK, Held, Freeing, Resolving, Pending, InQueue
<1>7. (Freeing(q)' <=> ~Pending(q)) /\ client'[q] = (IF Pending(q) THEN "used" ELSE "frees")
  BY <1>1, <1>4 DEF Inv, TypeOK, Freeing
<1>8. ServingOK' /\ QueueExact'
  BY <1>4, <1>6 DEF Inv, TypeOK, ServingOK, QueueExact, InQueue
<1>9. ReferencesExact'
  BY <1>2, <1>4, <1>6, <1>7 DEF Inv, TypeOK, ReferencesExact, One
<1>10. FreedOnce'
  <2>1. \A x \in Queries : client'[x] = "frees" => \A w \in Workers : serving'[w] # x
    BY <1>3, <1>4, <1>7 DEF Inv, TypeOK, FreedOnce
  <2> QED
    BY <1>1, <1>4, <1>6, <1>7, <2>1 DEF Inv, TypeOK, FreedOnce
<1>11. AddressesOwned'
  BY <1>1, <1>4, <1>7 DEF Inv, TypeOK, AddressesOwned
<1>12. NoIdleWorker'
  BY <1>4 DEF Inv, NoIdleWorker, Awake, Sleepers
<1> QED
  BY <1>5, <1>8, <1>9, <1>10, <1>11, <1>12 DEF Inv

(* resolver_free by the client keeps the invariant. *)
LEMMA ClientFreesKeepsInv ==
  ASSUME Inv, NEW q \in Queries, ClientFrees(q)
  PROVE  Inv'
<1> USE NoQueryAssumption, LimitAssumption
<1>1. client[q] = "frees" /\ Freeing(q) /\ live[q] /\ ~Held(q) /\ ~Pending(q) /\ \A w \in Workers : serving[w] # q
  BY DEF Inv, ClientFrees, Freeing, FreedOnce
<1>2. /\ client' = [client EXCEPT ![q] = "used"] /\ live' = [live EXCEPT ![q] = FALSE]
      /\ addresses' = [addresses EXCEPT ![q] = addresses[q] \ {"query"}]
      /\ UNCHANGED <<queue, queued, started, done, references, expired, worker, serving>>
  BY DEF ClientFrees, Free, Become
<1>3. TypeOK'
  BY <1>2 DEF Inv, TypeOK, ClientStates
<1>4. /\ \A x \in Queries : x # q => (Freeing(x)' <=> Freeing(x))
      /\ \A x \in Queries : (Held(x)' <=> Held(x)) /\ (Resolving(x)' <=> Resolving(x)) /\ (Pending(x)' <=> Pending(x))
      /\ ~Freeing(q)'
  BY <1>1, <1>2 DEF Inv, TypeOK, Held, Freeing, Resolving, Pending, InQueue
<1>5. ServingOK' /\ QueueExact'
  BY <1>1, <1>2, <1>4 DEF Inv, TypeOK, ServingOK, QueueExact, InQueue, Pending
<1>6. ReferencesExact'
  BY <1>2, <1>4 DEF Inv, TypeOK, ReferencesExact, One
<1>7. FreedOnce'
  BY <1>1, <1>2, <1>4 DEF Inv, TypeOK, FreedOnce
<1>8. AddressesOwned'
  BY <1>1, <1>2 DEF Inv, TypeOK, AddressesOwned
<1>9. NoIdleWorker'
  BY <1>2 DEF Inv, NoIdleWorker, Awake, Sleepers
<1> QED
  BY <1>3, <1>5, <1>6, <1>7, <1>8, <1>9 DEF Inv

-----------------------------------------------------------------------------
(* Nothing is queued or allocated when the process starts. *)
LEMMA InitInv == Init => Inv
<1> SUFFICES ASSUME Init PROVE Inv
  OBVIOUS
<1> USE NoQueryAssumption, LimitAssumption
<1>1. TypeOK
  BY DEF Init, TypeOK, ClientStates, WorkerStates
<1>2. ServingOK /\ QueueExact
  BY DEF Init, ServingOK, QueueExact, Distinct, In, InQueue
<1>3. ReferencesExact /\ FreedOnce /\ AddressesOwned
  BY DEF Init, ReferencesExact, FreedOnce, AddressesOwned, Held, Pending, Resolving, Freeing, InQueue, In
<1>4. NoIdleWorker
  BY DEF Init, NoIdleWorker, Sleepers
<1> QED
  BY <1>1, <1>2, <1>3, <1>4 DEF Inv

\* A step that changes nothing.
LEMMA StutterKeepsInv == ASSUME Inv, UNCHANGED vars PROVE Inv'
<1>1. UNCHANGED <<queue, queued, fields, addresses, client, worker, serving>> /\ expired' = expired
  BY Zenon DEF vars
<1>2. TypeOK'
  BY Zenon, <1>1 DEF Inv, TypeOK, fields
<1>3. \A x \in Queries : (Held(x)' <=> Held(x)) /\ (client'[x] = "frees" <=> client[x] = "frees")
  BY Zenon, <1>1 DEF Held
<1>4. \A x \in Queries : Resolving(x)' <=> Resolving(x)
  BY Zenon, <1>1 DEF Resolving
<1>5. ServingOK' /\ QueueExact' /\ ReferencesExact' /\ FreedOnce' /\ NoIdleWorker'
  BY Zenon, <1>1, <1>3, <1>4, QueueFrame, ReferencesFrame, AwakeFrame DEF Inv
<1>6. AddressesOwned'
  BY Zenon, <1>1 DEF Inv, AddressesOwned, fields
<1> QED
  BY Zenon, <1>2, <1>5, <1>6 DEF Inv

(* The bookkeeping of resolver.c is exact in every state, for any number of  *)
(* clients and workers and any queue limit.                                  *)
THEOREM ResolverSafe == Spec => []Inv
<1>1. Inv /\ [Next]_vars => Inv'
  <2> SUFFICES ASSUME Inv, [Next]_vars PROVE Inv'
    OBVIOUS
  <2>1. ASSUME NEW w \in Workers, WorkerStep(w) \/ SpuriousWakeup(w) PROVE Inv'
    BY <2>1, WorkerSleepsKeepsInv, WorkerTakesKeepsInv, WorkerAnswersKeepsInv, WorkerFreesKeepsInv DEF WorkerStep
  <2>2. ASSUME NEW q \in Queries, WaitStep(q) \/ ClientStep(q) \/ Expire(q) PROVE Inv'
    BY SMTT(60), <2>2, ReadingKeepsInv, ReleaseStartedKeepsInv, ClientFreesKeepsInv
       DEF WaitStep, ClientStep
  <2>4. ASSUME NEW q \in Queries, Start(q) \/ \E i \in 1..Len(queue) : ReleaseQueued(q, i) PROVE Inv'
    BY SMTT(20), <2>4, StartKeepsInv, ReleaseQueuedKeepsInv
  <2>3. CASE UNCHANGED vars
    BY Zenon, <2>3, StutterKeepsInv
  <2> QED
    BY <2>1, <2>2, <2>3, <2>4 DEF Next
<1> QED
  BY <1>1, InitInv, PTL DEF Spec

(* The reference counts are exact (query->references). *)
THEOREM ReferencesCounted == Spec => []ReferencesExact
<1>1. Inv => ReferencesExact
  BY DEF Inv
<1> QED
  BY <1>1, ResolverSafe, PTL

(* No signal of resolver_ready is lost: no worker sleeps through a query. *)
THEOREM WorkersAwake == Spec => []NoIdleWorker
<1>1. Inv => NoIdleWorker
  BY DEF Inv
<1> QED
  BY <1>1, ResolverSafe, PTL

(* Neither a query nor its list of addresses is leaked, freed twice or used    *)
(* after it was freed, whoever of client and worker leaves last.              *)
THEOREM QueriesOwnedOnce == Spec => []OwnedOnce
<1>1. Inv => OwnedOnce
  BY DEF Inv, OwnedOnce
<1> QED
  BY <1>1, ResolverSafe, PTL
=============================================================================
