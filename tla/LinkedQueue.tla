---------------------------- MODULE LinkedQueue ----------------------------
(***************************************************************************)
(* The list of src/resolver.c as it is in memory: resolver_head,           *)
(* resolver_tail and the next pointer of every query.  Resolver works with *)
(* a sequence; here each of its steps that touches the list also moves the *)
(* pointers, as the code does under resolver_lock.  A query that left the  *)
(* list keeps its next pointer until its memory is used for another one.   *)
(***************************************************************************)
EXTENDS Resolver

VARIABLES head, tail, next

list == <<head, tail, next>>
Null == NoQuery
Pointers == Queries \cup {Null}

ListInit == head = Null /\ tail = Null /\ next = [x \in Queries |-> Null]

\* The queries that can be reached from p.
Chain(p) ==
  LET reach[n \in 0..Cardinality(Queries), x \in Pointers] ==
        IF n = 0 \/ x = Null THEN <<>> ELSE <<x>> \o reach[n - 1, next[x]]
  IN  reach[Cardinality(Queries), p]

\* core_resolver_start: the memory of the query comes from calloc.
Push(x) ==
  /\ next' = [y \in Queries |-> IF y = x THEN Null ELSE IF y = tail THEN x ELSE next[y]]
  /\ head' = IF tail = Null THEN x ELSE head
  /\ tail' = x

\* resolver_worker
Pop ==
  /\ head' = next[head]
  /\ tail' = IF next[head] = Null THEN Null ELSE tail
  /\ UNCHANGED next

\* What `previous` holds when the search of core_resolver_release stops at x.
Previous(x) ==
  LET c == Chain(head)
      i == CHOOSE i \in 1..Len(c) : c[i] = x
  IN  IF i = 1 THEN Null ELSE c[i - 1]

NewTail_Kept(x) == tail   \* Mutant: the tail may be left pointing to the query removed.

NewTail(x) == IF tail = x THEN Previous(x) ELSE tail

\* core_resolver_release; a query the search does not find changes nothing.
Remove(x) ==
  IF In(Chain(head), x)
  THEN /\ head' = IF Previous(x) = Null THEN next[x] ELSE head
       /\ next' = IF Previous(x) = Null THEN next ELSE [next EXCEPT ![Previous(x)] = next[x]]
       /\ tail' = NewTail(x)
  ELSE UNCHANGED list

LinkedNext ==
  \/ \E q \in Queries : Start(q) /\ Push(q)
  \/ \E w \in Workers : WorkerTakes(w) /\ Pop
  \/ \E q \in Queries, i \in 1..Len(queue) : ReleaseQueued(q, i) /\ Remove(q)
  \/ /\ UNCHANGED list
     /\ \/ \E w \in Workers : WorkerSleeps(w) \/ WorkerAnswers(w) \/ WorkerFrees(w) \/ SpuriousWakeup(w)
        \/ \E q \in Queries : WaitStep(q) \/ ClientStep(q) \/ Expire(q)

LinkedInit == Init /\ ListInit

LinkedSpec == LinkedInit /\ [][LinkedNext]_<<vars, list>>
-----------------------------------------------------------------------------
(* The pointers are the queue Resolver works with: no query is lost, repeated *)
(* or overtaken, whichever one leaves from the middle, and the tail is where  *)
(* the next one has to be appended (resolver.c:48-51, 107-109, 129-137).      *)
ListIsQueue ==
  /\ Chain(head) = queue
  /\ tail = IF queue = <<>> THEN Null ELSE queue[Len(queue)]
=============================================================================
