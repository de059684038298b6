------------------------------- MODULE Dialer -------------------------------
(***************************************************************************)
(* src/dialer.c: one dialer and the caller that loops over it              *)
(* (open_tls_socket and connect_manual_tls of src/tls_transport.c).        *)
(* Addresses come from two DNS queries, a fixed list or a preferred        *)
(* address; at most two connections are attempted at a time.               *)
(* core_dialer_next returns the first to succeed; when its TLS handshake   *)
(* fails the caller asks for the next one.                                 *)
(*                                                                         *)
(* A pass of the loop of core_dialer_next is Look (which reads the clock), *)
(* Collect for each family, and then Attempt, Exhausted or Poll.  DNS      *)
(* answers, connection results and time come in between.  One unit of time *)
(* is DNS_FAMILY_WAIT, 50 ms.                                              *)
(***************************************************************************)
EXTENDS Integers, Sequences, FiniteSets, SequencesExt

CONSTANTS Six, Four,      \* IPv6 and IPv4 addresses
          Answers(_),     \* what getaddrinfo may answer for a family; an error is an empty list
          Fixed,          \* non-empty lists of known addresses (server IPs, numeric host)
          Preferred,      \* cached endpoints that may be given as preferred
          AddressLimit,   \* DIALER_ADDRESS_LIMIT
          FamilyWait,     \* how long an IPv4 address waits for the AAAA answer
          AttemptDelay,   \* how long the first attempt has before a second joins it
          Timeouts,       \* what may be left of the connection deadline
          MaxNow,         \* bound on the clock outside poll
          None

ASSUME AnswersAssumption == \A f \in {4, 6} : Answers(f) \subseteq Seq(IF f = 6 THEN Six ELSE Four)

Families == {4, 6}
Addresses == Six \cup Four
FamilyOf(a) == IF a \in Six THEN 6 ELSE 4
Slots == {0, 1}

VARIABLES
  now, seen,             \* the clock, and core_dialer_next's copy of it
  until, firstReady, nextAttempt,
  answer,                \* answer[f]: what getaddrinfo returned, None while it runs
  resolved,              \* families whose query is collected or could not start
  known,                 \* addresses[0 .. count-1]
  state,                 \* state[a]: "new", "active", "failed" or "won"
  slot,                  \* attempts[0], attempts[1]: the address being connected
  lastFamily, startedTcp, hasPreferred,
  outcome,               \* how the connection to a really ended
  sockets,               \* addresses of the sockets the dialer has open
  pc, wakeAt

clock == <<now, seen>>
dns == <<answer, resolved, known, firstReady>>
fixed == <<until, hasPreferred>>
tries == <<state, slot, outcome, sockets>>
choice == <<lastFamily, startedTcp, nextAttempt>>
vars == <<clock, dns, fixed, tries, choice, pc, wakeAt>>

\* core_dialer_start.  A query that could not be started counts as resolved.
Init ==
  /\ now = 0 /\ seen = 0 /\ until \in Timeouts /\ nextAttempt = 0
  /\ \/ known \in Fixed /\ resolved = Families /\ hasPreferred \in BOOLEAN
     \/ known = <<>> /\ resolved \in SUBSET Families /\ hasPreferred = FALSE
     \/ known \in {<<a>> : a \in Preferred} /\ resolved \in SUBSET Families /\ hasPreferred = TRUE
  /\ firstReady = (IF known = <<>> THEN None ELSE 0)
  /\ answer = [f \in Families |-> None]
  /\ state = [a \in Addresses |-> "new"]
  /\ slot = [s \in Slots |-> None]
  /\ lastFamily = 0 /\ startedTcp = FALSE
  /\ outcome = [a \in Addresses |-> "none"]
  /\ sockets = {}
  /\ pc = "idle" /\ wakeAt = 0

-----------------------------------------------------------------------------
Active == {s \in Slots : slot[s] # None}
New == {i \in 1..Len(known) : state[known[i]] = "new"}
Least(S) == CHOOSE i \in S : \A j \in S : i <= j

\* choose_address; None stands for SIZE_MAX.
Candidate ==
  LET wanted == {i \in New : FamilyOf(known[i]) = (IF lastFamily = 6 THEN 4 ELSE 6)} IN
  IF New = {} THEN None
  ELSE IF hasPreferred /\ 1 \in New THEN known[1]
  ELSE known[Least(IF wanted # {} THEN wanted ELSE New)]

\* The first attempt is not to IPv4 before the AAAA answer had its time.
FamilyWaits ==
  /\ ~hasPreferred /\ ~startedTcp /\ Candidate \in Four
  /\ 6 \notin resolved /\ seen < firstReady + FamilyWait

Paced == Active = {} \/ seen >= nextAttempt

MayAttempt == ~FamilyWaits /\ Candidate # None /\ Cardinality(Active) < 2 /\ Paced

NothingLeft == Active = {} /\ Candidate = None /\ resolved = Families

-----------------------------------------------------------------------------
\* core_dialer_next

Call ==
  /\ pc = "idle" /\ pc' = "loop"
  /\ UNCHANGED <<clock, dns, fixed, tries, choice, wakeAt>>

Expired == now >= until

\* Leaving without a connection closes both attempts.
GiveUp(how) ==
  /\ state' = [a \in Addresses |-> IF \E s \in Slots : slot[s] = a THEN "failed" ELSE state[a]]
  /\ slot' = [s \in Slots |-> None]
  /\ sockets' = sockets \ {slot[s] : s \in Active}
  /\ pc' = how
  /\ UNCHANGED <<outcome, fixed, choice, wakeAt>>

Look ==
  /\ pc = "loop" /\ seen' = now
  /\ \/ ~Expired /\ pc' = "collect6" /\ UNCHANGED <<fixed, tries, choice, wakeAt>>
     \/ Expired /\ GiveUp("failed")
  /\ UNCHANGED <<now, dns>>

\* append_address drops what is already known.
Appended(list, a) == IF a \in ToSet(list) THEN list ELSE Append(list, a)

\* collect_addresses, one family; more than DIALER_ADDRESS_LIMIT addresses is an error.
Collect(f, from, to) ==
  /\ pc = from
  /\ IF f \in resolved \/ answer[f] = None
     THEN /\ pc' = to
          /\ UNCHANGED <<dns, fixed, tries, choice, wakeAt>>
     ELSE LET all == FoldLeft(Appended, known, answer[f]) IN
          /\ resolved' = resolved \cup {f}
          /\ known' = SubSeq(all, 1, IF Len(all) > AddressLimit THEN AddressLimit ELSE Len(all))
          /\ firstReady' = (IF firstReady = None /\ known' # <<>> THEN now ELSE firstReady)
          /\ UNCHANGED answer
          /\ \/ /\ Len(all) <= AddressLimit
                /\ pc' = to
                /\ UNCHANGED <<fixed, tries, choice, wakeAt>>
             \/ Len(all) > AddressLimit /\ GiveUp("failed")
  /\ UNCHANGED clock

-----------------------------------------------------------------------------
\* Mutants: the attempt that lost the race is closed as failed; it is not closed.
Loser_Failed == "failed"
\* select_winner closes the attempt that lost the race, for a later call to retry.
Loser == "new"
Leftover(others) == {}

\* Mutant: the winner's address may be chosen again by the next call.
Winner_Forgotten == "new"

Winner == "won"

\* The connections of failed are closed, then that of won (or None) is returned.
Ended(failed, won) ==
  LET others == {slot[s] : s \in Active} \ (failed \cup {won}) IN
  /\ state' = [a \in Addresses |->
       IF a \in failed THEN "failed" ELSE IF a = won THEN Winner
       ELSE IF won # None /\ a \in others THEN Loser ELSE state[a]]
  /\ outcome' = [a \in Addresses |->
       IF a \in failed THEN "failed" ELSE IF a = won THEN "connected" ELSE outcome[a]]
  /\ slot' = [s \in Slots |-> IF won # None \/ slot[s] \in failed THEN None ELSE slot[s]]
  /\ sockets' = IF won # None THEN Leftover(others) ELSE others
  /\ pc' = IF won # None THEN "idle" ELSE "loop"

\* socket or fcntl fails, connect fails, connect succeeds at once, or goes on.
Attempt ==
  /\ pc = "decide" /\ MayAttempt
  /\ lastFamily' = FamilyOf(Candidate) /\ startedTcp' = TRUE
  /\ \/ Ended({Candidate}, None) /\ nextAttempt' \in {nextAttempt, 0}
     \/ Ended({}, Candidate) /\ UNCHANGED nextAttempt
     \/ /\ state' = [state EXCEPT ![Candidate] = "active"]
        /\ slot' = [slot EXCEPT ![IF slot[0] = None THEN 0 ELSE 1] = Candidate]
        /\ sockets' = sockets \cup {Candidate}
        /\ nextAttempt' = seen + AttemptDelay
        /\ pc' = "loop"
        /\ UNCHANGED outcome
  /\ UNCHANGED <<clock, dns, fixed, wakeAt>>

Exhausted ==
  /\ pc = "decide" /\ ~MayAttempt /\ NothingLeft
  /\ GiveUp("exhausted")
  /\ UNCHANGED <<clock, dns>>

\* How long poll may sleep; the 5 ms between two looks at a query is one unit.
Wait ==
  LET limits == {until - seen}
        \cup (IF resolved # Families THEN {1} ELSE {})
        \cup (IF FamilyWaits THEN {firstReady + FamilyWait - seen} ELSE {})
        \cup (IF Cardinality(Active) < 2 /\ Candidate # None /\ nextAttempt > seen THEN {nextAttempt - seen} ELSE {})
  IN Least(limits)

Poll ==
  /\ pc = "decide" /\ ~MayAttempt /\ ~NothingLeft
  /\ pc' = "poll" /\ wakeAt' = now + Wait
  /\ UNCHANGED <<clock, dns, fixed, tries, choice>>

\* poll reports some sockets; they are looked at in order, up to the first winner.
PollReady ==
  /\ pc = "poll"
  /\ \E bad \in SUBSET Active, won \in Active \cup {None} :
       /\ bad # {} \/ won # None
       /\ won # None => \A s \in bad : s < won
       /\ Ended({slot[s] : s \in bad}, IF won = None THEN None ELSE slot[won])
       /\ nextAttempt' = (IF bad # {} THEN 0 ELSE nextAttempt)
  /\ UNCHANGED <<clock, dns, fixed, lastFamily, startedTcp, wakeAt>>

PollTimesOut ==
  /\ pc = "poll" /\ now >= wakeAt
  /\ pc' = "loop"
  /\ UNCHANGED <<clock, dns, fixed, tries, choice, wakeAt>>

PollFails == pc = "poll" /\ GiveUp("failed") /\ UNCHANGED <<clock, dns>>

-----------------------------------------------------------------------------
\* core_dialer_free: after a handshake succeeded, or after core_dialer_next failed.
Free ==
  /\ pc \in {"failed", "exhausted"} \/ (pc = "idle" /\ \E a \in Addresses : state[a] = "won")
  /\ GiveUp("freed")
  /\ UNCHANGED <<clock, dns>>

\* getaddrinfo returns in a resolver worker.
Answer(f) ==
  /\ answer[f] = None /\ f \notin resolved /\ pc # "freed"
  /\ answer' \in {[answer EXCEPT ![f] = l] : l \in Answers(f)}
  /\ UNCHANGED <<clock, resolved, known, firstReady, fixed, tries, choice, pc, wakeAt>>

\* The bound on the clock does not keep a poll from timing out.
Tick ==
  /\ now < MaxNow \/ (pc = "poll" /\ now < wakeAt)
  /\ pc # "freed"
  /\ now' = now + 1
  /\ UNCHANGED <<seen, dns, fixed, tries, choice, pc, wakeAt>>

Step ==
  \/ Call \/ Look \/ Collect(6, "collect6", "collect4") \/ Collect(4, "collect4", "decide")
  \/ Attempt \/ Exhausted \/ Poll \/ PollReady \/ PollTimesOut \/ PollFails \/ Free

Next == Step \/ Tick \/ \E f \in Families : Answer(f)

Spec == Init /\ [][Next]_vars

\* The thread runs and the clock advances; no DNS answer and no connection need come.
FairSpec ==
  /\ Spec /\ WF_vars(Tick)
  /\ WF_vars(Look) /\ WF_vars(Collect(6, "collect6", "collect4")) /\ WF_vars(Collect(4, "collect4", "decide"))
  /\ WF_vars(Attempt) /\ WF_vars(Exhausted) /\ WF_vars(Poll) /\ WF_vars(PollTimesOut)

-----------------------------------------------------------------------------
(* Every socket core_dialer_next opened and did not return is in one of the *)
(* two attempts, an address is marked active exactly while it is, and none  *)
(* is open while the caller has the control.                                *)
SocketsAccounted ==
  /\ sockets = {slot[s] : s \in Active}
  /\ {a \in Addresses : state[a] = "active"} = sockets
  /\ pc \in {"idle", "failed", "exhausted", "freed"} => sockets = {}

(* When core_dialer_next reports that nothing is left, both families were  *)
(* resolved and every address of both answers was connected or refused:    *)
(* losing a race against the other attempt does not use an address up.     *)
NoneAbandoned ==
  pc = "exhausted" =>
    /\ resolved = Families
    /\ \A f \in Families : answer[f] # None => ToSet(answer[f]) \subseteq ToSet(known)
    /\ \A a \in ToSet(known) : outcome[a] # "none"

(* core_dialer_next sleeps only for something that can happen: an attempt   *)
(* in progress or an unanswered query, and then for one look interval.  In  *)
(* particular the pacing left behind by an earlier call delays nothing.     *)
SleepsForSomething ==
  (pc = "poll" /\ Active = {}) => (resolved # Families /\ wakeAt <= now + 1)

\* Whatever answers, refusals and timeouts race: every open socket is one of a
\* running attempt, none is left when core_dialer_next returns without one, it
\* sleeps only for something that can happen, and the dialer gives up only
\* after every address of every family was tried.
AttemptsAccounted == SocketsAccounted /\ NoneAbandoned /\ SleepsForSomething

(* An address whose handshake was tried, or whose connection failed, is    *)
(* never chosen again, in this call or a later one of the same dialer.     *)
NeverRetried ==
  [][\A a \in Addresses : outcome[a] # "none" => outcome'[a] = outcome[a] /\ a \notin sockets' /\ state'[a] = state[a]]_vars

(* core_dialer_next returns, whatever DNS and the servers do.              *)
NextReturns == (pc = "loop") ~> (pc \in {"idle", "failed", "exhausted", "freed"})

\* core_dialer_next returns, and never with an address it has used up.
DialingEnds == NextReturns /\ NeverRetried
=============================================================================
