------------------------------ MODULE Deadline ------------------------------
(***************************************************************************)
(* src/deadline.c and core_poll of src/socket_util.c: the deadline of one  *)
(* thread.  It is paused while the client is slow to speak and resumed     *)
(* with what was left; cleanup runs in a scope with a deadline of its own, *)
(* after which the previous one is current again.  Every blocking call of  *)
(* the program waits in core_poll.                                         *)
(*                                                                         *)
(* Level 0 is the deadline attached to the thread, level n that of the     *)
(* n-th nested scope.  The clock is a counter of milliseconds.             *)
(***************************************************************************)
EXTENDS Integers

CONSTANTS Timeouts,   \* arguments of begin, scope_begin and poll, in ms
          MaxDepth,   \* bound: nested scopes
          MaxNow      \* bound: the clock

ASSUME TimeoutsAssumption == Timeouts \subseteq Nat
ASSUME DepthAssumption == MaxDepth \in Nat /\ MaxNow \in Nat

VARIABLES
  now, depth,
  active, until, paused,   \* the fields of the core_deadline_t of each level
  budget, spent,           \* time given to each level, time it was active since
  thread, wakeAt           \* whether the thread is in poll, and until when

deadlineVars == <<now, depth, active, until, paused, budget, spent, thread, wakeAt>>

Levels == 0..MaxDepth
Forever == -1
Larger(m, n) == IF m > n THEN m ELSE n

DeadlineInit ==
  /\ now = 0 /\ depth = 0
  /\ active = [l \in Levels |-> FALSE]
  /\ until = [l \in Levels |-> 0]
  /\ paused = [l \in Levels |-> 0]
  /\ budget = [l \in Levels |-> 0]
  /\ spent = [l \in Levels |-> 0]
  /\ thread = "run" /\ wakeAt = Forever

\* core_deadline_remaining and core_deadline_limit, of an active deadline
Remaining == Larger(until[depth] - now, 0)

Limited(timeout) ==
  IF ~active[depth] THEN timeout
  ELSE IF timeout = Forever \/ timeout > Remaining THEN Remaining ELSE timeout

-----------------------------------------------------------------------------
BeginAt(l, timeout) ==
  /\ until' = [until EXCEPT ![l] = now + Larger(timeout, 1)]
  /\ paused' = [paused EXCEPT ![l] = 0]
  /\ active' = [active EXCEPT ![l] = TRUE]
  /\ budget' = [budget EXCEPT ![l] = Larger(timeout, 1)]
  /\ spent' = [spent EXCEPT ![l] = 0]
  /\ UNCHANGED <<now, thread, wakeAt>>

Begin(timeout) == thread = "run" /\ BeginAt(depth, timeout) /\ UNCHANGED depth

End ==
  /\ thread = "run"
  /\ active' = [active EXCEPT ![depth] = FALSE]
  /\ paused' = [paused EXCEPT ![depth] = 0]
  /\ UNCHANGED <<now, depth, until, budget, spent, thread, wakeAt>>

Pause ==
  /\ thread = "run" /\ active[depth]
  /\ paused' = [paused EXCEPT ![depth] = Remaining + 1]
  /\ active' = [active EXCEPT ![depth] = FALSE]
  /\ UNCHANGED <<now, depth, until, budget, spent, thread, wakeAt>>

ResumedUntil_Rounded == now + paused[depth]   \* Mutant: each pause gives a millisecond back.

ResumedUntil == now + paused[depth] - 1

Resume ==
  /\ thread = "run" /\ paused[depth] # 0
  /\ until' = [until EXCEPT ![depth] = ResumedUntil]
  /\ paused' = [paused EXCEPT ![depth] = 0]
  /\ active' = [active EXCEPT ![depth] = TRUE]
  /\ UNCHANGED <<now, depth, budget, spent, thread, wakeAt>>

ScopeBegin(timeout) ==
  /\ thread = "run" /\ depth < MaxDepth
  /\ depth' = depth + 1
  /\ BeginAt(depth + 1, timeout)

\* The deadline of the scope is gone with it; the previous one ran on.
ScopeEnd ==
  /\ thread = "run" /\ depth > 0
  /\ depth' = depth - 1
  /\ active' = [active EXCEPT ![depth] = FALSE]
  /\ paused' = [paused EXCEPT ![depth] = 0]
  /\ UNCHANGED <<now, until, budget, spent, thread, wakeAt>>

-----------------------------------------------------------------------------
(* core_poll *)

PollFor(timeout) == Limited(timeout)

\* It returns at once when nothing is left.
CorePoll(timeout) ==
  /\ thread = "run" /\ ~(active[depth] /\ Remaining = 0)
  /\ thread' = "poll"
  /\ wakeAt' = IF PollFor(timeout) = Forever THEN Forever ELSE now + PollFor(timeout)
  /\ UNCHANGED <<now, depth, active, until, paused, budget, spent>>

\* EINTR: wait for the rest, once more within the deadline.
Interrupted ==
  LET rest == Limited(IF wakeAt = Forever THEN Forever ELSE wakeAt - now) IN
  /\ thread = "poll" /\ (wakeAt = Forever \/ now < wakeAt)
  /\ wakeAt' = IF rest = Forever THEN Forever ELSE now + rest
  /\ UNCHANGED <<now, depth, active, until, paused, budget, spent, thread>>

\* A descriptor is ready, or the time is over.
PollReturns ==
  /\ thread = "poll"
  /\ thread' = "run" /\ wakeAt' = Forever
  /\ UNCHANGED <<now, depth, active, until, paused, budget, spent>>

\* poll does not sleep longer than it was asked to.
Tick ==
  /\ now < MaxNow
  /\ thread = "poll" /\ wakeAt # Forever => now < wakeAt
  /\ now' = now + 1
  /\ spent' = [l \in Levels |-> IF active[l] THEN spent[l] + 1 ELSE spent[l]]
  /\ UNCHANGED <<depth, active, until, paused, budget, thread, wakeAt>>

DeadlineNext ==
  \/ \E t \in Timeouts : Begin(t) \/ ScopeBegin(t) \/ CorePoll(t)
  \/ End \/ Pause \/ Resume \/ ScopeEnd
  \/ CorePoll(Forever) \/ Interrupted \/ PollReturns \/ Tick

DeadlineSpec == DeadlineInit /\ [][DeadlineNext]_deadlineVars
-----------------------------------------------------------------------------
(* The clock, the levels and their fields have their types. *)
DeadlineTypeOK ==
  /\ now \in Nat /\ depth \in Levels
  /\ active \in [Levels -> BOOLEAN]
  /\ until \in [Levels -> Nat] /\ paused \in [Levels -> Nat]
  /\ budget \in [Levels -> Nat] /\ spent \in [Levels -> Nat]
  /\ thread \in {"run", "poll"} /\ wakeAt \in Nat \cup {Forever}

Unspent(l) == Larger(budget[l] - spent[l], 0)

(* However often a deadline is paused and resumed, and whatever scopes come  *)
(* and go above it, what is left of it is what it was given less the time it *)
(* was active; one that has expired stays expired                            *)
(* ("deadline/resume-not-reset", "deadline/expired-stays-expired" and        *)
(* "deadline/cleanup-does-not-renew-connection" of tests/test_deadline.c).   *)
BudgetConserved ==
  \A l \in Levels :
     /\ active[l] => Larger(until[l] - now, 0) = Unspent(l)
     /\ paused[l] # 0 => paused[l] - 1 = Unspent(l)

(* No thread sleeps in core_poll past the deadline that is current, even     *)
(* when it asked for no limit or signals interrupt it.                       *)
SleepsWithinDeadline ==
  thread = "poll" /\ active[depth] => wakeAt # Forever /\ wakeAt <= until[depth] /\ now <= until[depth]

\* A deadline is kept: pauses and nested scopes give back exactly the time
\* that was left, and no poll outlasts the deadline in force.
DeadlineKept == BudgetConserved /\ SleepsWithinDeadline
=============================================================================
