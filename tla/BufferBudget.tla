---------------------------- MODULE BufferBudget ----------------------------
(***************************************************************************)
(* src/buffer_budget.c: the process-wide memory budget.  Every buffer of   *)
(* the program is allocated on a budget, every budget charges a counter    *)
(* shared by its direction, and that counter never passes the limit.       *)
(*                                                                         *)
(* A step is one section under buffer_lock or wait_lock, so the windows    *)
(* the code leaves open are steps of their own: between claim and malloc,  *)
(* between realloc and the release of the previous size, and between a     *)
(* release and the notification of those who wait for room.  A budget is   *)
(* used by one thread at a time (its owner, or under the lock of the       *)
(* structure that holds it); different budgets are used concurrently.      *)
(***************************************************************************)
EXTENDS BudgetOps

CONSTANTS Budgets,      \* the budgets of the process
          Blocks,       \* pointers: a block is one allocation on a budget
          Sizes,        \* sizes requested
          Waiters,      \* threads that wait for room (core_buffer_waiter_t)
          Wanted,       \* the room, in bytes, that a waiter waits for
          Upload,       \* the direction a zeroed budget reads as
          Relay,        \* the direction whose releases go to relay_memory.c
          NoBlock

ASSUME SizesAssumption == Sizes \subseteq 1..Limit
ASSUME BudgetsAssumption == IsFiniteSet(Budgets) /\ IsFiniteSet(Blocks)
ASSUME DirectionsAssumption == Relay \in Directions /\ Upload \in Directions
ASSUME WantedAssumption == Wanted \in 1..Limit
ASSUME NoBlockAssumption == NoBlock \notin Blocks

VARIABLES
  budget,     \* the core_buffer_budget_t of each user
  charged,    \* charged[direction]
  allocated,  \* allocated[direction]
  block,      \* what each pointer stands for
  notify,     \* budgets whose user left buffer_lock and has yet to notify
  watching,   \* watching[w]: the directions w is registered for
  woken,      \* woken[w]: a byte is waiting on the socket of w
  pc          \* pc[w]: where the waiting thread is

vars == <<budget, charged, allocated, block, notify, watching, woken, pc>>
waiterVars == <<watching, woken, pc>>

BlockStates == {"none", "claimed", "live", "replaced"}
Block == [state : BlockStates, owner : Budgets, size : 0..Limit,
          old : Blocks \cup {NoBlock}]

NullBudget == [minimum |-> 0, allocated |-> 0, charged |-> 0,
               direction |-> Upload]
NullBlock(b) == [state |-> "none", owner |-> b, size |-> 0, old |-> NoBlock]
LiveBlock(b, size) == [state |-> "live", owner |-> b, size |-> size, old |-> NoBlock]

Init ==
  /\ budget = [b \in Budgets |-> NullBudget]
  /\ charged = [d \in Directions |-> 0]
  /\ allocated = [d \in Directions |-> 0]
  /\ \E b \in Budgets : block = [p \in Blocks |-> NullBlock(b)]
  /\ notify = {}
  /\ watching = [w \in Waiters |-> {}]
  /\ woken = [w \in Waiters |-> FALSE]
  /\ pc = [w \in Waiters |-> "run"]

-----------------------------------------------------------------------------
\* The user of b is in the middle of an operation on it.
Busy(b) ==
  \/ b \in notify
  \/ \E p \in Blocks : block[p].owner = b /\ block[p].state \in {"claimed", "replaced"}

\* Write bgt over the budget of b and carry the difference to the counters.
Store(b, bgt) ==
  /\ budget' = [budget EXCEPT ![b] = bgt]
  /\ charged' = [charged EXCEPT ![bgt.direction] = @ + (bgt.charged - budget[b].charged)]
  /\ allocated' = [allocated EXCEPT ![bgt.direction] = @ + (bgt.allocated - budget[b].allocated)]
  /\ notify' = IF bgt.charged < budget[b].charged THEN notify \cup {b} ELSE notify


Claim(b, p, size, state, old) ==
  /\ block[p].state = "none"
  /\ LET bgt == Claimed(budget[b], size) IN
       /\ Fits(bgt.charged - budget[b].charged, charged[bgt.direction])
       /\ Store(b, bgt)
  /\ block' = [block EXCEPT ![p] = [state |-> state, owner |-> b, size |-> size, old |-> old]]
  /\ UNCHANGED waiterVars

Release(p) ==
  /\ Store(block[p].owner, Released(budget[block[p].owner], block[p].size))
  /\ block' = [block EXCEPT ![p] = NullBlock(block[p].owner)]
  /\ UNCHANGED waiterVars

BudgetInit(b, d, minimum) ==
  /\ ~Busy(b)
  /\ budget[b].charged > 0 \/ budget[b].allocated > 0 => budget[b].direction = d
  /\ LET bgt == Reserved(budget[b], d, minimum) IN
       /\ Fits(Larger(bgt.charged - budget[b].charged, 0), charged[d])
       /\ Store(b, bgt)
  /\ UNCHANGED <<block, waiterVars>>

BudgetClear(b) ==
  /\ budget[b].allocated = 0
  /\ BudgetInit(b, budget[b].direction, 0)

\* core_buffer_alloc: the claim, and then malloc outside the lock.
AllocClaim(b, p, size) == ~Busy(b) /\ Claim(b, p, size, "claimed", NoBlock)

\* core_buffer_hold: a claim without memory; core_buffer_drop is its Free.
Hold(b, p, size) == ~Busy(b) /\ Claim(b, p, size, "live", NoBlock)

\* core_buffer_realloc claims the new size while it still holds the previous one.
ReallocClaim(p, q, size) ==
  /\ block[q].state = "live"
  /\ ~Busy(block[q].owner)
  /\ Claim(block[q].owner, p, size, "claimed", q)

\* malloc or realloc succeeded; a previous block is released next.
MemoryObtained(p) ==
  /\ block[p].state = "claimed"
  /\ LET q == block[p].old IN
       block' = [x \in Blocks |->
                   CASE x = p -> LiveBlock(block[p].owner, block[p].size)
                     [] x = q -> [block[q] EXCEPT !.state = "replaced"]
                     [] OTHER -> block[x]]
  /\ UNCHANGED <<budget, charged, allocated, notify, waiterVars>>

\* Mutant: a failed malloc keeps what it claimed.
MemoryRefused_Leaks(p) ==
  /\ block[p].state = "claimed"
  /\ block' = [block EXCEPT ![p] = NullBlock(block[p].owner)]
  /\ UNCHANGED <<budget, charged, allocated, notify, waiterVars>>

\* malloc or realloc returned NULL: the claim is taken back, the old block stays.
MemoryRefused(p) == block[p].state = "claimed" /\ Release(p)

ReallocRelease(q) ==
  /\ block[q].state = "replaced"
  /\ Release(q)

Free(p) ==
  /\ block[p].state = "live"
  /\ ~Busy(block[p].owner)
  /\ Release(p)

Transfer(p, to) ==
  LET from == block[p].owner
      size == block[p].size
      source == Released(budget[from], size)
      destination == Received(budget[to], size)
      current == budget[from].charged + budget[to].charged
      future == source.charged + destination.charged
      d == budget[from].direction IN
  /\ block[p].state = "live"
  /\ from # to
  /\ ~Busy(from) /\ ~Busy(to)
  /\ budget[to].direction = d
  /\ Fits(Larger(future - current, 0), charged[d])
  /\ budget' = [budget EXCEPT ![from] = source, ![to] = destination]
  /\ charged' = [charged EXCEPT ![d] = @ - current + future]
  /\ notify' = IF future < current THEN notify \cup {from} ELSE notify
  /\ block' = [block EXCEPT ![p] = LiveBlock(to, size)]
  /\ UNCHANGED <<allocated, waiterVars>>

\* notify_released, outside buffer_lock.  RELAY goes to core_relay_memory_released.
NotifyReleased(b) ==
  /\ b \in notify
  /\ notify' = notify \ {b}
  /\ woken' = [w \in Waiters |->
                 woken[w] \/ (budget[b].direction # Relay /\ budget[b].direction \in watching[w])]
  /\ UNCHANGED <<budget, charged, allocated, block, watching, pc>>

-----------------------------------------------------------------------------
(* A thread that needs room (core_http2_write_parts): it looks, drains its  *)
(* socket, registers, looks once more, and only then sleeps in poll.        *)

Room(d) == Limit - charged[d]

\* The first look finds too little room in some direction that has waiters.
LookOnce(w) ==
  /\ pc[w] = "run"
  /\ \E d \in Directions \ {Relay} : Room(d) < Wanted
  /\ pc' = [pc EXCEPT ![w] = "short"]
  /\ UNCHANGED <<budget, charged, allocated, block, notify, watching, woken>>

Watch(w, d) ==
  /\ pc[w] = "short" /\ d # Relay
  /\ woken' = [woken EXCEPT ![w] = FALSE]
  /\ watching' = [watching EXCEPT ![w] = {d}]
  /\ pc' = [pc EXCEPT ![w] = "watch"]
  /\ UNCHANGED <<budget, charged, allocated, block, notify>>

\* Mutant: no second look between registering and sleeping.
LookAgain_Sleeps(w) ==
  /\ pc[w] = "watch"
  /\ pc' = [pc EXCEPT ![w] = "sleep"]
  /\ UNCHANGED <<budget, charged, allocated, block, notify, watching, woken>>

LookAgain(w) ==
  /\ pc[w] = "watch"
  /\ IF \E d \in watching[w] : Room(d) >= Wanted
     THEN watching' = [watching EXCEPT ![w] = {}] /\ pc' = [pc EXCEPT ![w] = "run"]
     ELSE watching' = watching /\ pc' = [pc EXCEPT ![w] = "sleep"]
  /\ UNCHANGED <<budget, charged, allocated, block, notify, woken>>

Wake(w) ==
  /\ pc[w] = "sleep" /\ woken[w]
  /\ watching' = [watching EXCEPT ![w] = {}]
  /\ pc' = [pc EXCEPT ![w] = "run"]
  /\ UNCHANGED <<budget, charged, allocated, block, notify, woken>>

BudgetStep ==
  \/ \E b \in Budgets : BudgetClear(b) \/ NotifyReleased(b)
  \/ \E b \in Budgets, d \in Directions, m \in Sizes \cup {0} : BudgetInit(b, d, m)
  \/ \E b \in Budgets, p \in Blocks, s \in Sizes : AllocClaim(b, p, s) \/ Hold(b, p, s)
  \/ \E p, q \in Blocks, s \in Sizes : ReallocClaim(p, q, s)
  \/ \E p \in Blocks : MemoryObtained(p) \/ MemoryRefused(p) \/ ReallocRelease(p) \/ Free(p)
  \/ \E p \in Blocks, b \in Budgets : Transfer(p, b)

WaiterStep(w) == LookOnce(w) \/ (\E d \in Directions : Watch(w, d)) \/ LookAgain(w) \/ Wake(w)

Next == BudgetStep \/ \E w \in Waiters : WaiterStep(w)

Spec == Init /\ [][Next]_vars
-----------------------------------------------------------------------------
(* The budgets, blocks, counters and waiters keep their types; in particular *)
(* no counter drops below zero (size_t would wrap) or passes the limit.      *)
TypeOK ==
  /\ budget \in [Budgets -> Budget]
  /\ charged \in [Directions -> 0..Limit]
  /\ allocated \in [Directions -> 0..Limit]
  /\ block \in [Blocks -> Block]
  /\ notify \subseteq Budgets
  /\ watching \in [Waiters -> SUBSET Directions]
  /\ woken \in [Waiters -> BOOLEAN]
  /\ pc \in [Waiters -> {"run", "short", "watch", "sleep"}]

ChargedOf(d) == [b \in Budgets |-> IF budget[b].direction = d THEN budget[b].charged ELSE 0]
AllocatedOf(d) == [b \in Budgets |-> IF budget[b].direction = d THEN budget[b].allocated ELSE 0]
BlocksOf(b) == [p \in Blocks |-> IF block[p].owner = b THEN block[p].size ELSE 0]

(* The shared counters are exactly the sums over the budgets of the direction, *)
(* whatever order claims, releases, transfers and re-initialisations come in.  *)
CountersAreSums ==
  \A d \in Directions : charged[d] = SumOf(ChargedOf(d), Limit) /\ allocated[d] = SumOf(AllocatedOf(d), Limit)

(* A budget is charged for its use and never for less than its minimum:       *)
(* every path of buffer_budget.c leaves the charge at the larger of the two.  *)
ChargeIsDue == \A b \in Budgets : budget[b].charged = Due(budget[b].minimum, budget[b].allocated)

(* What a budget counts as allocated is the sizes of the blocks on it, also   *)
(* while realloc holds the previous and the new size at once: nothing leaks   *)
(* when malloc fails and nothing is subtracted twice.                         *)
BlocksAccounted == \A b \in Budgets : budget[b].allocated = SumOf(BlocksOf(b), Limit)

(* The reserve is real: bytes within a budget's minimum are never refused,    *)
(* however full the direction is (core_relay_buffer_trim frees a buffer and   *)
(* counts on getting its minimum back).                                       *)
MinimumGuaranteed ==
  \A b \in Budgets : \A size \in 1..(budget[b].minimum - budget[b].allocated) :
     Fits(Claimed(budget[b], size).charged - budget[b].charged, charged[budget[b].direction])

\* The account of the memory as the callers rely on it: the counters are the
\* sums of the budgets, a budget counts the blocks it has, whatever
\* reallocation fails or is overtaken, and what a budget was promised by
\* core_buffer_prepare it can always get.
MemoryAccounted == CountersAreSums /\ BlocksAccounted /\ MinimumGuaranteed

(* No lost wakeup: a thread asleep in poll while the room it waits for is     *)
(* there has a byte on its socket, or some thread is about to write one.      *)
NoLostWakeup ==
  \A w \in Waiters : pc[w] = "sleep" =>
     \A d \in watching[w] : Room(d) >= Wanted =>
        woken[w] \/ \E b \in notify : budget[b].direction = d
=============================================================================
