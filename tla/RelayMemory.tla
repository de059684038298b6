---------------------------- MODULE RelayMemory ----------------------------
(***************************************************************************)
(* src/relay_memory.c and its users in src/main.c: the buffers of the      *)
(* relays, all on the RELAY direction of the budget.  A relay obtains its  *)
(* minimum buffers in relay_prepare_memory, then grows them on demand in   *)
(* relay_input_room and relay_output_room and gives the growth back.       *)
(* When there is no room it registers, tries once more, and sleeps in poll *)
(* until core_relay_memory_released writes a byte to its socket.           *)
(*                                                                         *)
(* A step is one section under buffer_lock or relay_wait_lock.  Sizes are  *)
(* in units of CORE_RELAY_MINIMUM, the size of the two buffers every relay *)
(* starts with.  The relay loop may ask for room in either direction, give *)
(* credit back and trim in any order: the loop of main.c is one such order.*)
(***************************************************************************)
EXTENDS BudgetOps

CONSTANTS Relays,         \* client threads
          Vision,         \* the relays that transform their data in place
          PrepareCredit,  \* temporary memory asked for before the relay starts
          InputLimit,     \* tls13_write_batch_size
          OutputLimit,    \* CORE_RELAY_OUTPUT_LIMIT
          StashLimit      \* what Vision may keep between two reads

Minimum == 1
Relay == "relay"

ASSUME RelaysAssumption == IsFiniteSet(Relays) /\ Vision \subseteq Relays
ASSUME DirectionAssumption == Directions = {Relay}
ASSUME RoomAssumption == Cardinality(Relays) * (2 * Minimum + PrepareCredit) <= Limit

Kinds == {"upload", "download", "temporary"}
Waits == {"input", "output"}
VARIABLES
  budget,      \* budget[r][kind]
  charged,     \* charged[CORE_BUFFER_RELAY]
  capacity,    \* capacity[r]["input" or "output"] of the two lasting buffers
  length,      \* length[r]: bytes of memory->output not yet sent
  registered, waiting, notified,   \* the fields of core_relay_memory_t
  byte,        \* byte[r]: the notification socket is readable
  owes,        \* relays that left buffer_lock and have yet to notify
  pc, job      \* where the thread is, and the room it is asking for

ledger == <<budget, charged, owes>>
buffers == <<capacity, length>>
waitVars == <<registered, waiting, notified, byte>>
control == <<pc, job>>
vars == <<ledger, buffers, waitVars, control>>

NoBudget == [minimum |-> 0, allocated |-> 0, charged |-> 0, direction |-> Relay]
NoJob == [look |-> 1, side |-> "input", asked |-> 0, size |-> 0, data |-> 0]
BudgetOf == [input |-> "upload", output |-> "download"]

Init ==
  /\ budget = [r \in Relays |-> [k \in Kinds |-> NoBudget]]
  /\ charged = 0 /\ owes = {}
  /\ capacity = [r \in Relays |-> [side \in Waits |-> 0]] /\ length = [r \in Relays |-> 0]
  /\ registered = [r \in Relays |-> FALSE] /\ waiting = [r \in Relays |-> {}]
  /\ notified = [r \in Relays |-> FALSE] /\ byte = [r \in Relays |-> FALSE]
  /\ pc = [r \in Relays |-> "off"]
  /\ job = [r \in Relays |-> NoJob]

-----------------------------------------------------------------------------
Smaller(m, n) == IF m < n THEN m ELSE n

\* core_relay_capacity: the next power of two.
Capacity(needed) == CHOOSE c \in {1, 2, 4, 8, 16} : c >= needed /\ (c = 1 \/ c < 2 * needed)

\* The capacity core_relay_buffer_reserve allocates for `needed`.
BufferLimit(side) == IF side = "input" THEN Larger(InputLimit, Minimum) ELSE OutputLimit
NewCapacity(side, needed) == Smaller(Larger(Capacity(needed), Minimum), BufferLimit(side))

\* vision_wrap_buffer_bound and vision_unpad_buffer_bound, in units.
WrapBound(size) == Capacity(size + 1)
UnpadBound(stash, size) == LET c == Capacity(size + stash) IN 2 * c + c \div 2

\* What Vision keeps on the temporary budget between two reads.
Stash(r) == budget[r].temporary.allocated

\* The temporary memory relay_input_room and relay_output_room ask for.
CreditFor(r, side, size) ==
  IF r \notin Vision THEN 0
  ELSE IF side = "input" THEN WrapBound(size) + Stash(r) ELSE UnpadBound(Stash(r), size)

Needed(r, side, size) == IF side = "input" THEN size ELSE length[r] + size + Stash(r)

Goto(r, label) == pc' = [pc EXCEPT ![r] = label]

\* The call that asked for room is over.
Return(r, label) == Goto(r, label) /\ job' = [job EXCEPT ![r] = NoJob]

\* The thread of r may take its next step: it has nobody left to notify.
At(r, label) == pc[r] = label /\ r \notin owes

\* One section under buffer_lock that writes a budget of r.
Store(r, k, bgt) ==
  /\ budget' = [budget EXCEPT ![r][k] = bgt]
  /\ charged' = charged + (bgt.charged - budget[r][k].charged)
  /\ owes' = IF bgt.charged < budget[r][k].charged THEN owes \cup {r} ELSE owes

Granted(r, k, bgt) == Fits(Larger(bgt.charged - budget[r][k].charged, 0), charged)

-----------------------------------------------------------------------------
(* Notification. *)

\* core_relay_memory_released: every waiter not told yet gets one byte.
MemoryReleased(r) ==
  /\ r \in owes
  /\ owes' = owes \ {r}
  /\ LET told == {q \in Relays : registered[q] /\ waiting[q] # {} /\ ~notified[q]} IN
       /\ byte' = [q \in Relays |-> byte[q] \/ q \in told]
       /\ notified' = [q \in Relays |-> notified[q] \/ q \in told]
  /\ UNCHANGED <<budget, charged, buffers, registered, waiting, control>>

\* Mutant: no second look after registering.
Watch_Late(r, mask, label) ==
  /\ At(r, "watch")
  /\ registered' = [registered EXCEPT ![r] = TRUE]
  /\ waiting' = [waiting EXCEPT ![r] = @ \cup mask]
  /\ job' = [job EXCEPT ![r] = NoJob]
  /\ Goto(r, IF label = "upload" THEN "sleep" ELSE "run")
  /\ UNCHANGED <<ledger, buffers, notified, byte>>

\* core_relay_memory_watch, and the second look that follows it.
Watch(r, mask, label) ==
  /\ At(r, "watch")
  /\ registered' = [registered EXCEPT ![r] = TRUE]
  /\ waiting' = [waiting EXCEPT ![r] = @ \cup mask]
  /\ job' = [job EXCEPT ![r].look = 2, ![r].size = job[r].asked]
  /\ Goto(r, label)
  /\ UNCHANGED <<ledger, buffers, notified, byte>>

Unwatch(r, mask) ==
  /\ waiting' = [waiting EXCEPT ![r] = @ \ mask]
  /\ UNCHANGED <<registered, notified, byte>>

\* core_relay_memory_ack
Ack(r) ==
  /\ waiting' = [waiting EXCEPT ![r] = {}]
  /\ notified' = [notified EXCEPT ![r] = FALSE]
  /\ byte' = [byte EXCEPT ![r] = FALSE]
  /\ UNCHANGED registered

-----------------------------------------------------------------------------
(* relay_prepare_memory: core_relay_memory_init and core_relay_memory_credit, *)
(* one section after the other; a refusal leaves what was obtained so far.    *)

Prepare == <<"upload", "download", "temporary", "input", "output", "credit">>
After(label) == Prepare[1 + CHOOSE i \in 1..5 : Prepare[i] = label]

PrepareMinimum(r, label) ==
  IF label = "temporary" THEN 0
  ELSE IF label = "credit" THEN (IF r \in Vision THEN PrepareCredit ELSE 0)
  ELSE Minimum

Start(r) ==
  /\ At(r, "off")
  /\ Goto(r, "upload")
  /\ job' = [job EXCEPT ![r] = [NoJob EXCEPT !.side = "both"]]
  /\ UNCHANGED <<ledger, buffers, waitVars>>

\* No room: register and look again, or sleep after the second look.
PrepareRefused(r) ==
  /\ Goto(r, IF job[r].look = 1 THEN "watch" ELSE "sleep")
  /\ UNCHANGED <<ledger, buffers, waitVars, job>>

PrepareBudget(r, label) ==
  LET k == IF label = "credit" THEN "temporary" ELSE label
      bgt == Reserved(budget[r][k], Relay, PrepareMinimum(r, label)) IN
  /\ At(r, label)
  /\ \/ /\ Granted(r, k, bgt)
        /\ Store(r, k, bgt)
        /\ IF label = "credit" THEN Return(r, "run") /\ Unwatch(r, Waits)
                              ELSE Goto(r, After(label)) /\ UNCHANGED <<waitVars, job>>
        /\ UNCHANGED buffers
     \/ ~Granted(r, k, bgt) /\ PrepareRefused(r)

\* core_relay_buffer_reserve of a minimum buffer; malloc may fail.
PrepareBuffer(r, side) ==
  LET k == BudgetOf[side]
      bgt == Claimed(budget[r][k], Minimum) IN
  /\ At(r, side)
  /\ \/ /\ capacity[r][side] >= Minimum
        /\ Goto(r, After(side))
        /\ UNCHANGED <<ledger, buffers, waitVars, job>>
     \/ /\ capacity[r][side] < Minimum
        /\ Granted(r, k, bgt)
        /\ Store(r, k, bgt)
        /\ capacity' = [capacity EXCEPT ![r][side] = Minimum]
        /\ Goto(r, After(side))
        /\ UNCHANGED <<length, waitVars, job>>
     \/ /\ capacity[r][side] < Minimum
        /\ Return(r, "clear")
        /\ UNCHANGED <<ledger, buffers, waitVars>>

PrepareWakes(r) ==
  /\ At(r, "sleep") /\ byte[r]
  /\ Ack(r)
  /\ Goto(r, "upload")
  /\ job' = [job EXCEPT ![r].look = 1]
  /\ UNCHANGED <<ledger, buffers>>

-----------------------------------------------------------------------------
(* relay_input_room and relay_output_room. *)

AskForRoom(r, side, size) ==
  /\ At(r, "run") /\ side \notin waiting[r]
  /\ IF side = "input" THEN size <= InputLimit
     ELSE size = Smaller(1, OutputLimit - length[r] - Stash(r)) /\ size > 0
  /\ job' = [job EXCEPT ![r] = [look |-> 1, side |-> side, asked |-> size, size |-> size, data |-> 0]]
  /\ Goto(r, "reserve")
  /\ UNCHANGED <<ledger, buffers, waitVars>>

\* core_relay_buffer_reserve claims the new capacity beside the present one.
Reserve(r) ==
  LET side == job[r].side
      k == BudgetOf[side]
      needed == Needed(r, side, job[r].size)
      bgt == Claimed(budget[r][k], NewCapacity(side, needed)) IN
  /\ At(r, "reserve")
  /\ \/ needed <= capacity[r][side] /\ Goto(r, "room") /\ UNCHANGED ledger
     \/ needed > capacity[r][side] /\ Granted(r, k, bgt) /\ Goto(r, "replace") /\ Store(r, k, bgt)
     \/ needed > capacity[r][side] /\ ~Granted(r, k, bgt) /\ Goto(r, "trim") /\ UNCHANGED ledger
  /\ UNCHANGED <<buffers, waitVars, job>>

\* The second half of core_buffer_realloc.
Replace(r) ==
  LET side == job[r].side
      k == BudgetOf[side] IN
  /\ At(r, "replace")
  /\ Store(r, k, Released(budget[r][k], capacity[r][side]))
  /\ capacity' = [capacity EXCEPT ![r][side] = NewCapacity(side, Needed(r, side, job[r].size))]
  /\ Goto(r, "room")
  /\ UNCHANGED <<length, waitVars, job>>

\* realloc fails: core_buffer_realloc releases its claim and the relay ends.
ReplaceFails(r) ==
  LET side == job[r].side
      k == BudgetOf[side] IN
  /\ At(r, "replace")
  /\ Store(r, k, Released(budget[r][k], NewCapacity(side, Needed(r, side, job[r].size))))
  /\ Return(r, "clear")
  /\ UNCHANGED <<buffers, waitVars>>

RoomCredit(r) ==
  LET bgt == Reserved(budget[r].temporary, Relay, CreditFor(r, job[r].side, job[r].size)) IN
  /\ At(r, "room")
  /\ \/ Granted(r, "temporary", bgt) /\ Store(r, "temporary", bgt) /\ Goto(r, "use")
     \/ ~Granted(r, "temporary", bgt) /\ UNCHANGED ledger /\ Goto(r, "trim")
  /\ UNCHANGED <<buffers, waitVars, job>>

\* core_relay_buffer_trim: free the grown buffer, then take the minimum again.
Trimmable(r, side) == (side = "output" => length[r] = 0) /\ capacity[r][side] > Minimum

TrimClear(r, side, label) ==
  /\ Store(r, BudgetOf[side], Released(budget[r][BudgetOf[side]], capacity[r][side]))
  /\ capacity' = [capacity EXCEPT ![r][side] = 0]
  /\ Goto(r, label)
  /\ UNCHANGED <<length, waitVars>>

Regained(r, side) == Claimed(budget[r][BudgetOf[side]], Minimum)

TrimRegain(r) ==
  LET side == job[r].side IN
  /\ Granted(r, BudgetOf[side], Regained(r, side))
  /\ Store(r, BudgetOf[side], Regained(r, side))
  /\ capacity' = [capacity EXCEPT ![r][side] = Minimum]
  /\ UNCHANGED <<length, waitVars>>

\* The next smaller size; after the smallest, the outcome of this look.
Halve(r) ==
  IF job[r].size > 1
  THEN Goto(r, "reserve") /\ job' = [job EXCEPT ![r].size = @ \div 2]
  ELSE IF job[r].look = 1 THEN Goto(r, "watch") /\ UNCHANGED job
  ELSE Return(r, "run")

TrimRoom(r) ==
  /\ At(r, "trim")
  /\ \/ Trimmable(r, job[r].side) /\ TrimClear(r, job[r].side, "regain") /\ UNCHANGED job
     \/ ~Trimmable(r, job[r].side) /\ Halve(r) /\ UNCHANGED <<ledger, buffers, waitVars>>

RegainRoom(r) == At(r, "regain") /\ TrimRegain(r) /\ Halve(r)

-----------------------------------------------------------------------------
(* The relay uses the room it was granted. *)

\* What a Vision relay allocates on its temporary budget: the wrapped packet, *)
\* or the stash with the new bytes and the plain text.
Transformed(r) ==
  LET size == job[r].size IN
  IF job[r].side = "input" THEN WrapBound(size) ELSE UnpadBound(Stash(r), size) - Stash(r)

UsePlain(r) ==
  /\ At(r, "use") /\ r \notin Vision
  /\ Unwatch(r, {job[r].side})
  /\ \E n \in 0..job[r].size :
       length' = IF job[r].side = "input" THEN length ELSE [length EXCEPT ![r] = @ + n]
  /\ Return(r, "run")
  /\ UNCHANGED <<ledger, capacity>>

UseVision(r) ==
  LET bgt == Claimed(budget[r].temporary, Transformed(r)) IN
  /\ At(r, "use") /\ r \in Vision
  /\ Granted(r, "temporary", bgt)
  /\ Store(r, "temporary", bgt)
  /\ Unwatch(r, {job[r].side})
  /\ job' = [job EXCEPT ![r].data = IF job[r].side = "input" THEN Stash(r) ELSE job[r].size + Stash(r)]
  /\ Goto(r, "transform")
  /\ UNCHANGED buffers

\* The packet was sent, or the plain text moved to the output buffer; the stash stays.
TransformDone(r) ==
  /\ At(r, "transform")
  /\ \E keep, n \in 0..job[r].data :
       /\ IF job[r].side = "input" THEN keep = job[r].data /\ n = 0
          ELSE keep <= StashLimit /\ keep + n <= job[r].data
       /\ length' = [length EXCEPT ![r] = @ + n]
       /\ Store(r, "temporary", Released(budget[r].temporary, Stash(r) - keep))
  /\ Return(r, "run")
  /\ UNCHANGED <<capacity, waitVars>>

\* core_relay_memory_credit(memory, 0) and core_relay_buffer_trim at the top of the loop.
CreditBack(r) ==
  /\ At(r, "run") /\ budget[r].temporary.minimum # 0
  /\ Store(r, "temporary", Reserved(budget[r].temporary, Relay, 0))
  /\ UNCHANGED <<buffers, waitVars, control>>

Trim(r, side) ==
  /\ At(r, "run") /\ Trimmable(r, side)
  /\ TrimClear(r, side, "tidy")
  /\ job' = [job EXCEPT ![r].side = side]

Tidy(r) == At(r, "tidy") /\ TrimRegain(r) /\ Return(r, "run")

\* The client took some of the output.
Drain(r) ==
  /\ At(r, "run") /\ length[r] > 0
  /\ \E n \in 0..(length[r] - 1) : length' = [length EXCEPT ![r] = n]
  /\ Unwatch(r, {"output"})
  /\ UNCHANGED <<ledger, capacity, control>>

\* The client closed its side, or the server wants no more: no input is read.
StopInput(r) ==
  /\ At(r, "run") /\ "input" \in waiting[r]
  /\ Unwatch(r, {"input"})
  /\ UNCHANGED <<ledger, buffers, control>>

\* Nothing is ready.  The top of the loop has given back what can be given back.
Poll(r) ==
  /\ At(r, "run")
  /\ budget[r].temporary.minimum = 0 /\ \A side \in Waits : ~Trimmable(r, side)
  /\ Goto(r, "poll")
  /\ UNCHANGED <<ledger, buffers, waitVars, job>>

PollNotified(r) ==
  /\ At(r, "poll") /\ registered[r] /\ waiting[r] # {} /\ byte[r]
  /\ Ack(r)
  /\ Goto(r, "run")
  /\ UNCHANGED <<ledger, buffers, job>>

PollReady(r) ==
  /\ At(r, "poll")
  /\ Goto(r, "run")
  /\ UNCHANGED <<ledger, buffers, waitVars, job>>

\* The connection ends, or could not register (socketpair failed); while it
\* waits for its first buffers also because its deadline passed.
EndRelay(r) ==
  /\ At(r, "run") \/ At(r, "sleep") \/ (At(r, "watch") /\ ~registered[r])
  /\ Return(r, "clear")
  /\ UNCHANGED <<ledger, buffers, waitVars>>

-----------------------------------------------------------------------------
(* core_relay_memory_clear *)

Unregister(r) ==
  /\ At(r, "clear")
  /\ registered' = [registered EXCEPT ![r] = FALSE]
  /\ byte' = [byte EXCEPT ![r] = FALSE]
  /\ Goto(r, "free input")
  /\ UNCHANGED <<ledger, buffers, waiting, notified, job>>

FreeBuffer(r, side, label, next) ==
  /\ At(r, label)
  /\ Store(r, BudgetOf[side], Released(budget[r][BudgetOf[side]], capacity[r][side]))
  /\ capacity' = [capacity EXCEPT ![r][side] = 0]
  /\ length' = IF side = "output" THEN [length EXCEPT ![r] = 0] ELSE length
  /\ Goto(r, next)
  /\ UNCHANGED <<waitVars, job>>


FreeTemporary(r) ==
  /\ At(r, "free temporary")
  /\ Store(r, "temporary", Released(budget[r].temporary, Stash(r)))
  /\ Goto(r, "clear upload")
  /\ UNCHANGED <<buffers, waitVars, job>>

\* core_buffer_budget_clear refuses a budget that still holds memory.
ClearBudget(r, k, label, next) ==
  /\ At(r, label)
  /\ IF budget[r][k].allocated = 0 THEN Store(r, k, Reserved(budget[r][k], Relay, 0)) ELSE UNCHANGED ledger
  /\ Goto(r, next)
  /\ UNCHANGED <<buffers, waitVars, job>>

\* memset: the record is as before its first use.
Forget(r) ==
  /\ At(r, "forget")
  /\ waiting' = [waiting EXCEPT ![r] = {}]
  /\ notified' = [notified EXCEPT ![r] = FALSE]
  /\ Return(r, "off")
  /\ UNCHANGED <<ledger, buffers, registered, byte>>

-----------------------------------------------------------------------------
PrepareStep(r) ==
  \/ \E label \in {"upload", "download", "temporary", "credit"} : PrepareBudget(r, label)
  \/ \E side \in Waits : PrepareBuffer(r, side)
  \/ job[r].side = "both" /\ Watch(r, Waits, "upload")
  \/ PrepareWakes(r)

RoomStep(r) ==
  \/ Reserve(r) \/ Replace(r) \/ ReplaceFails(r) \/ RoomCredit(r) \/ TrimRoom(r) \/ RegainRoom(r)
  \/ job[r].side # "both" /\ Watch(r, {job[r].side}, "reserve")
  \/ UsePlain(r) \/ UseVision(r) \/ TransformDone(r)

LoopStep(r) ==
  \/ CreditBack(r) \/ Tidy(r) \/ \E side \in Waits : Trim(r, side)
  \/ Poll(r) \/ PollNotified(r)

ClearStep(r) ==
  \/ Unregister(r)
  \/ FreeBuffer(r, "input", "free input", "free output")
  \/ FreeBuffer(r, "output", "free output", "free temporary")
  \/ FreeTemporary(r)
  \/ ClearBudget(r, "upload", "clear upload", "clear download")
  \/ ClearBudget(r, "download", "clear download", "clear temporary")
  \/ ClearBudget(r, "temporary", "clear temporary", "forget")
  \/ Forget(r)

\* What the thread of r does by itself, and what its peers make it do.
ThreadStep(r) == PrepareStep(r) \/ RoomStep(r) \/ LoopStep(r) \/ ClearStep(r) \/ MemoryReleased(r)

PeerStep(r) ==
  \/ Start(r) \/ Drain(r) \/ StopInput(r) \/ PollReady(r) \/ EndRelay(r)
  \/ \E side \in Waits, size \in 1..InputLimit : AskForRoom(r, side, size)

Next == \E r \in Relays : ThreadStep(r) \/ PeerStep(r)

Spec == Init /\ [][Next]_vars

-----------------------------------------------------------------------------
(* A relay that is gone holds nothing, however far its preparation came and  *)
(* wherever its loop was left (core_relay_memory_clear; the check            *)
(* "all-capacity-and-credit-released" of tests/test_relay_memory.c).         *)
OffHoldsNothing ==
  \A r \in Relays : pc[r] = "off" =>
     /\ budget[r] = [k \in Kinds |-> NoBudget]
     /\ ~registered[r] /\ ~notified[r] /\ waiting[r] = {}

(* core_relay_buffer_trim gives a buffer back before it asks for the minimum *)
(* again, and relay loops break when that fails: it never fails for room.    *)
RegainNeverRefused ==
  \A r \in Relays : pc[r] \in {"regain", "tidy"} =>
     Granted(r, BudgetOf[job[r].side], Regained(r, job[r].side))

(* What was granted before a read is enough after it: the credit covers what *)
(* Vision allocates while it transforms the bytes read, the stash of earlier *)
(* reads included, and the bytes to send to the client fit the output buffer *)
(* that relay_output_room sized.                                             *)
RoomSuffices ==
  /\ \A r \in Vision : pc[r] = "use" =>
        budget[r].temporary.allocated + Transformed(r) <= budget[r].temporary.minimum
  /\ \A r \in Relays : length[r] > 0 => length[r] <= capacity[r].output


-----------------------------------------------------------------------------
\* Whether relay_prepare_memory would now go through.
PrepareFits(r) ==
  LET missing(k, m) == Larger(m - budget[r][k].charged, 0) IN
  Fits(missing("upload", Minimum) + missing("download", Minimum)
         + missing("temporary", PrepareMinimum(r, "credit")), charged)

\* Whether one pass of relay_input_room or relay_output_room would now go through.
RoomFits(r, side, size) ==
  LET k == BudgetOf[side]
      needed == Needed(r, side, size)
      grows == needed > capacity[r][side]
      peak == IF grows THEN Claimed(budget[r][k], NewCapacity(side, needed)) ELSE budget[r][k]
      grown == IF grows THEN Released(peak, capacity[r][side]) ELSE peak
      credit == Reserved(budget[r].temporary, Relay, CreditFor(r, side, size)) IN
  /\ Fits(peak.charged - budget[r][k].charged, charged)
  /\ Fits(Larger(credit.charged - budget[r].temporary.charged, 0),
          charged + (grown.charged - budget[r][k].charged))

(* No lost wakeup: a relay asleep in poll although the memory it registered  *)
(* for is there has a byte on its socket, or some thread that released       *)
(* memory is about to write one.  A waiter told once is not told again until *)
(* it has emptied its socket, so the byte that suppresses the next one must  *)
(* still be there.                                                           *)
NoLostWakeup ==
  /\ \A r \in Relays :
        \/ pc[r] = "sleep" /\ PrepareFits(r)
        \/ pc[r] = "poll" /\ \E side \in waiting[r] : RoomFits(r, side, 1)
        => byte[r] \/ owes # {}
  /\ \A r \in Relays : registered[r] /\ notified[r] => byte[r]

=============================================================================
