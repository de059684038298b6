------------------------- MODULE BufferBudgetProofs -------------------------
(***************************************************************************)
(* The safety of the memory budget, for any number of budgets, blocks and  *)
(* waiters, any limit and any sizes.                                       *)
(***************************************************************************)
EXTENDS BufferBudget, FiniteSetTheorems, TLAPS

-----------------------------------------------------------------------------
(* Sums. *)

(* The chart of a function on a finite set is finite, so its sum is a number. *)
LEMMA SumType ==
  ASSUME NEW S, IsFiniteSet(S), NEW N \in Nat, NEW f \in [S -> 0..N]
  PROVE  IsFiniteSet(Cells(f, N)) /\ SumOf(f, N) \in Nat
<1>1. IsFiniteSet(1..N)
  BY FS_Interval
<1>2. IsFiniteSet(S \X (1..N))
  BY <1>1, FS_Product
<1>3. Cells(f, N) \in SUBSET (S \X (1..N))
  BY DEF Cells
<1>4. IsFiniteSet(Cells(f, N))
  BY <1>2, <1>3, FS_Subset
<1> QED
  BY <1>4, FS_CardinalityType DEF SumOf

(* Column x of a chart has as many cells as the value at x. *)
LEMMA ColumnCount ==
  ASSUME NEW x, NEW n \in Nat
  PROVE  IsFiniteSet({x} \X (1..n)) /\ Cardinality({x} \X (1..n)) = n
<1>1. IsFiniteSet({x}) /\ Cardinality({x}) = 1
  BY FS_Singleton
<1>2. IsFiniteSet(1..n) /\ Cardinality(1..n) = n
  BY FS_Interval
<1>3. Cardinality({x} \X (1..n)) = Cardinality({x}) * Cardinality(1..n)
  BY Zenon, <1>1, <1>2, FS_Product
<1>4. IsFiniteSet({x} \X (1..n))
  BY SMTT(60), <1>1, <1>2, FS_Product
<1> QED
  BY <1>1, <1>2, <1>3, <1>4

(* The sum of the constant zero is zero. *)
LEMMA SumZero ==
  ASSUME NEW S, NEW N \in Nat
  PROVE  SumOf([x \in S |-> 0], N) = 0
<1>1. Cells([x \in S |-> 0], N) = {}
  BY DEF Cells
<1> QED
  BY <1>1, FS_EmptySet DEF SumOf

(* The chart without column x. *)
Rest(f, N, x) == {c \in Cells(f, N) : c[1] # x}

(* A chart is one column and the rest of the chart. *)
LEMMA SumSplit ==
  ASSUME NEW S, IsFiniteSet(S), NEW N \in Nat, NEW f \in [S -> 0..N], NEW x \in S
  PROVE  /\ Cardinality(Rest(f, N, x)) \in Nat
         /\ SumOf(f, N) = Cardinality(Rest(f, N, x)) + f[x]
<1> DEFINE R == Rest(f, N, x)
           C == {x} \X (1..f[x])
<1>1. f[x] \in Nat /\ f[x] <= N
  OBVIOUS
<1>2. Cells(f, N) = R \cup C
  BY <1>1 DEF Cells, Rest
<1>3. R \cap C = {}
  BY DEF Rest
<1>4. R \in SUBSET Cells(f, N)
  BY DEF Rest
<1>5. IsFiniteSet(R) /\ Cardinality(R) \in Nat
  BY <1>4, SumType, FS_Subset, FS_CardinalityType
<1>6. IsFiniteSet(C) /\ Cardinality(C) = f[x]
  BY Zenon, <1>1, ColumnCount
<1> HIDE DEF R, C
<1>7. Cardinality(R \cup C) = Cardinality(R) + Cardinality(C) - Cardinality(R \cap C)
  BY <1>5, <1>6, FS_Union
<1>8. Cardinality(R \cap C) = 0
  BY <1>3, FS_EmptySet
<1>9. SumOf(f, N) = Cardinality(R) + f[x]
  BY <1>1, <1>2, <1>5, <1>6, <1>7, <1>8 DEF SumOf
<1> QED
  BY <1>5, <1>9 DEF R

(* Changing one value changes the sum by the difference. *)
LEMMA SumUpdate ==
  ASSUME NEW S, IsFiniteSet(S), NEW N \in Nat,
         NEW f \in [S -> 0..N], NEW g \in [S -> 0..N], NEW x \in S,
         \A y \in S \ {x} : g[y] = f[y]
  PROVE  SumOf(g, N) = SumOf(f, N) - f[x] + g[x]
<1>1. Rest(f, N, x) = Rest(g, N, x)
  BY DEF Rest, Cells
<1>2. Cardinality(Rest(f, N, x)) \in Nat /\ SumOf(f, N) = Cardinality(Rest(f, N, x)) + f[x]
  BY SumSplit
<1>3. SumOf(g, N) = Cardinality(Rest(g, N, x)) + g[x]
  BY SumSplit
<1>4. f[x] \in Nat /\ g[x] \in Nat
  OBVIOUS
<1> QED
  BY <1>1, <1>2, <1>3, <1>4

(* No value exceeds the sum. *)
LEMMA SumBound ==
  ASSUME NEW S, IsFiniteSet(S), NEW N \in Nat, NEW f \in [S -> 0..N], NEW x \in S
  PROVE  f[x] <= SumOf(f, N)
<1>1. Cardinality(Rest(f, N, x)) \in Nat /\ SumOf(f, N) = Cardinality(Rest(f, N, x)) + f[x]
  BY SumSplit
<1>2. f[x] \in Nat
  OBVIOUS
<1> QED
  BY <1>1, <1>2

(* Pointwise smaller values have a smaller sum. *)
LEMMA SumMonotone ==
  ASSUME NEW S, IsFiniteSet(S), NEW N \in Nat, NEW f \in [S -> 0..N], NEW g \in [S -> 0..N],
         \A x \in S : f[x] <= g[x]
  PROVE  SumOf(f, N) <= SumOf(g, N)
<1>1. Cells(f, N) \in SUBSET Cells(g, N)
  BY DEF Cells
<1>2. IsFiniteSet(Cells(g, N))
  BY SumType
<1> QED
  BY <1>1, <1>2, FS_Subset DEF SumOf

(* Changing two values changes the sum by the two differences. *)
LEMMA SumUpdateTwo ==
  ASSUME NEW S, IsFiniteSet(S), NEW N \in Nat,
         NEW f \in [S -> 0..N], NEW g \in [S -> 0..N], NEW x \in S, NEW y \in S \ {x},
         \A z \in S \ {x, y} : g[z] = f[z]
  PROVE  SumOf(g, N) = SumOf(f, N) - f[x] - f[y] + g[x] + g[y]
<1> DEFINE h == [f EXCEPT ![x] = g[x]]
<1>1. h \in [S -> 0..N] /\ h[x] = g[x] /\ h[y] = f[y]
  OBVIOUS
<1>2. (\A z \in S \ {x} : h[z] = f[z]) /\ (\A z \in S \ {y} : g[z] = h[z])
  OBVIOUS
<1> HIDE DEF h
<1>3. SumOf(h, N) = SumOf(f, N) - f[x] + h[x]
  BY <1>1, <1>2, SumUpdate
<1>4. SumOf(g, N) = SumOf(h, N) - h[y] + g[y]
  BY <1>1, <1>2, SumUpdate
<1>5. SumOf(f, N) \in Nat /\ f[x] \in Nat /\ f[y] \in Nat /\ g[x] \in Nat /\ g[y] \in Nat
  BY SumType
<1> QED
  BY <1>1, <1>3, <1>4, <1>5

(* Two values together do not exceed the sum. *)
LEMMA SumBoundTwo ==
  ASSUME NEW S, IsFiniteSet(S), NEW N \in Nat, NEW f \in [S -> 0..N],
         NEW x \in S, NEW y \in S \ {x}
  PROVE  f[x] + f[y] <= SumOf(f, N)
<1> DEFINE h == [f EXCEPT ![x] = 0]
<1>1. h \in [S -> 0..N] /\ h[x] = 0 /\ h[y] = f[y]
  OBVIOUS
<1>2. \A z \in S \ {x} : h[z] = f[z]
  OBVIOUS
<1> HIDE DEF h
<1>3. SumOf(h, N) = SumOf(f, N) - f[x] + h[x]
  BY <1>1, <1>2, SumUpdate
<1>4. h[y] <= SumOf(h, N)
  BY <1>1, SumBound
<1>5. SumOf(f, N) \in Nat /\ f[x] \in Nat /\ f[y] \in Nat
  BY SumType
<1> QED
  BY <1>1, <1>3, <1>4, <1>5

-----------------------------------------------------------------------------
(* The budget. *)

(* An unused pointer has no size, and nobody waits for the RELAY direction here. *)
FreeIsEmpty == \A p \in Blocks : block[p].state = "none" => block[p].size = 0
NoRelayWaiter == \A w \in Waiters : Relay \notin watching[w]

(* The inductive invariant. *)
Inv == /\ TypeOK
       /\ CountersAreSums
       /\ ChargeIsDue
       /\ BlocksAccounted
       /\ FreeIsEmpty
       /\ NoRelayWaiter
       /\ NoLostWakeup

-----------------------------------------------------------------------------
WideBudget == [minimum : 0..Limit, allocated : Nat, charged : Nat, direction : Directions]

(* The arithmetic of claim keeps a budget charged for the larger of its use *)
(* and its minimum.                                                         *)
LEMMA ClaimedIsDue ==
  ASSUME NEW bgt \in Budget, NEW size \in Nat, bgt.charged = Due(bgt.minimum, bgt.allocated)
  PROVE  /\ Claimed(bgt, size) \in WideBudget
         /\ Claimed(bgt, size).minimum = bgt.minimum
         /\ Claimed(bgt, size).direction = bgt.direction
         /\ Claimed(bgt, size).allocated = bgt.allocated + size
         /\ Claimed(bgt, size).charged = Due(Claimed(bgt, size).minimum, Claimed(bgt, size).allocated)
<1> USE LimitAssumption
<1>1. bgt.minimum \in 0..Limit /\ bgt.allocated \in 0..Limit /\ bgt.charged \in 0..Limit
      /\ bgt.direction \in Directions
  BY DEF Budget
<1>2. Larger(bgt.charged, bgt.allocated + size) = Due(bgt.minimum, bgt.allocated + size)
      /\ Due(bgt.minimum, bgt.allocated + size) \in Nat
  BY <1>1 DEF Due, Larger
<1> QED
  BY <1>1, <1>2 DEF WideBudget, Claimed

(* The same of release, whose charge never grows. *)
LEMMA ReleasedIsDue ==
  ASSUME NEW bgt \in Budget, NEW size \in Nat, bgt.charged = Due(bgt.minimum, bgt.allocated),
         size <= bgt.allocated
  PROVE  /\ Released(bgt, size) \in Budget
         /\ Released(bgt, size).minimum = bgt.minimum
         /\ Released(bgt, size).direction = bgt.direction
         /\ Released(bgt, size).allocated = bgt.allocated - size
         /\ Released(bgt, size).charged = Due(Released(bgt, size).minimum, Released(bgt, size).allocated)
         /\ Released(bgt, size).charged <= bgt.charged
<1> USE LimitAssumption
<1>1. bgt.minimum \in 0..Limit /\ bgt.allocated \in 0..Limit /\ bgt.charged \in 0..Limit
      /\ bgt.direction \in Directions
  BY DEF Budget
<1>2. Larger(bgt.allocated - size, bgt.minimum) = Due(bgt.minimum, bgt.allocated - size)
      /\ Due(bgt.minimum, bgt.allocated - size) \in 0..Limit
      /\ Due(bgt.minimum, bgt.allocated - size) <= bgt.charged
  BY <1>1 DEF Due, Larger
<1> QED
  BY <1>1, <1>2 DEF Budget, Released

(* The same of core_buffer_budget_init, for any minimum and direction. *)
LEMMA ReservedIsDue ==
  ASSUME NEW bgt \in Budget, NEW d \in Directions, NEW m \in 0..Limit
  PROVE  /\ Reserved(bgt, d, m) \in Budget
         /\ Reserved(bgt, d, m).minimum = m
         /\ Reserved(bgt, d, m).direction = d
         /\ Reserved(bgt, d, m).allocated = bgt.allocated
         /\ Reserved(bgt, d, m).charged = Due(Reserved(bgt, d, m).minimum, Reserved(bgt, d, m).allocated)
<1> USE LimitAssumption
<1>1. bgt.allocated \in 0..Limit
  BY DEF Budget
<1>2. Due(m, bgt.allocated) \in 0..Limit
  BY <1>1 DEF Due, Larger
<1> QED
  BY <1>1, <1>2 DEF Budget, Reserved, Due

(* The same of the receiving side of core_buffer_transfer. *)
LEMMA ReceivedIsDue ==
  ASSUME NEW bgt \in Budget, NEW size \in Nat
  PROVE  /\ Received(bgt, size) \in WideBudget
         /\ Received(bgt, size).direction = bgt.direction
         /\ Received(bgt, size).allocated = bgt.allocated + size
         /\ Received(bgt, size).charged = Due(Received(bgt, size).minimum, Received(bgt, size).allocated)
<1> USE LimitAssumption
<1>1. bgt.minimum \in 0..Limit /\ bgt.allocated \in 0..Limit /\ bgt.direction \in Directions
  BY DEF Budget
<1>2. Larger(bgt.allocated + size, bgt.minimum) = Due(bgt.minimum, bgt.allocated + size)
      /\ Due(bgt.minimum, bgt.allocated + size) \in Nat
  BY <1>1 DEF Due, Larger
<1> QED
  BY <1>1, <1>2 DEF WideBudget, Received

-----------------------------------------------------------------------------
(* What one write of a budget under buffer_lock does to the shared counters. *)
LEMMA StoreKeepsCounters ==
  ASSUME TypeOK, CountersAreSums, ChargeIsDue,
         NEW b \in Budgets,
         NEW bgt \in WideBudget,
         bgt.charged = Due(bgt.minimum, bgt.allocated),
         \/ budget[b].direction = bgt.direction
         \/ budget[b].charged = 0 /\ budget[b].allocated = 0,
         bgt.charged - budget[b].charged <= Limit - charged[bgt.direction],
         Store(b, bgt)
  PROVE  /\ budget' \in [Budgets -> Budget]
         /\ charged' \in [Directions -> 0..Limit]
         /\ allocated' \in [Directions -> 0..Limit]
         /\ notify' \subseteq Budgets
         /\ CountersAreSums'
         /\ ChargeIsDue'
<1> USE LimitAssumption, BudgetsAssumption
<1> DEFINE d == bgt.direction
           C(e) == ChargedOf(e)
           A(e) == AllocatedOf(e)
<1>1. budget[b] \in Budget /\ d \in Directions
  BY DEF TypeOK, WideBudget
<1>2. \A e \in Directions : C(e) \in [Budgets -> 0..Limit] /\ A(e) \in [Budgets -> 0..Limit]
  BY DEF TypeOK, ChargedOf, AllocatedOf, Budget
<1>3. budget[b].charged <= charged[d] \/ budget[b].charged = 0
  <2>1. CASE budget[b].direction = d
    <3>1. C(d)[b] = budget[b].charged
      BY <2>1 DEF ChargedOf
    <3>2. C(d)[b] <= SumOf(C(d), Limit)
      BY <1>1, <1>2, SumBound
    <3> QED
      BY <1>1, <3>1, <3>2 DEF CountersAreSums
  <2> QED
    BY <2>1
<1>4. bgt.charged \in 0..Limit /\ bgt.allocated \in 0..Limit
  BY <1>1, <1>3 DEF TypeOK, Budget, Due, Larger, WideBudget
<1>5. bgt \in Budget
  BY <1>4 DEF Budget, WideBudget
<1>6. budget' \in [Budgets -> Budget] /\ budget'[b] = bgt
      /\ \A x \in Budgets \ {b} : budget'[x] = budget[x]
  BY <1>5 DEF Store, TypeOK
<1>7. ChargeIsDue'
  BY <1>6 DEF ChargeIsDue
<1>8. \A e \in Directions : C(e)' \in [Budgets -> 0..Limit] /\ A(e)' \in [Budgets -> 0..Limit]
  BY <1>6 DEF ChargedOf, AllocatedOf, Budget
<1>9. ASSUME NEW e \in Directions
      PROVE  /\ SumOf(C(e), Limit)' = SumOf(C(e), Limit) - C(e)[b] + C(e)'[b]
             /\ SumOf(A(e), Limit)' = SumOf(A(e), Limit) - A(e)[b] + A(e)'[b]
  <2>1. \A x \in Budgets \ {b} : C(e)'[x] = C(e)[x]
    BY <1>6 DEF ChargedOf
  <2>2. \A x \in Budgets \ {b} : A(e)'[x] = A(e)[x]
    BY <1>6 DEF AllocatedOf
  <2>3. SumOf(C(e)', Limit) = SumOf(C(e), Limit) - C(e)[b] + C(e)'[b]
    <3>1. C(e) \in [Budgets -> 0..Limit] /\ C(e)' \in [Budgets -> 0..Limit]
      BY <1>2, <1>8
    <3> QED
      BY <2>1, <3>1, SumUpdate
  <2>4. SumOf(A(e)', Limit) = SumOf(A(e), Limit) - A(e)[b] + A(e)'[b]
    <3>1. A(e) \in [Budgets -> 0..Limit] /\ A(e)' \in [Budgets -> 0..Limit]
      BY <1>2, <1>8
    <3> QED
      BY <2>2, <3>1, SumUpdate
  <2> QED
    BY <2>3, <2>4
<1>10. \A e \in Directions :
         /\ charged'[e] = IF e = d THEN charged[e] + (bgt.charged - budget[b].charged) ELSE charged[e]
         /\ allocated'[e] = IF e = d THEN allocated[e] + (bgt.allocated - budget[b].allocated) ELSE allocated[e]
  BY DEF Store, TypeOK
<1>11. CountersAreSums'
  <2> SUFFICES ASSUME NEW e \in Directions
               PROVE  charged'[e] = SumOf(C(e), Limit)' /\ allocated'[e] = SumOf(A(e), Limit)'
    BY DEF CountersAreSums
  <2>1. C(e)[b] = IF budget[b].direction = e THEN budget[b].charged ELSE 0
    BY DEF ChargedOf
  <2>2. A(e)[b] = IF budget[b].direction = e THEN budget[b].allocated ELSE 0
    BY DEF AllocatedOf
  <2>3. C(e)'[b] = IF d = e THEN bgt.charged ELSE 0
    BY <1>6 DEF ChargedOf
  <2>4. A(e)'[b] = IF d = e THEN bgt.allocated ELSE 0
    BY <1>6 DEF AllocatedOf
  <2>5. charged[e] = SumOf(C(e), Limit) /\ allocated[e] = SumOf(A(e), Limit)
    BY DEF CountersAreSums
  <2>6. charged[e] \in Nat /\ allocated[e] \in Nat /\ budget[b].charged \in Nat /\ budget[b].allocated \in Nat
    BY <1>1 DEF TypeOK, Budget
  <2> QED
    BY <1>4, <1>9, <1>10, <2>1, <2>2, <2>3, <2>4, <2>5, <2>6
<1>12. \A e \in Directions : charged'[e] \in 0..Limit /\ allocated'[e] \in 0..Limit
  <2> SUFFICES ASSUME NEW e \in Directions
               PROVE  charged'[e] \in 0..Limit /\ allocated'[e] \in 0..Limit
    OBVIOUS
  <2>1. charged'[e] = SumOf(C(e)', Limit) /\ allocated'[e] = SumOf(A(e)', Limit)
    BY <1>11 DEF CountersAreSums
  <2>2. SumOf(C(e)', Limit) \in Nat /\ SumOf(A(e)', Limit) \in Nat
    BY <1>8, SumType
  <2>3. charged'[e] <= Limit
    BY <1>1, <1>4, <1>10 DEF TypeOK, Budget
  <2>4. SumOf(A(e)', Limit) <= SumOf(C(e)', Limit)
    <3>1. \A x \in Budgets : A(e)'[x] <= C(e)'[x]
      BY <1>6, <1>7 DEF ChargeIsDue, Due, Larger, ChargedOf, AllocatedOf, Budget
    <3> QED
      BY <1>8, <3>1, SumMonotone
  <2> QED
    BY <2>1, <2>2, <2>3, <2>4
<1>13. charged' \in [Directions -> 0..Limit] /\ allocated' \in [Directions -> 0..Limit]
  BY Zenon, <1>12 DEF Store, TypeOK
<1>14. notify' \subseteq Budgets
  BY DEF Store, TypeOK
<1> QED
  BY <1>6, <1>7, <1>11, <1>13, <1>14

-----------------------------------------------------------------------------
(* A step that writes one budget keeps every sleeping waiter covered: room   *)
(* only grows when the step also leaves its budget in notify.                *)
LEMMA StoreKeepsWakeups ==
  ASSUME TypeOK, NoLostWakeup, NEW b \in Budgets, NEW bgt,
         bgt.direction \in Directions, bgt.charged \in Nat,
         b \notin notify \/ bgt.direction = budget[b].direction,
         charged' \in [Directions -> 0..Limit],
         Store(b, bgt), UNCHANGED waiterVars
  PROVE  NoLostWakeup'
<1> USE LimitAssumption, WantedAssumption
<1> SUFFICES ASSUME NEW w \in Waiters, pc[w] = "sleep", NEW d \in watching[w],
                    Limit - charged'[d] >= Wanted, ~woken[w]
             PROVE  \E x \in notify' : budget'[x].direction = d
  BY DEF NoLostWakeup, waiterVars, Room
<1>1. d \in Directions /\ charged[d] \in 0..Limit /\ charged'[d] \in 0..Limit
  BY DEF TypeOK
<1>2. CASE charged'[d] < charged[d]
  <2>1. d = bgt.direction /\ bgt.charged < budget[b].charged
    BY <1>1, <1>2 DEF Store, TypeOK, Budget
  <2> QED
    BY <2>1 DEF Store, TypeOK
<1>3. CASE charged'[d] >= charged[d]
  <2>1. Room(d) >= Wanted
    BY <1>1, <1>3 DEF Room
  <2>2. PICK x \in notify : budget[x].direction = d
    BY <2>1 DEF NoLostWakeup
  <2>3. budget'[x].direction = budget[x].direction /\ x \in notify'
    BY <2>2 DEF Store, TypeOK
  <2> QED
    BY <2>2, <2>3
<1> QED
  BY <1>1, <1>2, <1>3

(* Writing the size or owner of one pointer moves one term of the sums over blocks. *)
LEMMA BlockUpdate ==
  ASSUME TypeOK, NEW p \in Blocks, NEW blk \in Block,
         block' = [block EXCEPT ![p] = blk], NEW b \in Budgets
  PROVE  SumOf(BlocksOf(b), Limit)' = SumOf(BlocksOf(b), Limit)
           - (IF block[p].owner = b THEN block[p].size ELSE 0)
           + (IF blk.owner = b THEN blk.size ELSE 0)
<1> USE LimitAssumption, BudgetsAssumption
<1>1. BlocksOf(b) \in [Blocks -> 0..Limit]
  BY DEF BlocksOf, TypeOK, Block
<1>2. block' \in [Blocks -> Block] /\ block'[p] = blk
      /\ \A q \in Blocks \ {p} : block'[q] = block[q]
  BY DEF TypeOK
<1>3. BlocksOf(b)' \in [Blocks -> 0..Limit]
  BY <1>2 DEF BlocksOf, Block
<1>4. \A q \in Blocks \ {p} : BlocksOf(b)'[q] = BlocksOf(b)[q]
  BY <1>2 DEF BlocksOf
<1>5. SumOf(BlocksOf(b)', Limit) = SumOf(BlocksOf(b), Limit) - BlocksOf(b)[p] + BlocksOf(b)'[p]
  BY <1>1, <1>3, <1>4, SumUpdate
<1>6. BlocksOf(b)[p] = IF block[p].owner = b THEN block[p].size ELSE 0
  BY DEF BlocksOf
<1>7. BlocksOf(b)'[p] = IF blk.owner = b THEN blk.size ELSE 0
  BY <1>2 DEF BlocksOf
<1> QED
  BY <1>5, <1>6, <1>7

(* A block is never larger than what its budget counts as allocated. *)
LEMMA BlockWithinBudget ==
  ASSUME TypeOK, BlocksAccounted, NEW p \in Blocks
  PROVE  block[p].size <= budget[block[p].owner].allocated
<1> USE LimitAssumption, BudgetsAssumption
<1> DEFINE b == block[p].owner
<1>1. b \in Budgets
  BY DEF TypeOK, Block
<1>2. BlocksOf(b) \in [Blocks -> 0..Limit]
  BY DEF BlocksOf, TypeOK, Block
<1>3. BlocksOf(b)[p] <= SumOf(BlocksOf(b), Limit)
  BY <1>2, SumBound
<1>4. BlocksOf(b)[p] = block[p].size
  BY DEF BlocksOf
<1> QED
  BY <1>1, <1>3, <1>4 DEF BlocksAccounted

-----------------------------------------------------------------------------
(* What a step that writes no budget leaves alone. *)
LEMMA CountersFrame ==
  ASSUME CountersAreSums, ChargeIsDue, UNCHANGED <<budget, charged, allocated>>
  PROVE  CountersAreSums' /\ ChargeIsDue'
<1>1. \A d \in Directions : ChargedOf(d)' = ChargedOf(d)
  BY Zenon DEF ChargedOf
<1>2. \A d \in Directions : AllocatedOf(d)' = AllocatedOf(d)
  BY Zenon DEF AllocatedOf
<1>3. CountersAreSums'
  BY Zenon, <1>1, <1>2 DEF CountersAreSums
<1>4. ChargeIsDue'
  BY Zenon DEF ChargeIsDue
<1> QED
  BY <1>3, <1>4

(* The same of the blocks. *)
LEMMA BlocksFrame ==
  ASSUME BlocksAccounted, FreeIsEmpty, UNCHANGED <<budget, block>>
  PROVE  BlocksAccounted' /\ FreeIsEmpty'
<1>1. \A b \in Budgets : BlocksOf(b)' = BlocksOf(b)
  BY Zenon DEF BlocksOf
<1>2. BlocksAccounted'
  BY Zenon, <1>1 DEF BlocksAccounted
<1>3. FreeIsEmpty'
  BY Zenon DEF FreeIsEmpty
<1> QED
  BY <1>2, <1>3

(* The same of the waiters, while no room appears. *)
LEMMA WaitersFrame ==
  ASSUME NoRelayWaiter, NoLostWakeup, UNCHANGED <<budget, charged, notify, watching, woken, pc>>
  PROVE  NoRelayWaiter' /\ NoLostWakeup'
<1>1. NoRelayWaiter'
  BY Zenon DEF NoRelayWaiter
<1>2. NoLostWakeup'
  BY Zenon DEF NoLostWakeup, Room
<1> QED
  BY <1>1, <1>2

-----------------------------------------------------------------------------
(* What the inductive invariant says of a state, as one fact. *)
LEMMA InvFacts ==
  ASSUME Inv
  PROVE  /\ TypeOK /\ CountersAreSums /\ ChargeIsDue /\ BlocksAccounted /\ FreeIsEmpty
         /\ NoRelayWaiter /\ NoLostWakeup
  BY DEF Inv

(* A write of one budget keeps the invariant when the blocks follow it. *)
LEMMA StoreKeepsInv ==
  ASSUME Inv, NEW b \in Budgets, NEW bgt \in WideBudget,
         bgt.charged = Due(bgt.minimum, bgt.allocated),
         \/ budget[b].direction = bgt.direction
         \/ budget[b].charged = 0 /\ budget[b].allocated = 0,
         b \notin notify \/ bgt.direction = budget[b].direction,
         bgt.charged - budget[b].charged <= Limit - charged[bgt.direction],
         Store(b, bgt), UNCHANGED waiterVars,
         block' \in [Blocks -> Block], FreeIsEmpty',
         \A x \in Budgets : SumOf(BlocksOf(x), Limit)' =
                              IF x = b THEN bgt.allocated ELSE SumOf(BlocksOf(x), Limit)
  PROVE  Inv'
<1>1. /\ budget' \in [Budgets -> Budget]
      /\ charged' \in [Directions -> 0..Limit]
      /\ allocated' \in [Directions -> 0..Limit]
      /\ notify' \subseteq Budgets
      /\ CountersAreSums'
      /\ ChargeIsDue'
  BY Zenon, InvFacts, StoreKeepsCounters
<1>2. TypeOK'
  BY Zenon, <1>1, InvFacts DEF TypeOK, waiterVars
<1>3. ASSUME NEW x \in Budgets
      PROVE  budget'[x].allocated = SumOf(BlocksOf(x), Limit)'
  <2>1. budget'[x] = IF x = b THEN bgt ELSE budget[x]
    BY Zenon, InvFacts DEF Store, TypeOK
  <2>2. budget[x].allocated = SumOf(BlocksOf(x), Limit)
    BY Zenon, InvFacts DEF BlocksAccounted
  <2> QED
    BY Zenon, <2>1, <2>2
<1>4. BlocksAccounted'
  BY Zenon, <1>3 DEF BlocksAccounted
<1>5. NoRelayWaiter'
  BY Zenon, InvFacts DEF NoRelayWaiter, waiterVars
<1>6. bgt.direction \in Directions /\ bgt.charged \in Nat
  BY DEF WideBudget
<1>7. NoLostWakeup'
  BY Zenon, <1>1, <1>6, InvFacts, StoreKeepsWakeups
<1> QED
  BY Zenon, <1>1, <1>2, <1>4, <1>5, <1>7 DEF Inv

(* claim: core_buffer_alloc, core_buffer_hold and the first half of realloc. *)
LEMMA ClaimKeepsInv ==
  ASSUME Inv, NEW b \in Budgets, NEW p \in Blocks, NEW size \in Sizes,
         NEW state \in BlockStates \ {"none"}, NEW old \in Blocks \cup {NoBlock},
         Claim(b, p, size, state, old)
  PROVE  Inv'
<1>1. budget \in [Budgets -> Budget] /\ block \in [Blocks -> Block]
  BY Zenon, InvFacts DEF TypeOK
<1>2. size \in 1..Limit /\ size \in Nat
  BY LimitAssumption, SizesAssumption
<1>3. PICK bgt \in WideBudget : /\ bgt = Claimed(budget[b], size)
                                /\ bgt.direction = budget[b].direction
                                /\ bgt.allocated = budget[b].allocated + size
                                /\ bgt.charged = Due(bgt.minimum, bgt.allocated)
  <2>1. budget[b] \in Budget /\ budget[b].charged = Due(budget[b].minimum, budget[b].allocated)
    BY Zenon, <1>1, InvFacts DEF ChargeIsDue
  <2> QED
    BY Zenon, <1>2, <2>1, ClaimedIsDue
<1>4. PICK blk \in Block : /\ blk.owner = b /\ blk.size = size /\ blk.state # "none"
                           /\ block' = [block EXCEPT ![p] = blk]
  <2> DEFINE new == [state |-> state, owner |-> b, size |-> size, old |-> old]
  <2>1. new \in Block /\ new.owner = b /\ new.size = size /\ new.state # "none"
    BY <1>2, LimitAssumption DEF Block
  <2>2. block' = [block EXCEPT ![p] = new]
    BY Zenon DEF Claim
  <2> HIDE DEF new
  <2> QED
    BY Zenon, <2>1, <2>2
<1>5. block[p].state = "none" /\ Store(b, bgt) /\ UNCHANGED waiterVars
  BY Zenon, <1>3 DEF Claim
<1>6. bgt.charged - budget[b].charged <= Limit - charged[bgt.direction]
  BY Zenon, <1>3 DEF Claim, Fits
<1>7. block' \in [Blocks -> Block]
  BY <1>1, <1>4
<1>8. FreeIsEmpty'
  BY <1>1, <1>4, InvFacts DEF FreeIsEmpty
<1>9. ASSUME NEW x \in Budgets
      PROVE  SumOf(BlocksOf(x), Limit)' = IF x = b THEN bgt.allocated ELSE SumOf(BlocksOf(x), Limit)
  <2>1. SumOf(BlocksOf(x), Limit)' = SumOf(BlocksOf(x), Limit)
           - (IF block[p].owner = x THEN block[p].size ELSE 0) + (IF blk.owner = x THEN blk.size ELSE 0)
    BY ZenonT(60), <1>4, InvFacts, BlockUpdate
  <2>2. block[p].size = 0
    BY Zenon, <1>5, InvFacts DEF FreeIsEmpty
  <2>3. SumOf(BlocksOf(x), Limit) = budget[x].allocated
    BY Zenon, InvFacts DEF BlocksAccounted
  <2>4. budget[x].allocated \in Nat
    BY <1>1, LimitAssumption DEF Budget
  <2> QED
    BY <1>2, <1>3, <1>4, <2>1, <2>2, <2>3, <2>4
<1> QED
  BY Zenon, <1>3, <1>5, <1>6, <1>7, <1>8, <1>9, StoreKeepsInv

(* release: a free, a failed malloc, or the second half of realloc. *)
LEMMA ReleaseKeepsInv ==
  ASSUME Inv, NEW p \in Blocks, Release(p)
  PROVE  Inv'
<1>1. budget \in [Budgets -> Budget] /\ block \in [Blocks -> Block] /\ charged \in [Directions -> 0..Limit]
  BY Zenon, InvFacts DEF TypeOK
<1>2. PICK b \in Budgets, size \in 0..Limit : block[p].owner = b /\ block[p].size = size
  BY <1>1 DEF Block
<1>3. size <= budget[b].allocated /\ size \in Nat
  <2>1. block[p].size <= budget[block[p].owner].allocated
    BY Zenon, InvFacts, BlockWithinBudget
  <2> QED
    BY <1>2, <2>1, LimitAssumption
<1>4. PICK bgt \in Budget : /\ bgt = Released(budget[b], size)
                            /\ bgt.direction = budget[b].direction
                            /\ bgt.allocated = budget[b].allocated - size
                            /\ bgt.charged = Due(bgt.minimum, bgt.allocated)
                            /\ bgt.charged <= budget[b].charged
  <2>1. budget[b] \in Budget /\ budget[b].charged = Due(budget[b].minimum, budget[b].allocated)
    BY Zenon, <1>1, InvFacts DEF ChargeIsDue
  <2> QED
    BY Zenon, <1>3, <2>1, ReleasedIsDue
<1>5. bgt \in WideBudget
  BY LimitAssumption DEF Budget, WideBudget
<1>6. Store(b, bgt) /\ UNCHANGED waiterVars
  BY Zenon, <1>2, <1>4 DEF Release
<1>7. bgt.charged - budget[b].charged <= Limit - charged[bgt.direction]
  BY <1>1, <1>4, LimitAssumption DEF Budget
<1>8. PICK blk \in Block : blk.owner = b /\ blk.size = 0 /\ block' = [block EXCEPT ![p] = blk]
  <2>1. NullBlock(b) \in Block /\ NullBlock(b).owner = b /\ NullBlock(b).size = 0
    BY LimitAssumption DEF Block, NullBlock, BlockStates
  <2>2. block' = [block EXCEPT ![p] = NullBlock(b)]
    BY Zenon, <1>2 DEF Release
  <2> QED
    BY Zenon, <2>1, <2>2
<1>9. block' \in [Blocks -> Block]
  BY <1>1, <1>8
<1>10. FreeIsEmpty'
  BY <1>1, <1>8, InvFacts DEF FreeIsEmpty
<1>11. ASSUME NEW x \in Budgets
       PROVE  SumOf(BlocksOf(x), Limit)' = IF x = b THEN bgt.allocated ELSE SumOf(BlocksOf(x), Limit)
  <2>1. SumOf(BlocksOf(x), Limit)' = SumOf(BlocksOf(x), Limit)
           - (IF block[p].owner = x THEN block[p].size ELSE 0) + (IF blk.owner = x THEN blk.size ELSE 0)
    BY ZenonT(60), <1>8, InvFacts, BlockUpdate
  <2>2. SumOf(BlocksOf(x), Limit) = budget[x].allocated
    BY Zenon, InvFacts DEF BlocksAccounted
  <2>3. budget[x].allocated \in Nat
    BY <1>1, LimitAssumption DEF Budget
  <2> QED
    BY <1>2, <1>3, <1>4, <1>8, <2>1, <2>2, <2>3
<1> QED
  BY Zenon, <1>4, <1>5, <1>6, <1>7, <1>9, <1>10, <1>11, StoreKeepsInv

(* core_buffer_budget_init and core_buffer_budget_clear. *)
LEMMA BudgetInitKeepsInv ==
  ASSUME Inv, NEW b \in Budgets, NEW d \in Directions, NEW m \in 0..Limit,
         BudgetInit(b, d, m)
  PROVE  Inv'
<1>1. budget[b] \in Budget /\ block \in [Blocks -> Block] /\ charged[d] \in 0..Limit
  BY Zenon, InvFacts DEF TypeOK
<1>2. PICK bgt \in Budget : /\ bgt = Reserved(budget[b], d, m)
                            /\ bgt.direction = d
                            /\ bgt.allocated = budget[b].allocated
                            /\ bgt.charged = Due(bgt.minimum, bgt.allocated)
  BY <1>1, ReservedIsDue
<1>3. bgt \in WideBudget
  BY LimitAssumption DEF Budget, WideBudget
<1>4. Store(b, bgt) /\ Fits(Larger(bgt.charged - budget[b].charged, 0), charged[d])
  BY Zenon, <1>2 DEF BudgetInit
<1>5. b \notin notify /\ block' = block /\ UNCHANGED waiterVars
  BY DEF BudgetInit, Busy
<1>6. budget[b].charged \in Nat /\ budget[b].allocated \in Nat /\ bgt.charged \in Nat
  BY <1>1, LimitAssumption DEF Budget
<1>7. budget[b].direction = d \/ (budget[b].charged = 0 /\ budget[b].allocated = 0)
  BY <1>6 DEF BudgetInit
<1>8. bgt.charged - budget[b].charged <= Limit - charged[bgt.direction]
  BY <1>1, <1>2, <1>4, <1>6, LimitAssumption DEF Fits, Larger
<1>9. block' \in [Blocks -> Block]
  BY Zenon, <1>1, <1>5
<1>10. FreeIsEmpty'
  BY Zenon, <1>5, InvFacts DEF FreeIsEmpty
<1>11. ASSUME NEW x \in Budgets
       PROVE  SumOf(BlocksOf(x), Limit)' = IF x = b THEN bgt.allocated ELSE SumOf(BlocksOf(x), Limit)
  <2>1. BlocksOf(x)' = BlocksOf(x)
    BY Zenon, <1>5 DEF BlocksOf
  <2>2. SumOf(BlocksOf(x), Limit) = budget[x].allocated
    BY Zenon, InvFacts DEF BlocksAccounted
  <2> QED
    BY Zenon, <1>2, <2>1, <2>2
<1> QED
  BY Zenon, <1>2, <1>3, <1>4, <1>5, <1>7, <1>8, <1>9, <1>10, <1>11, StoreKeepsInv

(* A sum over the budgets when two of them change. *)
LEMMA BudgetSumTwo ==
  ASSUME NEW f \in [Budgets -> 0..Limit], NEW g \in [Budgets -> 0..Limit],
         NEW from \in Budgets, NEW to \in Budgets \ {from},
         \A x \in Budgets \ {from, to} : g[x] = f[x]
  PROVE  SumOf(g, Limit) = SumOf(f, Limit) - f[from] - f[to] + g[from] + g[to]
  BY SumUpdateTwo, LimitAssumption, BudgetsAssumption

(* Writing two budgets of one direction moves two terms of the sum of charges, *)
(* and leaves the sums of the other directions alone.                          *)
LEMMA TwoChargesMove ==
  ASSUME NEW e, NEW d, NEW from \in Budgets, NEW to \in Budgets \ {from},
         budget \in [Budgets -> Budget], budget' \in [Budgets -> Budget],
         budget[from].direction = d, budget[to].direction = d,
         budget'[from].direction = d, budget'[to].direction = d,
         \A x \in Budgets \ {from, to} : budget'[x] = budget[x]
  PROVE  SumOf(ChargedOf(e), Limit)' =
           IF d = e
           THEN SumOf(ChargedOf(e), Limit) - (budget[from].charged + budget[to].charged)
                  + (budget'[from].charged + budget'[to].charged)
           ELSE SumOf(ChargedOf(e), Limit)
<1> USE LimitAssumption, BudgetsAssumption
<1>1. ChargedOf(e) \in [Budgets -> 0..Limit] /\ ChargedOf(e)' \in [Budgets -> 0..Limit]
  BY DEF ChargedOf, Budget
<1>2. \A x \in Budgets \ {from, to} : ChargedOf(e)'[x] = ChargedOf(e)[x]
  BY DEF ChargedOf
<1>3. \A x \in {from, to} : /\ ChargedOf(e)[x] = (IF d = e THEN budget[x].charged ELSE 0)
                            /\ ChargedOf(e)'[x] = (IF d = e THEN budget'[x].charged ELSE 0)
  BY DEF ChargedOf
<1>4. PICK f \in [Budgets -> 0..Limit], g \in [Budgets -> 0..Limit] :
        f = ChargedOf(e) /\ g = ChargedOf(e)'
  BY Zenon, <1>1
<1>5. SumOf(g, Limit) = SumOf(f, Limit) - f[from] - f[to] + g[from] + g[to]
  <2>1. \A x \in Budgets \ {from, to} : g[x] = f[x]
    BY Zenon, <1>2, <1>4
  <2> QED
    BY Zenon, <2>1, BudgetSumTwo
<1>6. SumOf(f, Limit) \in Nat /\ f[from] \in Nat /\ f[to] \in Nat /\ g[from] \in Nat /\ g[to] \in Nat
  BY SumType
<1>7. \A x \in {from, to} : budget[x].charged \in Nat /\ budget'[x].charged \in Nat
  BY DEF Budget
<1>8. SumOf(f, Limit) = SumOf(ChargedOf(e), Limit) /\ SumOf(g, Limit) = SumOf(ChargedOf(e), Limit)'
  BY Zenon, <1>4
<1>9. CASE d = e
  BY <1>3, <1>4, <1>5, <1>6, <1>7, <1>8, <1>9
<1>10. CASE d # e
  BY <1>3, <1>4, <1>5, <1>6, <1>8, <1>10
<1> QED
  BY <1>9, <1>10

(* The same of the bytes allocated. *)
LEMMA TwoAllocationsMove ==
  ASSUME NEW e, NEW d, NEW from \in Budgets, NEW to \in Budgets \ {from},
         budget \in [Budgets -> Budget], budget' \in [Budgets -> Budget],
         budget[from].direction = d, budget[to].direction = d,
         budget'[from].direction = d, budget'[to].direction = d,
         \A x \in Budgets \ {from, to} : budget'[x] = budget[x]
  PROVE  SumOf(AllocatedOf(e), Limit)' =
           IF d = e
           THEN SumOf(AllocatedOf(e), Limit) - (budget[from].allocated + budget[to].allocated)
                  + (budget'[from].allocated + budget'[to].allocated)
           ELSE SumOf(AllocatedOf(e), Limit)
<1> USE LimitAssumption, BudgetsAssumption
<1>1. AllocatedOf(e) \in [Budgets -> 0..Limit] /\ AllocatedOf(e)' \in [Budgets -> 0..Limit]
  BY DEF AllocatedOf, Budget
<1>2. \A x \in Budgets \ {from, to} : AllocatedOf(e)'[x] = AllocatedOf(e)[x]
  BY DEF AllocatedOf
<1>3. \A x \in {from, to} : /\ AllocatedOf(e)[x] = (IF d = e THEN budget[x].allocated ELSE 0)
                            /\ AllocatedOf(e)'[x] = (IF d = e THEN budget'[x].allocated ELSE 0)
  BY DEF AllocatedOf
<1>4. PICK f \in [Budgets -> 0..Limit], g \in [Budgets -> 0..Limit] :
        f = AllocatedOf(e) /\ g = AllocatedOf(e)'
  BY Zenon, <1>1
<1>5. SumOf(g, Limit) = SumOf(f, Limit) - f[from] - f[to] + g[from] + g[to]
  <2>1. \A x \in Budgets \ {from, to} : g[x] = f[x]
    BY Zenon, <1>2, <1>4
  <2> QED
    BY Zenon, <2>1, BudgetSumTwo
<1>6. SumOf(f, Limit) \in Nat /\ f[from] \in Nat /\ f[to] \in Nat /\ g[from] \in Nat /\ g[to] \in Nat
  BY SumType
<1>7. \A x \in {from, to} : budget[x].allocated \in Nat /\ budget'[x].allocated \in Nat
  BY DEF Budget
<1>8. SumOf(f, Limit) = SumOf(AllocatedOf(e), Limit) /\ SumOf(g, Limit) = SumOf(AllocatedOf(e), Limit)'
  BY Zenon, <1>4
<1>9. CASE d = e
  BY <1>3, <1>4, <1>5, <1>6, <1>7, <1>8, <1>9
<1>10. CASE d # e
  BY <1>3, <1>4, <1>5, <1>6, <1>8, <1>10
<1> QED
  BY <1>9, <1>10

(* What one write of two budgets of one direction under buffer_lock does to *)
(* the shared counters.                                                     *)
LEMMA StoreTwoKeepsCounters ==
  ASSUME TypeOK, CountersAreSums, ChargeIsDue,
         NEW from \in Budgets, NEW to \in Budgets \ {from}, NEW d \in Directions,
         budget' \in [Budgets -> Budget],
         budget[from].direction = d, budget[to].direction = d,
         budget'[from].direction = d, budget'[to].direction = d,
         budget'[from].charged = Due(budget'[from].minimum, budget'[from].allocated),
         budget'[to].charged = Due(budget'[to].minimum, budget'[to].allocated),
         \A x \in Budgets \ {from, to} : budget'[x] = budget[x],
         budget[from].allocated + budget[to].allocated = budget'[from].allocated + budget'[to].allocated,
         charged' = [charged EXCEPT ![d] = @ - (budget[from].charged + budget[to].charged)
                                             + (budget'[from].charged + budget'[to].charged)],
         allocated' = allocated
  PROVE  CountersAreSums' /\ ChargeIsDue'
<1>1. charged \in [Directions -> 0..Limit] /\ allocated \in [Directions -> 0..Limit]
      /\ budget \in [Budgets -> Budget]
  BY Zenon DEF TypeOK
<1>2. ASSUME NEW e \in Directions
      PROVE  charged'[e] = SumOf(ChargedOf(e), Limit)'
  <2>1. charged[e] = SumOf(ChargedOf(e), Limit)
    BY Zenon DEF CountersAreSums
  <2>2. charged'[e] = IF d = e THEN charged[e] - (budget[from].charged + budget[to].charged)
                                      + (budget'[from].charged + budget'[to].charged)
                               ELSE charged[e]
    BY <1>1
  <2> QED
    <3>1. SumOf(ChargedOf(e), Limit)' =
            IF d = e
            THEN SumOf(ChargedOf(e), Limit) - (budget[from].charged + budget[to].charged)
                   + (budget'[from].charged + budget'[to].charged)
            ELSE SumOf(ChargedOf(e), Limit)
      BY Zenon, <1>1, TwoChargesMove
    <3> QED
      BY Zenon, <2>1, <2>2, <3>1
<1>3. ASSUME NEW e \in Directions
      PROVE  allocated'[e] = SumOf(AllocatedOf(e), Limit)'
  <2>1. allocated[e] = SumOf(AllocatedOf(e), Limit) /\ allocated[e] \in Nat
    BY <1>1, LimitAssumption DEF CountersAreSums
  <2>2. SumOf(AllocatedOf(e), Limit)' =
           IF d = e
           THEN SumOf(AllocatedOf(e), Limit) - (budget[from].allocated + budget[to].allocated)
                  + (budget'[from].allocated + budget'[to].allocated)
           ELSE SumOf(AllocatedOf(e), Limit)
    BY Zenon, <1>1, TwoAllocationsMove
  <2>3. budget[from].allocated \in Nat /\ budget[to].allocated \in Nat
    BY <1>1, LimitAssumption DEF Budget
  <2> QED
    BY <2>1, <2>2, <2>3
<1>4. CountersAreSums'
  BY Zenon, <1>2, <1>3 DEF CountersAreSums
<1>5. ChargeIsDue'
  BY Zenon DEF ChargeIsDue
<1> QED
  BY <1>4, <1>5

(* What core_buffer_transfer charges stays within the limit. *)
LEMMA TransferFits ==
  ASSUME TypeOK, CountersAreSums,
         NEW from \in Budgets, NEW to \in Budgets \ {from}, NEW d \in Directions, NEW future \in Nat,
         budget[from].direction = d, budget[to].direction = d,
         Fits(Larger(future - (budget[from].charged + budget[to].charged), 0), charged[d])
  PROVE  /\ charged[d] - (budget[from].charged + budget[to].charged) + future \in 0..Limit
         /\ future <= Limit
<1> USE LimitAssumption, BudgetsAssumption
<1>1. ChargedOf(d) \in [Budgets -> 0..Limit]
  BY DEF TypeOK, ChargedOf, Budget
<1>2. ChargedOf(d)[from] + ChargedOf(d)[to] <= SumOf(ChargedOf(d), Limit)
  BY Zenon, <1>1, SumBoundTwo
<1>3. ChargedOf(d)[from] = budget[from].charged /\ ChargedOf(d)[to] = budget[to].charged
  BY DEF ChargedOf
<1>4. budget[from].charged \in Nat /\ budget[to].charged \in Nat /\ charged[d] \in 0..Limit
  BY DEF TypeOK, Budget
<1>5. budget[from].charged + budget[to].charged <= charged[d]
  BY <1>2, <1>3 DEF CountersAreSums
<1> QED
  BY <1>4, <1>5 DEF Fits, Larger

\* What core_buffer_transfer does, with the two budgets it computes named.
Moved(p, from, to, size, d, source, destination, current, future) ==
  /\ block[p].owner = from /\ block[p].size = size /\ block[p].state = "live"
  /\ budget[from].direction = d /\ budget[to].direction = d
  /\ from \notin notify /\ to \notin notify
  /\ source.direction = d
  /\ source.allocated = budget[from].allocated - size
  /\ source.charged = Due(source.minimum, source.allocated)
  /\ destination.direction = d
  /\ destination.allocated = budget[to].allocated + size
  /\ destination.charged = Due(destination.minimum, destination.allocated)
  /\ current = budget[from].charged + budget[to].charged
  /\ future = source.charged + destination.charged
  /\ Fits(Larger(future - current, 0), charged[d])
  /\ budget' = [budget EXCEPT ![from] = source, ![to] = destination]
  /\ charged' = [charged EXCEPT ![d] = @ - current + future]
  /\ notify' = IF future < current THEN notify \cup {from} ELSE notify
  /\ block' = [block EXCEPT ![p] = LiveBlock(to, size)]
  /\ allocated' = allocated /\ watching' = watching /\ woken' = woken /\ pc' = pc

(* Transfer computes two budgets that are charged what is due. *)
LEMMA TransferMoves ==
  ASSUME Inv, NEW p \in Blocks, NEW to \in Budgets, Transfer(p, to)
  PROVE  \E from \in Budgets, size \in 0..Limit, d \in Directions,
            source \in Budget, destination \in WideBudget, current \in Nat, future \in Nat :
            to \in Budgets \ {from} /\ Moved(p, from, to, size, d, source, destination, current, future)
<1>1. budget \in [Budgets -> Budget] /\ block[p] \in Block
  BY Zenon, InvFacts DEF TypeOK
<1>2. PICK from \in Budgets, size \in 0..Limit : block[p].owner = from /\ block[p].size = size
  BY <1>1 DEF Block
<1>3. budget[from] \in Budget /\ budget[to] \in Budget /\ size \in Nat
  BY <1>1, LimitAssumption
<1>4. PICK d \in Directions : budget[from].direction = d
  BY <1>3 DEF Budget
<1>5. budget[from].charged = Due(budget[from].minimum, budget[from].allocated)
      /\ size <= budget[from].allocated
  BY Zenon, <1>2, InvFacts, BlockWithinBudget DEF ChargeIsDue
<1>6. PICK source \in Budget : /\ source = Released(budget[from], size)
                               /\ source.direction = budget[from].direction
                               /\ source.allocated = budget[from].allocated - size
                               /\ source.charged = Due(source.minimum, source.allocated)
  BY Zenon, <1>3, <1>5, ReleasedIsDue
<1>7. PICK destination \in WideBudget : /\ destination = Received(budget[to], size)
                                        /\ destination.direction = budget[to].direction
                                        /\ destination.allocated = budget[to].allocated + size
                                        /\ destination.charged = Due(destination.minimum, destination.allocated)
  BY Zenon, <1>3, ReceivedIsDue
<1>8. PICK current \in Nat : current = budget[from].charged + budget[to].charged
  BY <1>3, LimitAssumption DEF Budget
<1>9. PICK future \in Nat : future = source.charged + destination.charged
  BY LimitAssumption DEF Budget, WideBudget
<1>10. /\ block[p].state = "live" /\ from # to /\ budget[to].direction = d
       /\ from \notin notify /\ to \notin notify
  BY Zenon, <1>2, <1>4 DEF Transfer, Busy
<1>11. /\ Fits(Larger(future - current, 0), charged[d])
       /\ budget' = [budget EXCEPT ![from] = source, ![to] = destination]
       /\ charged' = [charged EXCEPT ![d] = @ - current + future]
       /\ notify' = IF future < current THEN notify \cup {from} ELSE notify
       /\ block' = [block EXCEPT ![p] = LiveBlock(to, size)]
       /\ allocated' = allocated
  BY <1>2, <1>4, <1>6, <1>7, <1>8, <1>9 DEF Transfer
<1>12. watching' = watching /\ woken' = woken /\ pc' = pc
  BY Zenon DEF Transfer, waiterVars
<1>13. to \in Budgets \ {from}
  BY Zenon, <1>10
<1>14. Moved(p, from, to, size, d, source, destination, current, future)
  BY Zenon, <1>2, <1>4, <1>6, <1>7, <1>8, <1>9, <1>10, <1>11, <1>12 DEF Moved
<1> QED
  BY Zenon, <1>13, <1>14

(* The counters after such a move. *)
LEMMA MovedCounters ==
  ASSUME Inv, NEW p \in Blocks, NEW from \in Budgets, NEW to \in Budgets \ {from}, NEW size \in 0..Limit,
         NEW d \in Directions, NEW source \in Budget, NEW destination \in WideBudget,
         NEW current \in Nat, NEW future \in Nat,
         Moved(p, from, to, size, d, source, destination, current, future)
  PROVE  /\ budget' \in [Budgets -> Budget]
         /\ budget'[from] = source /\ budget'[to] = destination
         /\ \A x \in Budgets \ {from, to} : budget'[x] = budget[x]
         /\ charged' \in [Directions -> 0..Limit]
         /\ CountersAreSums'
         /\ ChargeIsDue'
<1>1. charged \in [Directions -> 0..Limit] /\ budget \in [Budgets -> Budget]
  BY Zenon, InvFacts DEF TypeOK
<1>a. /\ destination.charged = Due(destination.minimum, destination.allocated)
      /\ future = source.charged + destination.charged
      /\ charged' = [charged EXCEPT ![d] = @ - current + future]
      /\ budget' = [budget EXCEPT ![from] = source, ![to] = destination]
      /\ source.allocated = budget[from].allocated - size
      /\ destination.allocated = budget[to].allocated + size
  BY Zenon DEF Moved
<1>2. charged[d] - current + future \in 0..Limit /\ future <= Limit
  BY Zenon, InvFacts, TransferFits DEF Moved
<1>3. charged' \in [Directions -> 0..Limit]
  BY <1>a, <1>1, <1>2
<1>4. source.charged \in Nat /\ destination.charged \in Nat /\ destination.minimum \in 0..Limit
      /\ destination.allocated \in Nat /\ destination.direction \in Directions
  BY LimitAssumption DEF Budget, WideBudget
<1>5. destination.charged \in 0..Limit /\ destination.allocated \in 0..Limit
  BY <1>a, <1>2, <1>4, LimitAssumption DEF Due, Larger
<1>6. destination \in Budget
  BY <1>4, <1>5 DEF WideBudget, Budget
<1>7. /\ budget' \in [Budgets -> Budget]
      /\ budget'[from] = source /\ budget'[to] = destination
      /\ \A x \in Budgets \ {from, to} : budget'[x] = budget[x]
  BY <1>a, <1>1, <1>6
<1>8. budget[from].allocated \in Nat /\ budget[to].allocated \in Nat /\ size \in Nat
  BY <1>1, LimitAssumption DEF Budget
<1>9. budget[from].allocated + budget[to].allocated = source.allocated + destination.allocated
  BY <1>a, <1>8
<1>10. /\ budget[from].direction = d /\ budget[to].direction = d
       /\ budget'[from].direction = d /\ budget'[to].direction = d
       /\ budget'[from].charged = Due(budget'[from].minimum, budget'[from].allocated)
       /\ budget'[to].charged = Due(budget'[to].minimum, budget'[to].allocated)
  BY Zenon, <1>7 DEF Moved
<1>11. /\ charged' = [charged EXCEPT ![d] = @ - (budget[from].charged + budget[to].charged)
                                              + (budget'[from].charged + budget'[to].charged)]
       /\ allocated' = allocated
  BY Zenon, <1>7 DEF Moved
<1>12. CountersAreSums' /\ ChargeIsDue'
  BY Zenon, <1>7, <1>9, <1>10, <1>11, InvFacts, StoreTwoKeepsCounters
<1> QED
  BY Zenon, <1>3, <1>7, <1>12

(* What a move does to a sum: it takes away, adds, or does neither. *)
LEMMA MoveArithmetic ==
  ASSUME NEW a \in Nat, NEW n \in Nat
  PROVE  a - n + 0 = a - n /\ a - 0 + n = a + n /\ a - 0 + 0 = a
  OBVIOUS

(* One block changes its owner, and the two budgets count it so. *)
LEMMA MovedBlocks ==
  ASSUME Inv, NEW p \in Blocks, NEW from \in Budgets, NEW to \in Budgets \ {from}, NEW size \in 0..Limit,
         NEW d \in Directions, NEW source \in Budget, NEW destination \in WideBudget,
         NEW current \in Nat, NEW future \in Nat,
         Moved(p, from, to, size, d, source, destination, current, future),
         budget'[from] = source /\ budget'[to] = destination,
         \A x \in Budgets \ {from, to} : budget'[x] = budget[x]
  PROVE  block' \in [Blocks -> Block] /\ BlocksAccounted' /\ FreeIsEmpty'
<1>1. block \in [Blocks -> Block] /\ budget \in [Budgets -> Budget]
  BY Zenon, InvFacts DEF TypeOK
<1>a. TypeOK
  BY Zenon, InvFacts
<1>2. PICK blk \in Block : /\ blk.owner = to /\ blk.size = size /\ blk.state = "live"
                           /\ block' = [block EXCEPT ![p] = blk]
  <2>1. /\ LiveBlock(to, size) \in Block /\ LiveBlock(to, size).owner = to
        /\ LiveBlock(to, size).size = size /\ LiveBlock(to, size).state = "live"
    BY DEF Block, BlockStates, LiveBlock
  <2> QED
    BY Zenon, <2>1 DEF Moved
<1>3. block' \in [Blocks -> Block]
  BY <1>1, <1>2
<1>4. FreeIsEmpty'
  BY <1>1, <1>2, InvFacts DEF FreeIsEmpty
<1>5. ASSUME NEW x \in Budgets
      PROVE  budget'[x].allocated = SumOf(BlocksOf(x), Limit)'
  <2>1. SumOf(BlocksOf(x), Limit)' = SumOf(BlocksOf(x), Limit)
           - (IF block[p].owner = x THEN block[p].size ELSE 0) + (IF blk.owner = x THEN blk.size ELSE 0)
    BY ZenonT(60), <1>a, <1>2, BlockUpdate
  <2>2. SumOf(BlocksOf(x), Limit) = budget[x].allocated
    BY Zenon, InvFacts DEF BlocksAccounted
  <2>3. budget[x].allocated \in Nat /\ size \in Nat
    BY <1>1, LimitAssumption DEF Budget
  <2>4. /\ block[p].owner = from /\ block[p].size = size
        /\ source.allocated = budget[from].allocated - size
        /\ destination.allocated = budget[to].allocated + size
    BY Zenon DEF Moved
  <2>5. SumOf(BlocksOf(x), Limit)' = budget[x].allocated - (IF from = x THEN size ELSE 0)
                                                         + (IF to = x THEN size ELSE 0)
    BY Zenon, <1>2, <2>1, <2>2, <2>4
  <2>6. CASE x = from
    <3>1. x # to
      BY Zenon, <2>6
    <3>2. SumOf(BlocksOf(x), Limit)' = budget[x].allocated - size + 0
      BY Zenon, <2>5, <2>6, <3>1
    <3> QED
      BY Zenon, <2>3, <2>4, <2>6, <3>2, MoveArithmetic
  <2>7. CASE x = to
    <3>1. x # from
      BY Zenon, <2>7
    <3>2. SumOf(BlocksOf(x), Limit)' = budget[x].allocated - 0 + size
      BY Zenon, <2>5, <2>7, <3>1
    <3> QED
      BY Zenon, <2>3, <2>4, <2>7, <3>2, MoveArithmetic
  <2>8. CASE x # from /\ x # to
    <3>1. SumOf(BlocksOf(x), Limit)' = budget[x].allocated - 0 + 0
      BY Zenon, <2>5, <2>8
    <3>2. budget'[x] = budget[x]
      BY Zenon, <2>8
    <3> QED
      BY Zenon, <2>3, <3>1, <3>2, MoveArithmetic
  <2> QED
    BY Zenon, <2>6, <2>7, <2>8
<1>6. BlocksAccounted'
  BY Zenon, <1>5 DEF BlocksAccounted
<1> QED
  BY Zenon, <1>3, <1>4, <1>6

(* Room that a move makes is announced by the budget that gave the block away. *)
LEMMA MovedWakeups ==
  ASSUME Inv, NEW p \in Blocks, NEW from \in Budgets, NEW to \in Budgets \ {from}, NEW size \in 0..Limit,
         NEW d \in Directions, NEW source \in Budget, NEW destination \in WideBudget,
         NEW current \in Nat, NEW future \in Nat,
         Moved(p, from, to, size, d, source, destination, current, future),
         budget'[from] = source,
         \A x \in Budgets \ {from, to} : budget'[x] = budget[x]
  PROVE  NoLostWakeup'
<1> SUFFICES ASSUME NEW w \in Waiters, pc[w] = "sleep", NEW e \in watching[w],
                    Limit - charged'[e] >= Wanted, ~woken[w]
             PROVE  \E x \in notify' : budget'[x].direction = e
  BY Zenon DEF NoLostWakeup, Moved, Room
<1>1. e \in Directions /\ charged \in [Directions -> 0..Limit] /\ notify \subseteq Budgets
  BY Zenon, InvFacts DEF TypeOK
<1>a. /\ budget'[from].direction = d /\ from \notin notify /\ to \notin notify
      /\ notify' = IF future < current THEN notify \cup {from} ELSE notify
      /\ charged' = [charged EXCEPT ![d] = @ - current + future]
  BY Zenon DEF Moved
<1>2. CASE e = d /\ future < current
  BY <1>a, <1>2
<1>3. CASE ~(e = d /\ future < current)
  <2>1. charged'[e] = IF e = d THEN charged[d] - current + future ELSE charged[e]
    BY <1>a, <1>1
  <2>2. charged[e] \in Int /\ charged[d] \in Int /\ Limit \in Nat /\ Wanted \in Nat
    BY <1>1, LimitAssumption, WantedAssumption
  <2>3. Room(e) >= Wanted
    BY <1>3, <2>1, <2>2 DEF Room
  <2>4. PICK x \in notify : budget[x].direction = e
    BY Zenon, <2>3, InvFacts DEF NoLostWakeup
  <2>5. x \in notify'
    BY <1>a
  <2>6. x \in Budgets \ {from, to}
    BY <1>a, <1>1
  <2> QED
    BY Zenon, <2>4, <2>5, <2>6
<1> QED
  BY Zenon, <1>2, <1>3

(* core_buffer_transfer: two budgets of one direction, one owner fewer and one *)
(* more, and the charge of both moved at once.                                 *)
LEMMA TransferKeepsInv ==
  ASSUME Inv, NEW p \in Blocks, NEW to \in Budgets, Transfer(p, to)
  PROVE  Inv'
<1>1. PICK from \in Budgets, size \in 0..Limit, d \in Directions,
           source \in Budget, destination \in WideBudget, current \in Nat, future \in Nat :
           to \in Budgets \ {from} /\ Moved(p, from, to, size, d, source, destination, current, future)
  BY Zenon, TransferMoves
<1>2. /\ budget' \in [Budgets -> Budget]
      /\ budget'[from] = source /\ budget'[to] = destination
      /\ \A x \in Budgets \ {from, to} : budget'[x] = budget[x]
      /\ charged' \in [Directions -> 0..Limit]
      /\ CountersAreSums'
      /\ ChargeIsDue'
  BY Zenon, <1>1, MovedCounters
<1>3. block' \in [Blocks -> Block] /\ BlocksAccounted' /\ FreeIsEmpty'
  BY Zenon, <1>1, <1>2, MovedBlocks
<1>4. NoLostWakeup'
  BY Zenon, <1>1, <1>2, MovedWakeups
<1>5. /\ allocated' = allocated /\ watching' = watching /\ woken' = woken /\ pc' = pc
      /\ notify' = IF future < current THEN notify \cup {from} ELSE notify
  BY Zenon, <1>1 DEF Moved
<1>6. TypeOK'
  <2>1. notify' \subseteq Budgets
    BY <1>5, InvFacts DEF TypeOK
  <2> QED
    BY Zenon, <1>2, <1>3, <1>5, <2>1, InvFacts DEF TypeOK
<1>7. NoRelayWaiter'
  BY Zenon, <1>5, InvFacts DEF NoRelayWaiter
<1> QED
  BY Zenon, <1>2, <1>3, <1>4, <1>6, <1>7 DEF Inv

(* malloc or realloc succeeded: states change, sizes and owners do not. *)
LEMMA MemoryObtainedKeepsInv ==
  ASSUME Inv, NEW p \in Blocks, MemoryObtained(p)
  PROVE  Inv'
<1>1. UNCHANGED <<budget, charged, allocated, notify, watching, woken, pc>>
  BY Zenon DEF MemoryObtained, waiterVars
<1>2. PICK q : block' = [x \in Blocks |-> CASE x = p -> LiveBlock(block[p].owner, block[p].size)
                                           [] x = q -> [block[q] EXCEPT !.state = "replaced"]
                                           [] OTHER -> block[x]]
  BY Zenon DEF MemoryObtained
<1>3. ASSUME NEW x \in Blocks
      PROVE  /\ block'[x] \in Block
             /\ block'[x].size = block[x].size
             /\ block'[x].owner = block[x].owner
             /\ block'[x].state # "none" \/ block'[x] = block[x]
  <2>1. block[x] \in Block
    BY Zenon, InvFacts DEF TypeOK
  <2>2. CASE x = p
    BY <1>2, <2>1, <2>2 DEF LiveBlock, Block, BlockStates
  <2>3. CASE x # p /\ x = q
    <3>1. block'[x] = [block[x] EXCEPT !.state = "replaced"]
      BY <1>2, <2>3
    <3> QED
      BY <2>1, <3>1 DEF Block, BlockStates
  <2>4. CASE x # p /\ x # q
    BY <1>2, <2>1, <2>4
  <2> QED
    BY Zenon, <2>2, <2>3, <2>4
<1>4. block' \in [Blocks -> Block]
  BY <1>2, <1>3
<1>5. TypeOK'
  BY Zenon, <1>1, <1>4, InvFacts DEF TypeOK
<1>6. CountersAreSums' /\ ChargeIsDue' /\ NoRelayWaiter' /\ NoLostWakeup'
  BY Zenon, <1>1, InvFacts, CountersFrame, WaitersFrame
<1>7. ASSUME NEW b \in Budgets
      PROVE  BlocksOf(b)' = BlocksOf(b)
  BY <1>3 DEF BlocksOf
<1>8. BlocksAccounted'
  BY Zenon, <1>1, <1>7, InvFacts DEF BlocksAccounted
<1>9. FreeIsEmpty'
  BY Zenon, <1>3, InvFacts DEF FreeIsEmpty
<1> QED
  BY Zenon, <1>5, <1>6, <1>8, <1>9 DEF Inv

(* notify_released wakes everyone registered for the direction. *)
LEMMA NotifyKeepsInv ==
  ASSUME Inv, NEW b \in Budgets, NotifyReleased(b)
  PROVE  Inv'
<1>1. UNCHANGED <<budget, charged, allocated, block, watching, pc>>
  BY Zenon DEF NotifyReleased
<1>2. woken \in [Waiters -> BOOLEAN] /\ notify \subseteq Budgets
  BY Zenon, InvFacts DEF TypeOK
<1>3. woken' \in [Waiters -> BOOLEAN] /\ notify' = notify \ {b}
  BY <1>2 DEF NotifyReleased
<1>4. TypeOK'
  <2>1. notify' \subseteq Budgets
    BY Zenon, <1>2, <1>3
  <2> QED
    BY Zenon, <1>1, <1>3, <2>1, InvFacts DEF TypeOK
<1>5. CountersAreSums' /\ ChargeIsDue' /\ BlocksAccounted' /\ FreeIsEmpty'
  BY Zenon, <1>1, InvFacts, CountersFrame, BlocksFrame
<1>6. NoRelayWaiter'
  BY Zenon, <1>1, InvFacts DEF NoRelayWaiter
<1>7. NoLostWakeup'
  <2> SUFFICES ASSUME NEW w \in Waiters, pc[w] = "sleep", NEW d \in watching[w],
                      Room(d) >= Wanted, ~woken'[w]
               PROVE  \E x \in notify' : budget[x].direction = d
    BY Zenon, <1>1 DEF NoLostWakeup, Room
  <2>1. d # Relay
    BY Zenon, InvFacts DEF NoRelayWaiter
  <2>2. woken'[w] = (woken[w] \/ (budget[b].direction # Relay /\ budget[b].direction \in watching[w]))
    BY Zenon DEF NotifyReleased
  <2>3. ~woken[w] /\ budget[b].direction # d
    BY Zenon, <2>1, <2>2
  <2>4. PICK x \in notify : budget[x].direction = d
    BY Zenon, <2>3, InvFacts DEF NoLostWakeup
  <2> QED
    BY Zenon, <1>3, <2>3, <2>4
<1> QED
  BY Zenon, <1>4, <1>5, <1>6, <1>7 DEF Inv

(* A waiting thread touches only its own registration, and looks again before it sleeps. *)
LEMMA WaiterKeepsInv ==
  ASSUME Inv, NEW w \in Waiters, WaiterStep(w)
  PROVE  Inv'
<1>1. UNCHANGED <<budget, charged, allocated, block, notify>>
  BY Zenon DEF WaiterStep, LookOnce, Watch, LookAgain, Wake
<1>2. /\ watching \in [Waiters -> SUBSET Directions]
      /\ woken \in [Waiters -> BOOLEAN]
      /\ pc \in [Waiters -> {"run", "short", "watch", "sleep"}]
  BY Zenon, InvFacts DEF TypeOK
<1> DEFINE Kept == /\ watching' \in [Waiters -> SUBSET Directions]
                   /\ woken' \in [Waiters -> BOOLEAN]
                   /\ pc' \in [Waiters -> {"run", "short", "watch", "sleep"}]
                   /\ \A v \in Waiters : Relay \notin watching[v] => Relay \notin watching'[v]
           Late == \A v \in Waiters : \A d \in watching'[v] :
                     pc'[v] = "sleep" /\ Room(d) >= Wanted /\ ~woken'[v]
                       => pc[v] = "sleep" /\ d \in watching[v] /\ ~woken[v]
<1>3. Kept /\ Late
  <2>1. ASSUME NEW d \in Directions, Watch(w, d)
        PROVE  Kept /\ Late
    BY <1>2, <2>1 DEF Watch
  <2>2. CASE LookAgain(w)
    BY <1>2, <2>2 DEF LookAgain
  <2>3. CASE Wake(w)
    BY <1>2, <2>3 DEF Wake
  <2>4. CASE LookOnce(w)
    BY <1>2, <2>4 DEF LookOnce
  <2> HIDE DEF Kept, Late
  <2> QED
    BY Zenon, <2>1, <2>2, <2>3, <2>4 DEF WaiterStep
<1>4. TypeOK'
  BY Zenon, <1>1, <1>3, InvFacts DEF TypeOK
<1>5. CountersAreSums' /\ ChargeIsDue' /\ BlocksAccounted' /\ FreeIsEmpty'
  BY Zenon, <1>1, InvFacts, CountersFrame, BlocksFrame
<1>6. NoRelayWaiter'
  BY Zenon, <1>3, InvFacts DEF NoRelayWaiter
<1>7. NoLostWakeup'
  <2> SUFFICES ASSUME NEW v \in Waiters, pc'[v] = "sleep", NEW d \in watching'[v],
                      Room(d) >= Wanted, ~woken'[v]
               PROVE  \E x \in notify : budget[x].direction = d
    BY Zenon, <1>1 DEF NoLostWakeup, Room
  <2>1. pc[v] = "sleep" /\ d \in watching[v] /\ ~woken[v]
    BY Zenon, <1>3
  <2> QED
    BY Zenon, <2>1, InvFacts DEF NoLostWakeup
<1> QED
  BY Zenon, <1>4, <1>5, <1>6, <1>7 DEF Inv

-----------------------------------------------------------------------------
(* The budget is safe in every reachable state: the counters are the sums, *)
(* nothing passes the limit or wraps below zero, every charge is due, every *)
(* block is accounted for and no waiter sleeps through the room it needs.   *)
THEOREM BudgetSafe == Spec => []Inv
<1>1. Init => Inv
  <2> SUFFICES ASSUME Init
               PROVE  Inv
    OBVIOUS
  <2> USE LimitAssumption, BudgetsAssumption, DirectionsAssumption
  <2>1. TypeOK
    BY DEF Init, TypeOK, NullBudget, NullBlock, Budget, Block, BlockStates
  <2>2. \A d \in Directions : ChargedOf(d) = [b \in Budgets |-> 0] /\ AllocatedOf(d) = [b \in Budgets |-> 0]
    BY DEF Init, NullBudget, ChargedOf, AllocatedOf
  <2>3. CountersAreSums
    BY <2>2, SumZero DEF CountersAreSums, Init
  <2>4. \A b \in Budgets : BlocksOf(b) = [p \in Blocks |-> 0]
    BY DEF Init, NullBlock, BlocksOf
  <2>5. BlocksAccounted
    BY <2>4, SumZero DEF BlocksAccounted, Init, NullBudget
  <2>6. ChargeIsDue /\ FreeIsEmpty /\ NoRelayWaiter /\ NoLostWakeup
    BY DEF Init, NullBudget, NullBlock, ChargeIsDue, Due, Larger, FreeIsEmpty, NoRelayWaiter, NoLostWakeup
  <2> QED
    BY <2>1, <2>3, <2>5, <2>6 DEF Inv
<1>2. Inv /\ [Next]_vars => Inv'
  <2> SUFFICES ASSUME Inv, [Next]_vars
               PROVE  Inv'
    OBVIOUS
  <2> USE LimitAssumption, SizesAssumption, NoBlockAssumption
  <2>1. CASE UNCHANGED vars
    <3>1. UNCHANGED <<budget, charged, allocated, block, notify, watching, woken, pc>>
      BY Zenon, <2>1 DEF vars
    <3>2. TypeOK'
      BY Zenon, <3>1, InvFacts DEF TypeOK
    <3>3. CountersAreSums' /\ ChargeIsDue' /\ BlocksAccounted' /\ FreeIsEmpty' /\ NoRelayWaiter' /\ NoLostWakeup'
      BY Zenon, <3>1, InvFacts, CountersFrame, BlocksFrame, WaitersFrame
    <3> QED
      BY Zenon, <3>2, <3>3 DEF Inv
  <2>2. ASSUME NEW b \in Budgets, BudgetClear(b)
        PROVE  Inv'
    <3>1. budget[b].direction \in Directions
      BY DEF Inv, TypeOK, Budget
    <3> QED
      BY <2>2, <3>1, BudgetInitKeepsInv DEF BudgetClear
  <2>3. ASSUME NEW b \in Budgets, NEW d \in Directions, NEW m \in Sizes \cup {0}, BudgetInit(b, d, m)
        PROVE  Inv'
    <3>1. m \in 0..Limit
      OBVIOUS
    <3> QED
      BY <2>3, <3>1, BudgetInitKeepsInv
  <2>4. ASSUME NEW b \in Budgets, NEW p \in Blocks, NEW s \in Sizes,
               AllocClaim(b, p, s) \/ Hold(b, p, s)
        PROVE  Inv'
    BY <2>4, ClaimKeepsInv DEF AllocClaim, Hold, BlockStates
  <2>5. ASSUME NEW p \in Blocks, NEW q \in Blocks, NEW s \in Sizes, ReallocClaim(p, q, s)
        PROVE  Inv'
    <3>1. block[q].owner \in Budgets
      BY DEF Inv, TypeOK, Block
    <3> QED
      BY <2>5, <3>1, ClaimKeepsInv DEF ReallocClaim, BlockStates
  <2>6. ASSUME NEW p \in Blocks, MemoryObtained(p)
        PROVE  Inv'
    BY <2>6, MemoryObtainedKeepsInv
  <2>7. ASSUME NEW p \in Blocks, MemoryRefused(p) \/ ReallocRelease(p) \/ Free(p)
        PROVE  Inv'
    BY <2>7, ReleaseKeepsInv DEF MemoryRefused, ReallocRelease, Free
  <2>8. ASSUME NEW p \in Blocks, NEW b \in Budgets, Transfer(p, b)
        PROVE  Inv'
    BY <2>8, TransferKeepsInv
  <2>9. ASSUME NEW b \in Budgets, NotifyReleased(b)
        PROVE  Inv'
    BY <2>9, NotifyKeepsInv
  <2>10. ASSUME NEW w \in Waiters, WaiterStep(w)
         PROVE  Inv'
    BY <2>10, WaiterKeepsInv
  <2> QED
    BY <2>1, <2>2, <2>3, <2>4, <2>5, <2>6, <2>7, <2>8, <2>9, <2>10 DEF Next, BudgetStep
<1> QED
  BY <1>1, <1>2, PTL DEF Spec

(* core_buffer_watch, the second look and notify_released lose no wakeup. *)
THEOREM WakeupsNotLost == Spec => []NoLostWakeup
<1>1. Inv => NoLostWakeup
  BY DEF Inv
<1> QED
  BY <1>1, BudgetSafe, PTL

(* A claim within the minimum of its budget is never refused. *)
THEOREM ReserveHolds == Spec => []MinimumGuaranteed
<1>1. Inv => MinimumGuaranteed
  <2> SUFFICES ASSUME Inv, NEW b \in Budgets, NEW size \in 1..(budget[b].minimum - budget[b].allocated)
               PROVE  Fits(Claimed(budget[b], size).charged - budget[b].charged, charged[budget[b].direction])
    BY DEF MinimumGuaranteed
  <2> USE LimitAssumption
  <2>1. budget[b] \in Budget /\ budget[b].minimum \in Nat /\ budget[b].allocated \in Nat
        /\ budget[b].direction \in Directions
    BY DEF Inv, TypeOK, Budget
  <2>2. budget[b].charged = Due(budget[b].minimum, budget[b].allocated) /\ size \in Nat
        /\ budget[b].allocated + size <= budget[b].minimum
    BY <2>1 DEF Inv, ChargeIsDue
  <2>3. Claimed(budget[b], size).charged = Due(budget[b].minimum, budget[b].allocated + size)
    BY SMTT(60), <2>1, <2>2, ClaimedIsDue
  <2>4. Claimed(budget[b], size).charged = budget[b].charged
    BY <2>1, <2>2, <2>3 DEF Due, Larger
  <2>5. charged[budget[b].direction] \in 0..Limit
    BY <2>1 DEF Inv, TypeOK
  <2> QED
    BY <2>1, <2>2, <2>4, <2>5 DEF Fits, Due, Larger
<1> QED
  BY <1>1, BudgetSafe, PTL

(* The memory of the process is accounted for: allocated[] and charged[] are  *)
(* the sums over the budgets, a budget counts exactly its blocks, whatever    *)
(* core_buffer_realloc and malloc interleave with, and its minimum is there.  *)
THEOREM MemoryExact == Spec => []MemoryAccounted
<1>1. Inv /\ MinimumGuaranteed => MemoryAccounted
  BY DEF Inv, MemoryAccounted
<1> QED
  BY <1>1, BudgetSafe, ReserveHolds, PTL
=============================================================================
