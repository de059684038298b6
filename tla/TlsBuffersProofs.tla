-------------------------- MODULE TlsBuffersProofs --------------------------
(***************************************************************************)
(* The limits of the TLS handshake memory, for any connections, buffers,   *)
(* limits and sizes.                                                       *)
(***************************************************************************)
EXTENDS TlsBuffers, FiniteSetTheorems, TLAPS

(* Where a buffer can be between the sections of db_reserve and db_free. *)
Shape(b) ==
    /\ tls_budget[b] \/ (cap[b] = 0 /\ growth[b] = 0)
    /\ tls_budget[b] /\ growth[b] = 0 => memory[b] = cap[b]
    /\ growth[b] # 0 => /\ cap[b] < growth[b] /\ growth[b] <= BufferLimit[b]
                        /\ len[b] + added[b] <= growth[b]
                        /\ memory[b] \in {cap[b], cap[b] + growth[b]}

Working(b) == growth[b] # 0 \/ memory[b] # cap[b]

OneAtATime ==
    \A b1, b2 \in Buffers : Working(b1) /\ Working(b2) /\ Conn[b1] = Conn[b2] => b1 = b2

(* The inductive invariant. *)
Inv == TlsTypeOK /\ TlsCountersAreSums /\ (\A b \in Buffers : Shape(b)) /\ OneAtATime

-----------------------------------------------------------------------------
(* The constants, as the leaves below use them. *)
LEMMA Limits ==
  ASSUME NEW b \in Buffers
  PROVE  /\ BufferLimit[b] \in Nat /\ BufferLimit[b] <= ConnectionLimit
         /\ ConnectionLimit \in Nat /\ TotalLimit \in Nat /\ Wide \in Nat
         /\ Conn[b] \in Connections
BY SetsAssumption, LimitsAssumption DEF Wide

(* The doubling loop of db_reserve ends at a capacity that holds what is *)
(* needed and does not pass the limit of the buffer.                     *)
LEMMA CapacityHolds ==
  ASSUME TlsTypeOK, NEW b \in Buffers, NEW need \in Nat, need <= BufferLimit[b]
  PROVE  Capacity(b, need) \in Nat /\ need <= Capacity(b, need) /\ Capacity(b, need) <= BufferLimit[b]
<1> DEFINE start == IF cap[b] = 0 THEN First ELSE cap[b]
           R == {n \in need..(2 * need + start) : (\E k \in 0..Doublings : n = start * 2^k) /\ (n = start \/ n < 2 * need)}
           d == IF R = {} THEN need ELSE CHOOSE n \in R : TRUE
<1>1. start \in Nat
  BY AppendsAssumption DEF TlsTypeOK
<1>2. \A n \in R : n \in Nat /\ need <= n
  BY <1>1
<1>3. d \in Nat /\ need <= d
  <2> HIDE DEF R
  <2> QED
    BY <1>2
<1>4. Doubled(start, need) = d
  BY DEF Doubled
<1> HIDE DEF d, start
<1>5. Capacity(b, need) = IF d > BufferLimit[b] THEN BufferLimit[b] ELSE d
  BY <1>4 DEF Capacity, start
<1> QED
  BY <1>3, <1>5, Limits

(* What the counters hold when one buffer's share of them changes. *)
LEMMA SharesTyped ==
  ASSUME TlsTypeOK
  PROVE  /\ TlsCharged \in [Buffers -> 0..Wide]
         /\ \A c \in Connections : TlsChargedTo(c) \in [Buffers -> 0..Wide]
<1>1. \A b \in Buffers : /\ cap[b] \in 0..ConnectionLimit /\ growth[b] \in 0..ConnectionLimit
                         /\ cap[b] + growth[b] \in 0..Wide
                         /\ Kept(cap[b], growth[b]) \in 0..Wide
  BY LimitsAssumption DEF TlsTypeOK, Wide, Kept
<1>2. ConnectionLimit \in Nat /\ 0 \in 0..Wide
  BY LimitsAssumption DEF Wide
<1>3. TlsCharged \in [Buffers -> 0..Wide]
  BY <1>1 DEF TlsCharged
<1>4. ASSUME NEW c \in Connections PROVE TlsChargedTo(c) \in [Buffers -> 0..Wide]
  BY <1>1, <1>2 DEF TlsChargedTo
<1> QED
  BY <1>3, <1>4

(* The cells of the other buffers in the chart of a sum. *)
Others(f, b) == {c \in Cells(f, Wide) : c[1] # b}

(* A chart is finite, and is the column of one buffer and the cells of the *)
(* others.                                                                 *)
LEMMA ShareSplit ==
  ASSUME NEW b \in Buffers, NEW f \in [Buffers -> 0..Wide]
  PROVE  /\ IsFiniteSet(Cells(f, Wide)) /\ SumOf(f, Wide) \in Nat /\ f[b] \in Nat
         /\ Cardinality(Others(f, b)) \in Nat
         /\ SumOf(f, Wide) = Cardinality(Others(f, b)) + f[b]
<1> DEFINE R == Others(f, b)
           C == {b} \X (1..f[b])
<1>1. IsFiniteSet(Buffers) /\ Wide \in Nat
  BY SetsAssumption, Limits
<1>2. f[b] \in Nat /\ f[b] <= Wide
  BY <1>1
<1>3. IsFiniteSet(Cells(f, Wide))
  <2>1. IsFiniteSet(1..Wide)
    BY <1>1, FS_Interval
  <2>2. IsFiniteSet(Buffers \X (1..Wide))
    BY Zenon, <1>1, <2>1, FS_Product
  <2>3. Cells(f, Wide) \in SUBSET (Buffers \X (1..Wide))
    BY DEF Cells
  <2> QED
    BY Zenon, <2>2, <2>3, FS_Subset
<1>4. IsFiniteSet(R) /\ Cardinality(R) \in Nat
  <2>1. R \in SUBSET Cells(f, Wide)
    BY DEF Others
  <2> QED
    BY Zenon, <1>3, <2>1, FS_Subset, FS_CardinalityType
<1>5. IsFiniteSet(C) /\ Cardinality(C) = f[b]
  <2>1. IsFiniteSet({b}) /\ Cardinality({b}) = 1
    BY Zenon, FS_Singleton
  <2>2. IsFiniteSet(1..f[b]) /\ Cardinality(1..f[b]) = f[b]
    BY <1>2, FS_Interval
  <2>3. IsFiniteSet(C) /\ Cardinality(C) = Cardinality({b}) * Cardinality(1..f[b])
    BY Zenon, <2>1, <2>2, FS_Product
  <2> QED
    BY <1>2, <2>1, <2>2, <2>3
<1>6. Cells(f, Wide) = R \cup C /\ R \cap C = {}
  BY <1>1, <1>2 DEF Cells, Others
<1> HIDE DEF R, C
<1>7. Cardinality(R \cup C) = Cardinality(R) + Cardinality(C) - Cardinality(R \cap C)
  BY Zenon, <1>4, <1>5, FS_Union
<1>8. Cardinality(R \cap C) = 0
  BY <1>6, FS_EmptySet
<1>9. SumOf(f, Wide) = Cardinality(R) + f[b]
  BY <1>2, <1>4, <1>5, <1>6, <1>7, <1>8 DEF SumOf
<1> QED
  BY <1>2, <1>3, <1>4, <1>9 DEF R

(* A sum over the buffers when the value of one of them changes. *)
LEMMA ShareUpdate ==
  ASSUME NEW b \in Buffers, NEW f \in [Buffers -> 0..Wide], NEW g \in [Buffers -> 0..Wide],
         \A y \in Buffers \ {b} : g[y] = f[y]
  PROVE  SumOf(g, Wide) = SumOf(f, Wide) - f[b] + g[b]
<1>1. Others(f, b) = Others(g, b)
  BY DEF Others, Cells
<1> QED
  BY <1>1, ShareSplit

(* A sum over the buffers is a number, zero if there is nothing to add, and *)
(* bounds its parts.                                                        *)
LEMMA ShareSum ==
  ASSUME NEW f \in [Buffers -> 0..Wide]
  PROVE  /\ IsFiniteSet(Cells(f, Wide)) /\ SumOf(f, Wide) \in Nat
         /\ (\A b \in Buffers : f[b] = 0) => SumOf(f, Wide) = 0
         /\ \A b \in Buffers : f[b] <= SumOf(f, Wide)
<1>1. CASE Buffers = {}
  <2>1. Cells(f, Wide) = {}
    BY <1>1 DEF Cells
  <2> QED
    BY <1>1, <2>1, FS_EmptySet DEF SumOf
<1>2. CASE Buffers # {}
  <2>1. (\A b \in Buffers : f[b] = 0) => Cells(f, Wide) = {}
    BY DEF Cells
  <2>2. (\A b \in Buffers : f[b] = 0) => SumOf(f, Wide) = 0
    BY <2>1, FS_EmptySet DEF SumOf
  <2>3. \A b \in Buffers : f[b] <= SumOf(f, Wide)
    BY ShareSplit
  <2> QED
    BY <1>2, <2>2, <2>3, ShareSplit
<1> QED
  BY <1>1, <1>2

(* Smaller shares have a smaller sum. *)
LEMMA ShareMonotone ==
  ASSUME NEW f \in [Buffers -> 0..Wide], NEW g \in [Buffers -> 0..Wide], \A b \in Buffers : f[b] <= g[b]
  PROVE  SumOf(f, Wide) <= SumOf(g, Wide)
<1>1. Cells(f, Wide) \in SUBSET Cells(g, Wide) /\ Wide \in Nat
  BY LimitsAssumption DEF Cells, Wide
<1>2. IsFiniteSet(Cells(g, Wide))
  BY Zenon, ShareSum
<1> QED
  BY <1>1, <1>2, FS_Subset DEF SumOf

(* A buffer is never charged more than the counters hold. *)
LEMMA ShareBound ==
  ASSUME TlsTypeOK, TlsCountersAreSums, NEW b \in Buffers
  PROVE  /\ cap[b] + growth[b] <= tls_buffer_bytes
         /\ b \in Counted => Kept(cap[b], growth[b]) <= tls_handshake_bytes[Conn[b]]
<1> USE SetsAssumption
<1>1. Wide \in Nat /\ Conn[b] \in Connections
  BY Limits
<1>2. TlsCharged[b] <= SumOf(TlsCharged, Wide)
  BY <1>1, SharesTyped, ShareSum
<1>3. TlsChargedTo(Conn[b])[b] <= SumOf(TlsChargedTo(Conn[b]), Wide)
  BY <1>1, SharesTyped, ShareSum
<1>4. TlsCharged[b] = cap[b] + growth[b]
  BY DEF TlsCharged
<1>5. b \in Counted => TlsChargedTo(Conn[b])[b] = Kept(cap[b], growth[b])
  BY DEF TlsChargedTo
<1> QED
  BY <1>1, <1>2, <1>3, <1>4, <1>5 DEF TlsCountersAreSums

(* A section that changes the share of one buffer and both counters by the *)
(* same amount keeps the counters exact.                                   *)
LEMMA Recharge ==
  ASSUME TlsTypeOK, TlsCountersAreSums, NEW b \in Buffers,
         cap' \in [Buffers -> 0..ConnectionLimit], growth' \in [Buffers -> 0..ConnectionLimit],
         \A y \in Buffers \ {b} : cap'[y] = cap[y] /\ growth'[y] = growth[y],
         tls_buffer_bytes' = tls_buffer_bytes + (cap'[b] + growth'[b]) - (cap[b] + growth[b]),
         tls_handshake_bytes' = Charge(Conn[b], b, Kept(cap'[b], growth'[b]) - Kept(cap[b], growth[b]))
  PROVE  TlsCountersAreSums'
<1> USE SetsAssumption
<1>1. Wide \in Nat /\ Conn[b] \in Connections
  BY Limits
<1>2. /\ TlsCharged \in [Buffers -> 0..Wide]
      /\ \A c \in Connections : TlsChargedTo(c) \in [Buffers -> 0..Wide]
  BY SharesTyped
<1>3. \A x \in Buffers : /\ cap'[x] + growth'[x] \in 0..Wide
                         /\ Kept(cap'[x], growth'[x]) \in 0..Wide
  BY LimitsAssumption DEF Wide, Kept
<1>4. TlsCharged' \in [Buffers -> 0..Wide] /\ 0 \in 0..Wide
  BY <1>1, <1>3 DEF TlsCharged
<1>5. \A c \in Connections : TlsChargedTo(c)' \in [Buffers -> 0..Wide]
  BY <1>3, <1>4 DEF TlsChargedTo
<1>6. SumOf(TlsCharged', Wide) = SumOf(TlsCharged, Wide) - TlsCharged[b] + TlsCharged'[b]
  <2>1. \A y \in Buffers \ {b} : TlsCharged'[y] = TlsCharged[y]
    BY DEF TlsCharged
  <2>2. PICK f \in [Buffers -> 0..Wide] : f = TlsCharged
    BY <1>2
  <2>3. PICK g \in [Buffers -> 0..Wide] : g = TlsCharged'
    BY <1>4
  <2>4. SumOf(g, Wide) = SumOf(f, Wide) - f[b] + g[b]
    BY <2>1, <2>2, <2>3, ShareUpdate
  <2> QED
    BY <2>2, <2>3, <2>4
<1>7. ASSUME NEW c \in Connections
      PROVE  SumOf(TlsChargedTo(c)', Wide) = SumOf(TlsChargedTo(c), Wide) - TlsChargedTo(c)[b] + TlsChargedTo(c)'[b]
  <2>1. \A y \in Buffers \ {b} : TlsChargedTo(c)'[y] = TlsChargedTo(c)[y]
    BY DEF TlsChargedTo
  <2>2. PICK f \in [Buffers -> 0..Wide] : f = TlsChargedTo(c)
    BY <1>2
  <2>3. PICK g \in [Buffers -> 0..Wide] : g = TlsChargedTo(c)'
    BY <1>5
  <2>4. SumOf(g, Wide) = SumOf(f, Wide) - f[b] + g[b]
    BY <2>1, <2>2, <2>3, ShareUpdate
  <2> QED
    BY <2>2, <2>3, <2>4
<1>8. SumOf(TlsCharged, Wide) \in Nat /\ \A c \in Connections : SumOf(TlsChargedTo(c), Wide) \in Nat
  BY <1>1, <1>2, ShareSum
<1>9. tls_buffer_bytes' = SumOf(TlsCharged', Wide)
  <2>1. TlsCharged[b] = cap[b] + growth[b] /\ TlsCharged'[b] = cap'[b] + growth'[b]
    BY DEF TlsCharged
  <2>2. TlsCharged[b] \in 0..Wide /\ TlsCharged'[b] \in 0..Wide
    BY <1>2, <1>4
  <2> QED
    BY <1>1, <1>6, <1>8, <2>1, <2>2 DEF TlsCountersAreSums
<1>10. ASSUME NEW c \in Connections
       PROVE  tls_handshake_bytes'[c] = SumOf(TlsChargedTo(c)', Wide)
  <2>1. TlsChargedTo(c)[b] \in 0..Wide /\ TlsChargedTo(c)'[b] \in 0..Wide
    BY <1>2, <1>5
  <2>2. CASE b \in Counted /\ Conn[b] = c
    <3>1. TlsChargedTo(c)[b] = Kept(cap[b], growth[b]) /\ TlsChargedTo(c)'[b] = Kept(cap'[b], growth'[b])
      BY <2>2 DEF TlsChargedTo
    <3>2. tls_handshake_bytes'[c] = tls_handshake_bytes[c] + (Kept(cap'[b], growth'[b]) - Kept(cap[b], growth[b]))
      BY <2>2 DEF Charge, TlsTypeOK
    <3> QED
      BY <1>1, <1>7, <1>8, <2>1, <3>1, <3>2 DEF TlsCountersAreSums
  <2>3. CASE ~(b \in Counted /\ Conn[b] = c)
    <3>1. TlsChargedTo(c)[b] = 0 /\ TlsChargedTo(c)'[b] = 0
      BY <2>3 DEF TlsChargedTo
    <3>2. tls_handshake_bytes'[c] = tls_handshake_bytes[c]
      BY <2>3, <1>1 DEF Charge, TlsTypeOK
    <3> QED
      BY <1>7, <1>8, <3>1, <3>2 DEF TlsCountersAreSums
  <2> QED
    BY <2>2, <2>3
<1> QED
  <2>1. tls_buffer_bytes' = SumOf(TlsCharged, Wide)'
    BY <1>9 DEF SumOf, Cells, Wide
  <2> QED
    BY <1>9, <1>10 DEF TlsCountersAreSums, Wide

-----------------------------------------------------------------------------
(* The initial state satisfies the invariant. *)
LEMMA InitInv == TlsInit => Inv
<1> SUFFICES ASSUME TlsInit PROVE Inv
  OBVIOUS
<1> USE SetsAssumption, LimitsAssumption
<1>1. Wide \in Nat /\ 0 \in 0..Wide
  BY DEF Wide
<1>2. TlsCharged = [b \in Buffers |-> 0]
  BY DEF TlsInit, Zero, TlsCharged
<1>3. \A c \in Connections : TlsChargedTo(c) = [b \in Buffers |-> 0]
  BY DEF TlsInit, Zero, TlsChargedTo, Kept
<1>4. SumOf([b \in Buffers |-> 0], Wide) = 0
  <2> DEFINE zero == [b \in Buffers |-> 0]
  <2>1. zero \in [Buffers -> 0..Wide] /\ \A b \in Buffers : zero[b] = 0
    BY <1>1
  <2> HIDE DEF zero
  <2>2. SumOf(zero, Wide) = 0
    BY <2>1, ShareSum
  <2> QED
    BY <2>2 DEF zero
<1>5. TlsCountersAreSums
  BY <1>2, <1>3, <1>4 DEF TlsCountersAreSums, TlsInit
<1>6. TlsTypeOK
  BY <1>1 DEF TlsTypeOK, TlsInit, Zero
<1>7. \A b \in Buffers : Shape(b)
  BY DEF Shape, TlsInit, Zero
<1>8. OneAtATime
  BY DEF OneAtATime, Working, TlsInit, Zero
<1> QED
  BY <1>5, <1>6, <1>7, <1>8 DEF Inv

(* A section that puts buffer b into a state of the right shape, leaves the *)
(* other buffers alone and keeps the counters exact, keeps the invariant,    *)
(* provided the thread of b was free or already working on b.               *)
LEMMA OneBuffer ==
  ASSUME Inv, NEW b \in Buffers, TlsTypeOK', TlsCountersAreSums', Shape(b)',
         ~BusyConnection(Conn[b]) \/ Working(b),
         \A y \in Buffers \ {b} : /\ tls_budget'[y] = tls_budget[y] /\ len'[y] = len[y]
                                 /\ cap'[y] = cap[y] /\ growth'[y] = growth[y]
                                 /\ added'[y] = added[y] /\ memory'[y] = memory[y]
  PROVE  Inv'
<1>1. \A y \in Buffers : Shape(y)'
  <2>1. ASSUME NEW y \in Buffers \ {b} PROVE Shape(y)'
    <3>1. Shape(y)
      BY DEF Inv
    <3> QED
      BY <3>1 DEF Shape
  <2> QED
    BY <2>1
<1>2. \A y \in Buffers \ {b} : Working(y)' => Working(y)
  BY DEF Working
<1>3. \A y \in Buffers \ {b} : Working(y) => Conn[y] # Conn[b]
  <2>1. CASE ~BusyConnection(Conn[b])
    BY <2>1 DEF BusyConnection, Working
  <2>2. CASE Working(b)
    BY <2>2 DEF Inv, OneAtATime
  <2> QED
    BY <2>1, <2>2
<1>4. OneAtATime'
  <2> SUFFICES ASSUME NEW b1 \in Buffers, NEW b2 \in Buffers, Working(b1)', Working(b2)',
                      Conn[b1] = Conn[b2]
               PROVE  b1 = b2
    BY DEF OneAtATime
  <2>1. CASE b1 # b /\ b2 # b
    BY <1>2, <2>1 DEF Inv, OneAtATime
  <2>2. CASE b1 = b \/ b2 = b
    BY <1>2, <1>3, <2>2
  <2> QED
    BY <2>1, <2>2
<1> QED
  BY <1>1, <1>4 DEF Inv

(* Charging a connection keeps its counter typed while it stays in range. *)
LEMMA ChargeTyped ==
  ASSUME TlsTypeOK, NEW b \in Buffers, NEW size \in Int,
         b \in Counted => tls_handshake_bytes[Conn[b]] + size \in 0..ConnectionLimit
  PROVE  Charge(Conn[b], b, size) \in [Connections -> 0..ConnectionLimit]
BY Limits DEF TlsTypeOK, Charge

(* A section that leaves the counters, cap and growth alone keeps them exact. *)
LEMMA Untouched ==
  ASSUME TlsCountersAreSums, UNCHANGED <<cap, growth, tls_buffer_bytes, tls_handshake_bytes>>
  PROVE  TlsCountersAreSums'
<1>1. TlsCharged' = TlsCharged /\ \A c \in Connections : TlsChargedTo(c)' = TlsChargedTo(c)
  BY DEF TlsCharged, TlsChargedTo
<1> QED
  BY <1>1 DEF TlsCountersAreSums, Wide

(* tls_buffer_init puts an empty buffer under the budget. *)
LEMMA TlsBufferInitInv ==
  ASSUME Inv, NEW b \in Buffers, TlsBufferInit(b)
  PROVE  Inv'
<1> USE DEF Inv
<1>1. Shape(b) /\ cap[b] = 0 /\ growth[b] = 0 /\ memory[b] = 0
  BY DEF Shape, TlsBufferInit, BusyConnection
<1>2. UNCHANGED <<cap, growth, tls_buffer_bytes, tls_handshake_bytes>>
  BY <1>1 DEF TlsBufferInit, Charge, TlsTypeOK
<1>3. TlsTypeOK'
  BY <1>2 DEF TlsTypeOK, TlsBufferInit
<1>4. TlsCountersAreSums'
  BY <1>2, Untouched
<1>5. Shape(b)'
  BY <1>1, <1>2 DEF Shape, TlsBufferInit
<1> HIDE DEF Inv
<1> QED
  BY Zenon, <1>3, <1>4, <1>5, OneBuffer DEF TlsBufferInit, Inv, TlsTypeOK

(* db_append into the room there is, and db_consume, change the length alone. *)
LEMMA LengthInv ==
  ASSUME Inv, NEW b \in Buffers, NEW n \in Appends, DbAppend(b, n) \/ DbConsume(b, n)
  PROVE  Inv'
<1> n \in Nat
  BY AppendsAssumption
<1>1. UNCHANGED <<tls_budget, cap, growth, added, memory, tls_buffer_bytes, tls_handshake_bytes>>
  BY DEF DbAppend, DbConsume
<1>2. ~BusyConnection(Conn[b]) /\ growth[b] = 0
  BY DEF DbAppend, DbConsume, BusyConnection
<1>3. len[b] \in Nat /\ cap[b] \in 0..ConnectionLimit /\ len[b] <= cap[b] /\ len \in [Buffers -> 0..ConnectionLimit]
  BY DEF Inv, TlsTypeOK
<1>4. len'[b] <= cap[b] /\ (\A y \in Buffers \ {b} : len'[y] = len[y]) /\ len' \in [Buffers -> 0..ConnectionLimit]
  <2>1. CASE DbAppend(b, n)
    BY <1>3, <2>1, LimitsAssumption DEF DbAppend
  <2>2. CASE DbConsume(b, n)
    BY <1>3, <2>2, LimitsAssumption DEF DbConsume
  <2> QED
    BY <2>1, <2>2
<1>5. TlsTypeOK'
  BY <1>1, <1>4 DEF Inv, TlsTypeOK
<1>6. TlsCountersAreSums'
  BY <1>1, Untouched DEF Inv
<1>7. Shape(b)'
  BY <1>1, <1>2 DEF Inv, Shape
<1> QED
  BY <1>1, <1>2, <1>4, <1>5, <1>6, <1>7, OneBuffer

(* malloc gives the new block, and db_free gives a block back: memory alone. *)
LEMMA MemoryInv ==
  ASSUME Inv, NEW b \in Buffers, Allocate(b) \/ FreeBlock(b)
  PROVE  Inv'
<1>1. UNCHANGED <<tls_budget, len, cap, growth, added, tls_buffer_bytes, tls_handshake_bytes>>
  BY DEF Allocate, FreeBlock
<1>2. Working(b) /\ Shape(b) /\ cap[b] \in 0..ConnectionLimit /\ growth[b] \in 0..ConnectionLimit
      /\ memory \in [Buffers -> 0..Wide]
  BY DEF Allocate, FreeBlock, Working, Inv, TlsTypeOK
<1>3. /\ memory' \in [Buffers -> 0..Wide] /\ \A y \in Buffers \ {b} : memory'[y] = memory[y]
      /\ \/ growth[b] # 0 /\ memory'[b] = cap[b] + growth[b]
         \/ growth[b] = 0 /\ cap[b] = 0 /\ memory'[b] = 0
  <2>1. CASE Allocate(b)
    BY <1>2, <2>1, LimitsAssumption DEF Allocate, Wide
  <2>2. CASE FreeBlock(b)
    BY <1>2, <2>2, LimitsAssumption DEF FreeBlock, Wide, Shape
  <2> QED
    BY <2>1, <2>2
<1>5. TlsTypeOK'
  BY <1>1, <1>3 DEF Inv, TlsTypeOK
<1>6. TlsCountersAreSums'
  BY <1>1, Untouched DEF Inv
<1>7. Shape(b)'
  BY <1>1, <1>2, <1>3 DEF Shape
<1> QED
  BY <1>1, <1>2, <1>3, <1>5, <1>6, <1>7, OneBuffer

(* The first section of db_reserve charges the new block. *)
LEMMA ReserveInv ==
  ASSUME Inv, NEW b \in Buffers, NEW n \in Appends, DbReserve(b, n)
  PROVE  Inv'
<1> n \in Nat /\ n # 0
  BY AppendsAssumption
<1>1. /\ cap[b] \in 0..ConnectionLimit /\ len[b] \in Nat /\ growth[b] = 0 /\ memory[b] = cap[b] /\ tls_budget[b]
      /\ TlsTypeOK /\ TlsCountersAreSums /\ ~BusyConnection(Conn[b])
  BY DEF Inv, TlsTypeOK, DbReserve, BusyConnection
<1>2. PICK size \in Nat : /\ size = Capacity(b, len[b] + n)
                         /\ len[b] + n <= size /\ size <= BufferLimit[b]
  <2>1. len[b] + n <= BufferLimit[b]
    BY Zenon DEF DbReserve
  <2>2. len[b] + n \in Nat
    BY <1>1
  <2> QED
    BY Zenon, <1>1, <2>1, <2>2, CapacityHolds
<1>3. /\ TlsRoom(b, size) /\ cap[b] < size /\ size \in 0..ConnectionLimit
      /\ growth' = [growth EXCEPT ![b] = size] /\ added' = [added EXCEPT ![b] = n]
      /\ tls_buffer_bytes' = tls_buffer_bytes + size
      /\ tls_handshake_bytes' = Charge(Conn[b], b, size - cap[b])
      /\ UNCHANGED <<tls_budget, len, cap, memory>>
  <2>1. /\ TlsRoom(b, size) /\ len[b] + n > cap[b]
        /\ growth' = [growth EXCEPT ![b] = size] /\ added' = [added EXCEPT ![b] = n]
        /\ tls_buffer_bytes' = tls_buffer_bytes + size
        /\ tls_handshake_bytes' = Charge(Conn[b], b, size - cap[b])
        /\ UNCHANGED <<tls_budget, len, cap, memory>>
    BY Zenon, <1>2 DEF DbReserve
  <2>2. cap[b] < size /\ size \in 0..ConnectionLimit
    BY <1>1, <1>2, <2>1, Limits
  <2> QED
    BY Zenon, <2>1, <2>2
<1>4. growth'[b] = size /\ added'[b] = n /\ growth' \in [Buffers -> 0..ConnectionLimit] /\ added' \in [Buffers -> Nat]
      /\ \A y \in Buffers \ {b} : growth'[y] = growth[y] /\ added'[y] = added[y]
  BY <1>1, <1>3 DEF TlsTypeOK
<1>5. tls_buffer_bytes' \in 0..TotalLimit
  BY <1>1, <1>3, LimitsAssumption DEF TlsTypeOK, TlsRoom
<1>6. tls_handshake_bytes' \in [Connections -> 0..ConnectionLimit]
  <2>1. b \in Counted => tls_handshake_bytes[Conn[b]] + (size - cap[b]) \in 0..ConnectionLimit
    BY <1>1, <1>3, Limits DEF TlsTypeOK, TlsRoom
  <2>2. size - cap[b] \in Int
    BY SMTT(60), <1>1
  <2> QED
    BY Zenon, <1>1, <1>3, <2>1, <2>2, ChargeTyped
<1>7. TlsTypeOK'
  BY Zenon, <1>1, <1>3, <1>4, <1>5, <1>6 DEF TlsTypeOK
<1>8. TlsCountersAreSums'
  <2>1. Kept(cap'[b], growth'[b]) = size /\ Kept(cap[b], growth[b]) = cap[b]
    BY <1>1, <1>3, <1>4 DEF Kept
  <2>2. tls_buffer_bytes' = tls_buffer_bytes + (cap'[b] + growth'[b]) - (cap[b] + growth[b])
    BY <1>1, <1>3, <1>4 DEF TlsTypeOK
  <2>3. cap' \in [Buffers -> 0..ConnectionLimit] /\ cap' = cap
    BY Zenon, <1>1, <1>3 DEF TlsTypeOK
  <2> QED
    BY Zenon, <1>1, <1>3, <1>4, <2>1, <2>2, <2>3, Recharge
<1>9. Shape(b)'
  BY SMTT(60), <1>1, <1>2, <1>3, <1>4 DEF Shape
<1> QED
  BY <1>1, <1>3, <1>4, <1>7, <1>8, <1>9, OneBuffer

(* The roll-back after malloc has failed. *)
LEMMA AllocateFailsInv ==
  ASSUME Inv, NEW b \in Buffers, AllocateFails(b)
  PROVE  Inv'
<1>1. /\ cap[b] \in 0..ConnectionLimit /\ growth[b] \in 0..ConnectionLimit /\ growth[b] # 0 /\ memory[b] = cap[b]
      /\ TlsTypeOK /\ TlsCountersAreSums /\ Working(b) /\ Shape(b)
  BY DEF Inv, TlsTypeOK, AllocateFails, Working
<1>2. /\ growth' = [growth EXCEPT ![b] = 0] /\ added' = [added EXCEPT ![b] = 0]
      /\ tls_buffer_bytes' = tls_buffer_bytes - growth[b]
      /\ tls_handshake_bytes' = Charge(Conn[b], b, cap[b] - growth[b])
      /\ UNCHANGED <<tls_budget, len, cap, memory>>
  BY DEF AllocateFails
<1>3. growth'[b] = 0 /\ added'[b] = 0 /\ growth' \in [Buffers -> 0..ConnectionLimit] /\ added' \in [Buffers -> Nat]
      /\ \A y \in Buffers \ {b} : growth'[y] = growth[y] /\ added'[y] = added[y]
  BY <1>1, <1>2, LimitsAssumption DEF TlsTypeOK
<1>4. cap[b] + growth[b] <= tls_buffer_bytes
      /\ (b \in Counted => growth[b] <= tls_handshake_bytes[Conn[b]])
  BY <1>1, ShareBound DEF Kept
<1>5. tls_buffer_bytes' \in 0..TotalLimit
  BY <1>1, <1>2, <1>4, LimitsAssumption DEF TlsTypeOK
<1>6. tls_handshake_bytes' \in [Connections -> 0..ConnectionLimit]
  <2>1. b \in Counted => tls_handshake_bytes[Conn[b]] + (cap[b] - growth[b]) \in 0..ConnectionLimit
    BY SMTT(60), <1>1, <1>4, Limits DEF TlsTypeOK, Shape
  <2>2. cap[b] - growth[b] \in Int
    BY <1>1
  <2> QED
    BY <1>1, <1>2, <2>1, <2>2, ChargeTyped
<1>7. TlsTypeOK'
  BY Zenon, <1>1, <1>2, <1>3, <1>5, <1>6 DEF TlsTypeOK
<1>8. TlsCountersAreSums'
  <2>1. Kept(cap'[b], growth'[b]) = cap[b] /\ Kept(cap[b], growth[b]) = growth[b]
    BY <1>1, <1>2, <1>3 DEF Kept
  <2>2. tls_buffer_bytes' = tls_buffer_bytes + (cap'[b] + growth'[b]) - (cap[b] + growth[b])
    BY <1>1, <1>2, <1>3 DEF TlsTypeOK
  <2>3. cap' \in [Buffers -> 0..ConnectionLimit] /\ cap' = cap
    BY Zenon, <1>1, <1>2 DEF TlsTypeOK
  <2> QED
    BY Zenon, <1>1, <1>2, <1>3, <2>1, <2>2, <2>3, Recharge
<1>9. Shape(b)'
  BY <1>1, <1>2, <1>3 DEF Shape
<1> QED
  BY Zenon, <1>1, <1>2, <1>3, <1>7, <1>8, <1>9, OneBuffer

(* The copy takes the place of the old block. *)
LEMMA ReplaceInv ==
  ASSUME Inv, NEW b \in Buffers, Replace(b)
  PROVE  Inv'
<1>1. /\ cap[b] \in 0..ConnectionLimit /\ growth[b] \in 0..ConnectionLimit /\ growth[b] # 0
      /\ len[b] \in Nat /\ added[b] \in Nat /\ memory[b] \in Nat
      /\ TlsTypeOK /\ TlsCountersAreSums /\ Working(b) /\ Shape(b)
  BY LimitsAssumption DEF Inv, TlsTypeOK, Replace, Working, Wide
<1>2. /\ growth' = [growth EXCEPT ![b] = 0] /\ added' = [added EXCEPT ![b] = 0]
      /\ memory' = [memory EXCEPT ![b] = growth[b]] /\ cap' = [cap EXCEPT ![b] = growth[b]]
      /\ len' = [len EXCEPT ![b] = len[b] + added[b]]
      /\ tls_buffer_bytes' = tls_buffer_bytes - cap[b]
      /\ UNCHANGED <<tls_budget, tls_handshake_bytes>>
  BY DEF Replace
<1>3. growth[b] \in 0..Wide /\ len[b] + added[b] \in 0..ConnectionLimit /\ 0 \in 0..ConnectionLimit
      /\ len[b] + added[b] <= growth[b] /\ growth[b] <= BufferLimit[b] /\ tls_budget[b]
  BY <1>1, LimitsAssumption DEF Shape, Wide
<1>4. /\ growth'[b] = 0 /\ growth' \in [Buffers -> 0..ConnectionLimit]
      /\ added'[b] = 0 /\ added' \in [Buffers -> Nat]
      /\ memory'[b] = growth[b] /\ memory' \in [Buffers -> 0..Wide]
      /\ cap'[b] = growth[b] /\ cap' \in [Buffers -> 0..ConnectionLimit]
      /\ len'[b] = len[b] + added[b] /\ len' \in [Buffers -> 0..ConnectionLimit]
  BY <1>1, <1>2, <1>3 DEF TlsTypeOK
<1>5. \A y \in Buffers \ {b} : /\ tls_budget'[y] = tls_budget[y] /\ len'[y] = len[y]
                              /\ cap'[y] = cap[y] /\ growth'[y] = growth[y]
                              /\ added'[y] = added[y] /\ memory'[y] = memory[y]
  BY <1>1, <1>2 DEF TlsTypeOK
<1>6. tls_buffer_bytes' \in 0..TotalLimit
  BY <1>1, <1>2, ShareBound, LimitsAssumption DEF TlsTypeOK
<1>7. TlsTypeOK'
  <2>1. tls_budget' \in [Buffers -> BOOLEAN] /\ tls_handshake_bytes' \in [Connections -> 0..ConnectionLimit]
    BY Zenon, <1>1, <1>2 DEF TlsTypeOK
  <2>2. \A y \in Buffers : len[y] <= cap[y] /\ cap[y] <= BufferLimit[y]
    BY Zenon, <1>1 DEF TlsTypeOK
  <2>3. len'[b] <= cap'[b] /\ cap'[b] <= BufferLimit[b]
    BY Zenon, <1>3, <1>4
  <2>4. \A y \in Buffers \ {b} : len'[y] = len[y] /\ cap'[y] = cap[y]
    BY Zenon, <1>5
  <2>5. \A y \in Buffers : len'[y] <= cap'[y] /\ cap'[y] <= BufferLimit[y]
    BY <2>2, <2>3, <2>4
  <2> QED
    BY Zenon, <1>4, <1>6, <2>1, <2>5 DEF TlsTypeOK
<1>8. TlsCountersAreSums'
  <2>1. Kept(cap'[b], growth'[b]) = growth[b] /\ Kept(cap[b], growth[b]) = growth[b]
    BY <1>1, <1>4 DEF Kept
  <2>2. tls_buffer_bytes' = tls_buffer_bytes + (cap'[b] + growth'[b]) - (cap[b] + growth[b])
    BY <1>1, <1>2, <1>4 DEF TlsTypeOK
  <2>3. tls_handshake_bytes' = Charge(Conn[b], b, 0)
    BY <1>1, <1>2, Limits DEF TlsTypeOK, Charge
  <2>4. Kept(cap'[b], growth'[b]) - Kept(cap[b], growth[b]) = 0
    BY SMTT(60), <1>1, <2>1
  <2>5. tls_handshake_bytes' = Charge(Conn[b], b, Kept(cap'[b], growth'[b]) - Kept(cap[b], growth[b]))
    BY Zenon, <2>3, <2>4
  <2>6. \A y \in Buffers \ {b} : cap'[y] = cap[y] /\ growth'[y] = growth[y]
    BY Zenon, <1>5
  <2>7. TlsTypeOK /\ TlsCountersAreSums
        /\ cap' \in [Buffers -> 0..ConnectionLimit] /\ growth' \in [Buffers -> 0..ConnectionLimit]
    BY Zenon, <1>1, <1>4
  <2> QED
    BY SMT, <2>2, <2>5, <2>6, <2>7, Recharge
<1>9. Shape(b)'
  <2>1. tls_budget'[b]
    BY Zenon, <1>2, <1>3
  <2> QED
    BY Zenon, <1>4, <2>1 DEF Shape
<1> QED
  BY Zenon, <1>1, <1>5, <1>7, <1>8, <1>9, OneBuffer

(* db_free returns the charge of a buffer and forgets it. *)
LEMMA FreeInv ==
  ASSUME Inv, NEW b \in Buffers, DbFree(b)
  PROVE  Inv'
<1>1. /\ cap[b] \in 0..ConnectionLimit /\ growth[b] = 0 /\ memory[b] = cap[b] /\ ~BusyConnection(Conn[b])
      /\ TlsTypeOK /\ TlsCountersAreSums
  BY DEF Inv, TlsTypeOK, DbFree, BusyConnection
<1>2. /\ tls_budget' = [tls_budget EXCEPT ![b] = FALSE]
      /\ cap' = [cap EXCEPT ![b] = 0] /\ len' = [len EXCEPT ![b] = 0]
      /\ tls_buffer_bytes' = tls_buffer_bytes - cap[b]
      /\ tls_handshake_bytes' = Charge(Conn[b], b, 0 - cap[b])
      /\ UNCHANGED <<growth, added, memory>>
  BY DEF DbFree
<1>3. 0 \in 0..ConnectionLimit /\ 0 <= BufferLimit[b]
  BY LimitsAssumption
<1>4. /\ cap'[b] = 0 /\ cap' \in [Buffers -> 0..ConnectionLimit]
      /\ len'[b] = 0 /\ len' \in [Buffers -> 0..ConnectionLimit]
      /\ tls_budget'[b] = FALSE /\ tls_budget' \in [Buffers -> BOOLEAN]
  BY <1>1, <1>2, <1>3 DEF TlsTypeOK
<1>5. \A y \in Buffers \ {b} : /\ tls_budget'[y] = tls_budget[y] /\ len'[y] = len[y]
                              /\ cap'[y] = cap[y] /\ growth'[y] = growth[y]
                              /\ added'[y] = added[y] /\ memory'[y] = memory[y]
  BY <1>1, <1>2 DEF TlsTypeOK
<1>6. cap[b] <= tls_buffer_bytes /\ (b \in Counted => cap[b] <= tls_handshake_bytes[Conn[b]])
  BY <1>1, ShareBound DEF Kept
<1>7. tls_buffer_bytes' \in 0..TotalLimit
  BY <1>1, <1>2, <1>6, LimitsAssumption DEF TlsTypeOK
<1>8. tls_handshake_bytes' \in [Connections -> 0..ConnectionLimit]
  <2>1. b \in Counted => tls_handshake_bytes[Conn[b]] + (0 - cap[b]) \in 0..ConnectionLimit
    BY <1>1, <1>6, Limits DEF TlsTypeOK
  <2>2. 0 - cap[b] \in Int
    BY <1>1
  <2> QED
    BY ZenonT(60), <1>1, <1>2, <2>1, <2>2, ChargeTyped
<1>9. TlsTypeOK'
  <2>1. \A y \in Buffers : len[y] <= cap[y] /\ cap[y] <= BufferLimit[y]
    BY Zenon, <1>1 DEF TlsTypeOK
  <2>2. 0 <= 0
    OBVIOUS
  <2>3. \A y \in Buffers : len'[y] <= cap'[y] /\ cap'[y] <= BufferLimit[y]
    BY Zenon, <1>3, <1>4, <1>5, <2>1, <2>2
  <2> QED
    BY Zenon, <1>1, <1>2, <1>4, <1>7, <1>8, <2>3 DEF TlsTypeOK
<1>10. TlsCountersAreSums'
  <2>1. Kept(cap'[b], growth'[b]) = 0 /\ Kept(cap[b], growth[b]) = cap[b]
    BY <1>1, <1>2, <1>4 DEF Kept
  <2>2. tls_buffer_bytes' = tls_buffer_bytes + (cap'[b] + growth'[b]) - (cap[b] + growth[b])
    BY <1>1, <1>2, <1>4 DEF TlsTypeOK
  <2>3. growth' \in [Buffers -> 0..ConnectionLimit]
    BY <1>1, <1>2 DEF TlsTypeOK
  <2> QED
    BY Zenon, <1>1, <1>2, <1>4, <1>5, <2>1, <2>2, <2>3, Recharge
<1>11. Shape(b)'
  BY <1>1, <1>2, <1>4 DEF Shape
<1> QED
  BY Zenon, <1>1, <1>5, <1>9, <1>10, <1>11, OneBuffer

-----------------------------------------------------------------------------
(* Every step of the handshake memory keeps the invariant. *)
LEMMA NextInv == Inv /\ [TlsNext]_tlsVars => Inv'
<1> SUFFICES ASSUME Inv, [TlsNext]_tlsVars PROVE Inv'
  OBVIOUS
<1>1. CASE UNCHANGED tlsVars
  <2>1. UNCHANGED <<cap, growth, tls_buffer_bytes, tls_handshake_bytes>> /\ TlsCountersAreSums
    BY <1>1 DEF tlsVars, Inv
  <2>2. TlsCountersAreSums'
    BY <2>1, Untouched
  <2> QED
    BY <1>1, <2>2 DEF tlsVars, Inv, TlsTypeOK, Shape, OneAtATime, Working
<1>2. CASE TlsNext
  <2>1. PICK b \in Buffers :
          \/ TlsBufferInit(b)
          \/ \E n \in Appends : DbAppend(b, n) \/ DbReserve(b, n) \/ DbConsume(b, n)
          \/ Allocate(b) \/ AllocateFails(b) \/ Replace(b) \/ DbFree(b) \/ FreeBlock(b)
    BY <1>2 DEF TlsNext
  <2> QED
    BY <2>1, TlsBufferInitInv, LengthInv, ReserveInv, MemoryInv, AllocateFailsInv, ReplaceInv, FreeInv
<1> QED
  BY <1>1, <1>2

(* The invariant bounds what malloc has given out, and what a connection holds. *)
LEMMA InvImpliesLimits == Inv => MemoryWithinLimit /\ ConnectionWithinLimit
<1> SUFFICES ASSUME Inv PROVE MemoryWithinLimit /\ ConnectionWithinLimit
  OBVIOUS
<1> USE SetsAssumption
<1>1. TlsTypeOK /\ TlsCountersAreSums /\ (\A b \in Buffers : Shape(b)) /\ OneAtATime /\ Wide \in Nat
  BY LimitsAssumption DEF Inv, Wide
<1>2. \A b \in Buffers : cap[b] \in Nat /\ growth[b] \in Nat /\ cap[b] \in 0..Wide /\ memory[b] \in 0..Wide
  BY <1>1, LimitsAssumption DEF TlsTypeOK, Wide
<1>3. SumOf(Live, Wide) <= TotalLimit
  <2>1. Live \in [Buffers -> 0..Wide] /\ TlsCharged \in [Buffers -> 0..Wide]
    BY <1>1, <1>2, SharesTyped DEF Live
  <2>2. \A b \in Buffers : Live[b] <= TlsCharged[b]
    BY <1>1, <1>2 DEF Live, TlsCharged, Shape
  <2>3. SumOf(Live, Wide) <= SumOf(TlsCharged, Wide)
    BY <1>1, <2>1, <2>2, ShareMonotone
  <2>4. SumOf(Live, Wide) \in Nat /\ tls_buffer_bytes = SumOf(TlsCharged, Wide)
    BY <1>1, <2>1, ShareSum DEF TlsCountersAreSums
  <2> QED
    BY <1>1, <2>3, <2>4, LimitsAssumption DEF TlsTypeOK
<1>4. ConnectionWithinLimit
  <2> SUFFICES ASSUME NEW c \in Connections PROVE SumOf(TlsHeld(c), Wide) <= ConnectionLimit
    BY DEF ConnectionWithinLimit
  <2>1. TlsHeld(c) \in [Buffers -> 0..Wide] /\ TlsChargedTo(c) \in [Buffers -> 0..Wide]
    BY <1>1, <1>2, SharesTyped DEF TlsHeld
  <2>2. \A b \in Buffers : TlsHeld(c)[b] <= TlsChargedTo(c)[b]
    BY <1>1, <1>2 DEF TlsHeld, TlsChargedTo, Kept, Shape
  <2>3. SumOf(TlsHeld(c), Wide) <= SumOf(TlsChargedTo(c), Wide)
    BY <1>1, <2>1, <2>2, ShareMonotone
  <2>4. SumOf(TlsHeld(c), Wide) \in Nat /\ tls_handshake_bytes[c] = SumOf(TlsChargedTo(c), Wide)
    BY <1>1, <2>1, ShareSum DEF TlsCountersAreSums
  <2> QED
    BY <1>1, <2>3, <2>4, LimitsAssumption DEF TlsTypeOK
<1>5. ASSUME NEW b1 \in Buffers, NEW b2 \in Buffers, ~tls_budget[b1], ~tls_budget[b2],
             memory[b1] # 0, memory[b2] # 0, Conn[b1] = Conn[b2]
      PROVE  b1 = b2
  <2>1. cap[b1] = 0 /\ cap[b2] = 0
    BY <1>1, <1>5 DEF Shape
  <2> QED
    BY <1>1, <1>5, <2>1 DEF OneAtATime, Working
<1> QED
  BY <1>3, <1>4, <1>5 DEF MemoryWithinLimit

(* tls_buffer_bytes and tls_handshake_bytes are exactly what the buffers are   *)
(* charged, and the memory in use, old and new blocks together, never passes  *)
(* TLS_HANDSHAKE_TOTAL_LIMIT, nor a connection's TLS_HANDSHAKE_LIMIT.          *)
THEOREM TlsMemoryBounded == TlsSpec => []TlsMemoryExact
<1>1. Inv => TlsMemoryExact
  BY InvImpliesLimits DEF Inv, TlsMemoryExact
<1> QED
  BY <1>1, InitInv, NextInv, PTL DEF TlsSpec
=============================================================================
