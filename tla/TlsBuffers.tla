----------------------------- MODULE TlsBuffers -----------------------------
(***************************************************************************)
(* The memory of TLS handshakes (db_reserve, db_free, db_consume and       *)
(* tls_buffer_init of src/tls_records.c).  A buffer put under the budget   *)
(* is charged to tls_buffer_bytes, which all connections share, and most   *)
(* of them also to the tls_handshake_bytes of their connection.            *)
(*                                                                         *)
(* Growing a buffer copies it, so the old and the new block exist together *)
(* and both are charged; malloc runs between two sections under            *)
(* tls_buffer_lock.  Every section is a step.  A connection is used by one *)
(* thread, different connections by different threads.                     *)
(***************************************************************************)
EXTENDS BoundedSums

CONSTANTS
    Buffers,          \* the dynbuf_t of all connections
    Connections,
    Conn,             \* the connection of a buffer
    Counted,          \* the buffers charged to their connection too
    BufferLimit,      \* the limit given to tls_buffer_init
    ConnectionLimit,  \* TLS_HANDSHAKE_LIMIT
    TotalLimit,       \* TLS_HANDSHAKE_TOTAL_LIMIT
    First,            \* the capacity a buffer starts with
    Doublings,        \* bound on how often a capacity doubles
    Appends             \* the sizes appended

ASSUME SetsAssumption ==
    IsFiniteSet(Buffers) /\ Conn \in [Buffers -> Connections] /\ Counted \subseteq Buffers
ASSUME LimitsAssumption ==
    /\ ConnectionLimit \in Nat /\ TotalLimit \in Nat
    /\ BufferLimit \in [Buffers -> 1..ConnectionLimit]
ASSUME AppendsAssumption == First \in Nat \ {0} /\ Doublings \in Nat /\ Appends \subseteq Nat \ {0}

VARIABLES
    tls_budget,           \* the buffer is under the budget
    len, cap,             \* of each buffer
    growth,               \* while db_reserve grows a buffer: the new capacity
    added,                \* and what db_append puts there
    memory,               \* what malloc has given out for the buffer
    tls_buffer_bytes,     \* charged to the process
    tls_handshake_bytes   \* charged to each connection

tlsVars == <<tls_budget, len, cap, growth, added, memory, tls_buffer_bytes, tls_handshake_bytes>>

Zero == [b \in Buffers |-> 0]

TlsInit ==
    /\ tls_budget = [b \in Buffers |-> FALSE]
    /\ len = Zero /\ cap = Zero /\ growth = Zero /\ added = Zero /\ memory = Zero
    /\ tls_buffer_bytes = 0
    /\ tls_handshake_bytes = [c \in Connections |-> 0]

\* The thread of a connection is in the middle of db_reserve or db_free.
BusyConnection(c) == \E b \in Buffers : Conn[b] = c /\ (growth[b] # 0 \/ memory[b] # cap[b])

\* The doubling loop of db_reserve: from the old capacity, or First, to the
\* first one that holds need, cut at the buffer's limit.
Doubled(start, need) ==
    LET reached == {n \in need..(2 * need + start) :
                      /\ \E k \in 0..Doublings : n = start * 2^k
                      /\ n = start \/ n < 2 * need}
    IN  IF reached = {} THEN need ELSE CHOOSE n \in reached : TRUE

Capacity(b, need) ==
    LET n == Doubled(IF cap[b] = 0 THEN First ELSE cap[b], need)
    IN  IF n > BufferLimit[b] THEN BufferLimit[b] ELSE n

Charge(c, b, size) ==
    IF b \in Counted
      THEN [tls_handshake_bytes EXCEPT ![c] = @ + size]
      ELSE tls_handshake_bytes

-----------------------------------------------------------------------------
TlsBufferInit(b) ==
    /\ ~BusyConnection(Conn[b]) /\ ~tls_budget[b]
    /\ cap[b] <= BufferLimit[b]
    /\ cap[b] <= TotalLimit - tls_buffer_bytes
    /\ b \in Counted => cap[b] <= ConnectionLimit - tls_handshake_bytes[Conn[b]]
    /\ tls_budget' = [tls_budget EXCEPT ![b] = TRUE]
    /\ tls_buffer_bytes' = tls_buffer_bytes + cap[b]
    /\ tls_handshake_bytes' = Charge(Conn[b], b, cap[b])
    /\ UNCHANGED <<len, cap, growth, added, memory>>

\* db_append with room left.
DbAppend(b, n) ==
    /\ ~BusyConnection(Conn[b]) /\ tls_budget[b]
    /\ len[b] + n <= cap[b]
    /\ len' = [len EXCEPT ![b] = @ + n]
    /\ UNCHANGED <<tls_budget, cap, growth, added, memory, tls_buffer_bytes, tls_handshake_bytes>>

\* db_append without: the first section of db_reserve.  A buffer at its
\* limit, or a budget without room, refuses and nothing changes.
TlsRoom(b, size) ==
    /\ size <= TotalLimit - tls_buffer_bytes
    /\ b \in Counted => size - cap[b] <= ConnectionLimit - tls_handshake_bytes[Conn[b]]

DbReserve(b, n) ==
    /\ ~BusyConnection(Conn[b]) /\ tls_budget[b]
    /\ len[b] + n > cap[b] /\ len[b] + n <= BufferLimit[b]
    /\ LET size == Capacity(b, len[b] + n)
       IN  /\ TlsRoom(b, size)
           /\ growth' = [growth EXCEPT ![b] = size]
           /\ tls_buffer_bytes' = tls_buffer_bytes + size
           /\ tls_handshake_bytes' = Charge(Conn[b], b, size - cap[b])
    /\ added' = [added EXCEPT ![b] = n]
    /\ UNCHANGED <<tls_budget, len, cap, memory>>

Allocate(b) ==
    /\ growth[b] # 0 /\ memory[b] = cap[b]
    /\ memory' = [memory EXCEPT ![b] = @ + growth[b]]
    /\ UNCHANGED <<tls_budget, len, cap, growth, added, tls_buffer_bytes, tls_handshake_bytes>>

\* Mutant: a failed malloc gives back the process's share alone.
AllocateFails_KeepsConnection(b) ==
    /\ growth[b] # 0 /\ memory[b] = cap[b]
    /\ tls_buffer_bytes' = tls_buffer_bytes - growth[b]
    /\ growth' = [growth EXCEPT ![b] = 0]
    /\ added' = [added EXCEPT ![b] = 0]
    /\ UNCHANGED <<tls_budget, len, cap, memory, tls_handshake_bytes>>

\* malloc returned NULL: the reservation is rolled back.
AllocateFails(b) ==
    /\ growth[b] # 0 /\ memory[b] = cap[b]
    /\ tls_buffer_bytes' = tls_buffer_bytes - growth[b]
    /\ tls_handshake_bytes' = Charge(Conn[b], b, cap[b] - growth[b])
    /\ growth' = [growth EXCEPT ![b] = 0]
    /\ added' = [added EXCEPT ![b] = 0]
    /\ UNCHANGED <<tls_budget, len, cap, memory>>

\* The copy is made, the old block freed and its charge returned.
Replace(b) ==
    /\ growth[b] # 0 /\ memory[b] # cap[b]
    /\ tls_buffer_bytes' = tls_buffer_bytes - cap[b]
    /\ memory' = [memory EXCEPT ![b] = growth[b]]
    /\ cap' = [cap EXCEPT ![b] = growth[b]]
    /\ len' = [len EXCEPT ![b] = @ + added[b]]
    /\ growth' = [growth EXCEPT ![b] = 0]
    /\ added' = [added EXCEPT ![b] = 0]
    /\ UNCHANGED <<tls_budget, tls_handshake_bytes>>

DbConsume(b, n) ==
    /\ ~BusyConnection(Conn[b]) /\ tls_budget[b] /\ len[b] > 0
    /\ len' = [len EXCEPT ![b] = IF n >= @ THEN 0 ELSE @ - n]
    /\ UNCHANGED <<tls_budget, cap, growth, added, memory, tls_buffer_bytes, tls_handshake_bytes>>

\* db_free: the charge is returned first, the block afterwards.
DbFree(b) ==
    /\ ~BusyConnection(Conn[b]) /\ tls_budget[b]
    /\ tls_buffer_bytes' = tls_buffer_bytes - cap[b]
    /\ tls_handshake_bytes' = Charge(Conn[b], b, 0 - cap[b])
    /\ tls_budget' = [tls_budget EXCEPT ![b] = FALSE]
    /\ cap' = [cap EXCEPT ![b] = 0]
    /\ len' = [len EXCEPT ![b] = 0]
    /\ UNCHANGED <<growth, added, memory>>

FreeBlock(b) ==
    /\ growth[b] = 0 /\ memory[b] # cap[b]
    /\ memory' = [memory EXCEPT ![b] = 0]
    /\ UNCHANGED <<tls_budget, len, cap, growth, added, tls_buffer_bytes, tls_handshake_bytes>>

TlsNext == \E b \in Buffers :
    \/ TlsBufferInit(b)
    \/ \E n \in Appends : DbAppend(b, n) \/ DbReserve(b, n) \/ DbConsume(b, n)
    \/ Allocate(b)
    \/ AllocateFails(b)
    \/ Replace(b)
    \/ DbFree(b)
    \/ FreeBlock(b)

TlsSpec == TlsInit /\ [][TlsNext]_tlsVars

-----------------------------------------------------------------------------
Wide == 2 * ConnectionLimit

\* Every field has its type; a buffer's contents fit its capacity, the capacity
\* its limit, and the counters theirs (db_reserve, tls_records.c:12-52).
TlsTypeOK ==
    /\ tls_budget \in [Buffers -> BOOLEAN]
    /\ len \in [Buffers -> 0..ConnectionLimit] /\ cap \in [Buffers -> 0..ConnectionLimit]
    /\ growth \in [Buffers -> 0..ConnectionLimit] /\ added \in [Buffers -> Nat]
    /\ memory \in [Buffers -> 0..Wide]
    /\ tls_buffer_bytes \in 0..TotalLimit
    /\ tls_handshake_bytes \in [Connections -> 0..ConnectionLimit]
    /\ \A b \in Buffers : len[b] <= cap[b] /\ cap[b] <= BufferLimit[b]

\* What a buffer is charged to the process, and to connection c.
Kept(old, new) == IF new = 0 THEN old ELSE new
TlsCharged == [b \in Buffers |-> cap[b] + growth[b]]
TlsChargedTo(c) ==
    [b \in Buffers |-> IF b \in Counted /\ Conn[b] = c THEN Kept(cap[b], growth[b]) ELSE 0]

\* The two counters are what the buffers hold, at every point between the
\* sections under tls_buffer_lock and also after malloc has failed, so that
\* nothing is charged for ever (db_reserve and db_free,
\* tls_records.c:24-48, 85-90).
TlsCountersAreSums ==
    /\ tls_buffer_bytes = SumOf(TlsCharged, Wide)
    /\ \A c \in Connections : tls_handshake_bytes[c] = SumOf(TlsChargedTo(c), Wide)

\* The memory of the buffers that nobody is freeing.
Live == [b \in Buffers |-> IF tls_budget[b] THEN memory[b] ELSE 0]

\* The memory that malloc has given out stays within TLS_HANDSHAKE_TOTAL_LIMIT,
\* old and new blocks of growing buffers included.  Only blocks db_free has
\* already returned to the budget, at most one for each connection, come on
\* top (tls_records.c:24-31, 86-93).
MemoryWithinLimit ==
    /\ SumOf(Live, Wide) <= TotalLimit
    /\ \A b1, b2 \in Buffers : ~tls_budget[b1] /\ ~tls_budget[b2] /\ memory[b1] # 0 /\ memory[b2] # 0
         /\ Conn[b1] = Conn[b2] => b1 = b2

\* The capacities of the buffers charged to connection c.
TlsHeld(c) == [b \in Buffers |-> IF b \in Counted /\ Conn[b] = c THEN cap[b] ELSE 0]

\* What a connection's counted buffers can hold stays within
\* TLS_HANDSHAKE_LIMIT (tls_records.c:28).
ConnectionWithinLimit == \A c \in Connections : SumOf(TlsHeld(c), Wide) <= ConnectionLimit

\* The account of the handshake buffers: both counters are exactly what
\* db_reserve has charged and db_free has given back, and what they bound, the
\* memory of all buffers with the copies of growing ones, stays in the limits.
TlsMemoryExact == TlsCountersAreSums /\ MemoryWithinLimit /\ ConnectionWithinLimit
=============================================================================
