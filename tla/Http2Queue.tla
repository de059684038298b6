----------------------------- MODULE Http2Queue -----------------------------
(***************************************************************************)
(* The byte queues of the HTTP/2 pool (http2_queue.c): a list of blocks    *)
(* (streams) or one flat buffer (header blocks), the cache of free blocks  *)
(* all queues share, and the budgets blocks are charged to.  A byte is a   *)
(* number, its position in everything ever appended to its queue.          *)
(***************************************************************************)
EXTENDS Integers, Sequences, FiniteSets, FiniteSetsExt, SequencesExt, Functions

CONSTANTS Queue, FlatQueue,  \* block queues (limit CORE_HTTP2_STREAM_LIMIT) and flat ones
          Block,             \* CORE_HTTP2_QUEUE_BLOCK
          QueueLimit,        \* the limit passed to append
          FlatStart,         \* 4096, first capacity of a flat buffer
          CacheLimit,        \* CORE_HTTP2_QUEUE_CACHE, in blocks
          BlockMemory,       \* blocks the budget allows altogether
          MaxBytes           \* bound: bytes appended to one queue

VARIABLES fifo,   \* the queues
          cached, \* blocks in the cache
          sent    \* bytes ever appended to a queue and consumed from it

queueVars == <<fifo, cached, sent>>
AllQueues == Queue \cup FlatQueue

QueueInit ==
    /\ fifo = [q \in AllQueues |-> [blocks |-> <<>>, length |-> 0, capacity |-> 0, start |-> 0, data |-> <<>>, charged |-> 0]]
    /\ cached = 0
    /\ sent = [q \in AllQueues |-> [in |-> 0, out |-> 0]]

Charged(f, c) == FoldFunctionOnSet(+, c, [q \in AllQueues |-> f[q].charged], Queue)
Ceiling(n, d) == (n + d - 1) \div d
Bytes(b) == SubSeq(b.data, b.start + 1, Len(b.data))
NewBytes(q, n) == [i \in 1 .. n |-> sent[q].in + i]

\* block_new, n times: from the cache, else from the allocator.
block_new(n) == LET c == Min({n, cached}) IN [fromCache |-> c, fits |-> Charged(fifo, cached) + n - c <= BlockMemory]

\* block_free, n times: into the cache while there is room for it.
block_free(c, n) == Min({c + n, CacheLimit})

\* core_http2_queue_append_parts on a block queue: fill the tail block, then
\* new ones.  All blocks are there before a byte is copied; when one is
\* refused the others go back.
RoomIn(b) == Block - Len(b.data)

Filled(blocks, new) ==
    LET into == IF blocks = <<>> THEN 0 ELSE Min({RoomIn(Last(blocks)), Len(new)})
        rest == SubSeq(new, into + 1, Len(new))
        fresh == [i \in 1 .. Ceiling(Len(rest), Block) |->
                    [start |-> 0, data |-> SubSeq(rest, (i - 1) * Block + 1, Min({i * Block, Len(rest)}))]]
    IN  (IF blocks = <<>> THEN blocks ELSE [blocks EXCEPT ![Len(blocks)].data = @ \o SubSeq(new, 1, into)]) \o fresh

AppendBlocks(q, n) ==
    LET blocks == Filled(fifo[q].blocks, NewBytes(q, n))
        needed == Len(blocks) - Len(fifo[q].blocks)
        get == block_new(needed)
    IN  /\ q \in Queue /\ fifo[q].length + n <= QueueLimit /\ sent[q].in + n <= MaxBytes
        /\ \/ /\ get.fits
              /\ fifo' = [fifo EXCEPT ![q].blocks = blocks, ![q].length = @ + n, ![q].capacity = @ + needed * Block,
                                      ![q].charged = @ + needed]
              /\ cached' = cached - get.fromCache
              /\ sent' = [sent EXCEPT ![q].in = @ + n]
           \/ /\ needed > get.fromCache   \* a refusal, or malloc fails
              /\ \E got \in get.fromCache .. needed - 1 :
                    /\ Charged(fifo, cached) + got <= BlockMemory + get.fromCache
                    /\ cached' = block_free(cached - get.fromCache, got)
              /\ UNCHANGED <<fifo, sent>>

\* core_http2_queue_consume on a block queue: emptied blocks are freed.
Emptied_NotTail(b, blocks) == Bytes(b) = <<>> /\ b.data # Last(blocks).data   \* Mutant: the tail block is kept for the next append.
Emptied(b, blocks) == Bytes(b) = <<>>
Consume(blocks, n) ==
    LET step(acc, b) == LET take == Min({Len(Bytes(b)), acc.n})
                            left == [b EXCEPT !.start = @ + take]
                        IN  [n |-> acc.n - take, kept |-> IF take > 0 /\ Emptied(left, blocks) THEN acc.kept ELSE Append(acc.kept, left)]
    IN  FoldLeft(step, [n |-> n, kept |-> <<>>], blocks).kept

ConsumeBlocks(q, n) ==
    LET kept == Consume(fifo[q].blocks, n)
        freed == Len(fifo[q].blocks) - Len(kept)
    IN  /\ q \in Queue /\ n <= fifo[q].length
        /\ fifo' = [fifo EXCEPT ![q].blocks = kept, ![q].length = @ - n, ![q].capacity = @ - freed * Block, ![q].charged = @ - freed]
        /\ cached' = block_free(cached, freed)
        /\ sent' = [sent EXCEPT ![q].out = @ + n]

\* The flat form: move to the front, double, copy.
Doubled(c, need) == Min({k \in {c * 2 ^ i : i \in 0 .. need} : k >= need} \cup {QueueLimit})
AppendFlat(q, n) ==
    LET f == fifo[q]
        moved == f.start + f.length + n > f.capacity
        need == f.length + n
        grow == moved /\ need > f.capacity
        at == IF moved THEN 0 ELSE f.start
        size == IF grow THEN Doubled(IF f.capacity > 0 THEN f.capacity ELSE FlatStart, need) ELSE f.capacity
    IN  /\ q \in FlatQueue /\ need <= QueueLimit /\ sent[q].in + n <= MaxBytes
        /\ \/ /\ fifo' = [fifo EXCEPT ![q].start = at, ![q].capacity = size, ![q].charged = size, ![q].length = need,
                              ![q].data = [i \in 1 .. at |-> 0] \o SubSeq(f.data, f.start + 1, f.start + f.length) \o NewBytes(q, n)]
              /\ sent' = [sent EXCEPT ![q].in = @ + n]
           \/ /\ grow   \* no memory: only the move has happened
              /\ fifo' = [fifo EXCEPT ![q].start = 0, ![q].data = SubSeq(f.data, f.start + 1, f.start + f.length)]
              /\ UNCHANGED sent
        /\ UNCHANGED cached

ConsumeFlat(q, n) ==
    LET f == fifo[q]
    IN  /\ q \in FlatQueue /\ n <= f.length
        /\ fifo' = [fifo EXCEPT ![q] = IF n = f.length THEN [f EXCEPT !.length = 0, !.start = 0, !.capacity = 0, !.data = <<>>, !.charged = 0]
                                       ELSE [f EXCEPT !.length = @ - n, !.start = @ + n]]
        /\ sent' = [sent EXCEPT ![q].out = @ + n]
        /\ UNCHANGED cached

\* core_http2_queue_cache_clear
ClearCache == cached > 0 /\ cached' = 0 /\ UNCHANGED <<fifo, sent>>

QueueNext ==
    \/ \E q \in AllQueues, n \in 1 .. QueueLimit : AppendBlocks(q, n) \/ ConsumeBlocks(q, n) \/ AppendFlat(q, n) \/ ConsumeFlat(q, n)
    \/ ClearCache

-----------------------------------------------------------------------------
\* core_http2_queue_copy and core_http2_queue_span
Contents(q) == IF q \in Queue THEN FlattenSeq([i \in DOMAIN fifo[q].blocks |-> Bytes(fifo[q].blocks[i])])
               ELSE SubSeq(fifo[q].data, fifo[q].start + 1, fifo[q].start + fifo[q].length)
Span(q) == IF fifo[q].blocks # <<>> THEN Len(Bytes(Head(fifo[q].blocks))) ELSE fifo[q].length

\* A queue holds exactly the bytes appended and not yet consumed, in order,
\* however appends and consumes cut them into blocks or move the flat buffer,
\* and whenever it is not empty its first span is not: the sender, which
\* takes at most a span at a time, always gets on.
QueueIsFifo ==
    \A q \in AllQueues :
        /\ Contents(q) = [i \in 1 .. sent[q].in - sent[q].out |-> sent[q].out + i]
        /\ fifo[q].length = Len(Contents(q))
        /\ fifo[q].length > 0 => Span(q) > 0

\* Memory is charged for exactly what is held: one block per block of the
\* list, the whole flat buffer, and the cache stays within its limit and the
\* common budget although blocks move between queues through it.
BlocksCharged ==
    /\ \A q \in Queue : fifo[q].charged = Len(fifo[q].blocks) /\ fifo[q].capacity = Len(fifo[q].blocks) * Block
    /\ \A q \in FlatQueue : fifo[q].charged = fifo[q].capacity /\ fifo[q].start + fifo[q].length <= fifo[q].capacity
    /\ cached <= CacheLimit /\ Charged(fifo, cached) <= BlockMemory

\* A queue is a sequence of bytes, charged for what it holds.
QueueExact == QueueIsFifo /\ BlocksCharged
=============================================================================
