----------------------------- MODULE KvsMempool -----------------------------
(***************************************************************************)
(* The memory of the engines: the fixed-chunk pool (kv_mempool.c) behind   *)
(* kvs_malloc and kvs_free (kvstore.c).  A pool is a value: its free list, *)
(* and the sizes of the blocks malloc had to provide.  Nothing is ever     *)
(* given back to malloc: kvs_free puts every block on the free list.       *)
(***************************************************************************)
EXTENDS Integers, Sequences

CONSTANTS POOL_CHUNK_SIZE,   \* 64
          POOL_CHUNK_COUNT,  \* 100000
          MaxHeap,           \* bound: blocks malloc can provide before it fails
          NULL               \* the null pointer

ASSUME PoolAssumption ==
    /\ POOL_CHUNK_SIZE \in Nat \ {0} /\ POOL_CHUNK_COUNT \in Nat \ {0}
    /\ MaxHeap \in Nat /\ NULL \notin Nat

\* The chunks come first, then the blocks of malloc.
Blocks == 1..(POOL_CHUNK_COUNT + MaxHeap)

kvs_mempool_create == [free_list |-> [i \in 1..POOL_CHUNK_COUNT |-> i],
                       heap      |-> <<>>]

\* What fits into block b.
Capacity(p, b) == IF b <= POOL_CHUNK_COUNT THEN POOL_CHUNK_SIZE
                  ELSE p.heap[b - POOL_CHUNK_COUNT]

\* A kvs_malloc that asks the pool whatever the size.
FromPoolAnySize(p, n) == p.free_list # <<>>

\* The pool serves what fits into a chunk while its list is not empty.
FromPool(p, n) == n <= POOL_CHUNK_SIZE /\ p.free_list # <<>>

\* An allocation that leaves the chunk on the list.
AllocKeepsHead(p) == p

\* kvs_mempool_alloc unlinks the head.
kvs_mempool_alloc(p) == [p EXCEPT !.free_list = Tail(@)]

kvs_malloc(p, n) ==
    IF FromPool(p, n)
    THEN [ptr |-> Head(p.free_list), pool |-> kvs_mempool_alloc(p)]
    ELSE IF Len(p.heap) < MaxHeap
    THEN [ptr  |-> POOL_CHUNK_COUNT + Len(p.heap) + 1,
          pool |-> [p EXCEPT !.heap = Append(@, n)]]
    ELSE [ptr |-> NULL, pool |-> p]

\* kvs_mempool_free: whatever the block, it becomes the head.
kvs_free(p, b) == [p EXCEPT !.free_list = <<b>> \o @]
=============================================================================
