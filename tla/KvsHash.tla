------------------------------ MODULE KvsHash ------------------------------
(***************************************************************************)
(* The hash engine (kvs_hash.c) on top of the memory pool: slots with      *)
(* chains of nodes; a node, its key and its value are three blocks.  resp  *)
(* is the answer HSET and HGET give; the protocol has no command for del,  *)
(* mod and exist, whose results are named in the same way.                 *)
(*                                                                         *)
(* Two things are undefined in the code and are nondeterministic here.     *)
(* The slots come from malloc and are never cleared: a chain ends in NULL  *)
(* or, in a wild slot, in garbage, which a scan that gets there follows.   *)
(* And a MOD without memory leaves a pointer to the value it has freed;    *)
(* the next MOD, or a DEL behind the head, frees it again and goes on:     *)
(* intact is then FALSE, and what later operations do with a free list     *)
(* that holds a block twice is not followed.                               *)
(***************************************************************************)
EXTENDS KvsMempool, FiniteSets

CONSTANTS Keys, Values,
          MAX_TABLE_SIZE,      \* slots, 1024
          WildSlots,           \* bound: the slots malloc may not give as NULL
          KeySum,              \* the sum of a key's bytes
          NODE_SIZE,           \* sizeof(hashnode_t)
          KeySize, ValueSize,  \* strlen + 1
          Lost                 \* what is left of a value a failed MOD freed

ASSUME TableAssumption ==
    /\ MAX_TABLE_SIZE \in Nat \ {0} /\ NODE_SIZE \in Nat
    /\ WildSlots \subseteq 0..(MAX_TABLE_SIZE - 1)
    /\ KeySum \in [Keys -> Nat]     \* keys of ASCII characters
    /\ KeySize \in [Keys -> Nat] /\ ValueSize \in [Values -> Nat]
ASSUME ValuesAssumption == {NULL, Lost} \cap Values = {} /\ NULL # Lost /\ NULL \notin Keys

VARIABLES pool,   \* the memory
          nodes,  \* hash->nodes: the chain of each slot
          wild,   \* the slots whose head was not NULL in malloc's memory
          count,  \* hash->count
          intact, \* no block has been freed twice in this process
          up,     \* the process is running
          resp    \* the last answer

vars == <<pool, nodes, wild, count, intact, up, resp>>

Slots == 0..(MAX_TABLE_SIZE - 1)

\* A node: its block, and key and value with the blocks they are copied to.
Node == [blk : Blocks, key : Keys, kblk : Blocks,
         val : Values \cup {Lost}, vblk : Blocks]

Hash(k) == KeySum[k] % MAX_TABLE_SIZE

\* Where k is in its chain.
Found(k) == IF k = NULL THEN {}
            ELSE {i \in DOMAIN nodes[Hash(k)] : nodes[Hash(k)][i].key = k}

Init == /\ pool = kvs_mempool_create
        /\ nodes = [s \in Slots |-> <<>>] /\ wild \in SUBSET WildSlots /\ count = 0
        /\ intact = TRUE /\ up = TRUE /\ resp = NULL

Return(r) == up /\ intact /\ resp' = r /\ UNCHANGED <<wild, up>>
Unchanged == UNCHANGED <<pool, nodes, count, intact>>
Dies == /\ up /\ intact /\ up' = FALSE
        /\ UNCHANGED <<pool, nodes, wild, count, intact, resp>>

\* A scan for k gets to the garbage at the end of its chain, reads through it
\* and dies, unless what it finds there looks like the end.
Strays(k) == k # NULL /\ Hash(k) \in wild /\ Found(k) = {} /\ Dies

\* A node whose creation tests the first allocation only.
AllocatedNodeOnly(k, v) ==
    LET a == kvs_malloc(pool, NODE_SIZE)
        b == kvs_malloc(a.pool, KeySize[k])
        c == kvs_malloc(b.pool, ValueSize[v])
    IN [ok   |-> a.ptr # NULL,
        node |-> [blk |-> a.ptr, key |-> k, kblk |-> b.ptr, val |-> v, vblk |-> c.ptr],
        pool |-> c.pool]

\* The three allocations of _create_node, in order.
Allocated(k, v) ==
    LET a == kvs_malloc(pool, NODE_SIZE)
        b == kvs_malloc(a.pool, KeySize[k])
        c == kvs_malloc(b.pool, ValueSize[v])
    IN [ok   |-> NULL \notin {a.ptr, b.ptr, c.ptr},
        node |-> [blk |-> a.ptr, key |-> k, kblk |-> b.ptr, val |-> v, vblk |-> c.ptr],
        pool |-> c.pool]

\* The duplicate check of set.
Known(k) == Found(k) # {}

\* A node that could not be created is linked all the same: the process dies.
kvs_hash_set(k, v) ==
    \/ (k = NULL \/ v = NULL) /\ Return("ERROR") /\ Unchanged
    \/ k # NULL /\ v # NULL /\ Known(k) /\ Return("EXIST") /\ Unchanged
    \/ k # NULL /\ v # NULL /\ ~Known(k) /\ ~Allocated(k, v).ok /\ Dies
    \/ v # NULL /\ Strays(k)
    \/ /\ k # NULL /\ v # NULL /\ ~Known(k) /\ Allocated(k, v).ok
       /\ nodes' = [nodes EXCEPT ![Hash(k)] = <<Allocated(k, v).node>> \o @]
       /\ pool' = Allocated(k, v).pool
       /\ count' = count + 1 /\ UNCHANGED intact
       /\ Return("OK")

\* The node a scan stops at.
First(k) == CHOOSE i \in Found(k) : \A j \in Found(k) : i <= j
At(k) == nodes[Hash(k)][First(k)]

kvs_hash_get(k) ==
    \/ Found(k) = {} /\ Return("NO_EXIST") /\ Unchanged
    \/ Found(k) # {} /\ Return(At(k).val) /\ Unchanged
    \/ Strays(k)

kvs_hash_exist(k) ==
    \/ Return(IF Found(k) = {} THEN "NO_EXIST" ELSE "EXIST") /\ Unchanged
    \/ Strays(k)

\* The node n with the value v in block b; without a block, with what is left.
Modified(n, v, b) == IF b = NULL THEN [n EXCEPT !.val = Lost]
                     ELSE [n EXCEPT !.val = v, !.vblk = b]

\* The old value goes to the free list before the new one is allocated, even
\* when it is already there.  An absent value is not tested for.
kvs_hash_mod(k, v) ==
    \/ k = NULL /\ Return("ERROR") /\ Unchanged
    \/ k # NULL /\ Found(k) = {} /\ Return("NO_EXIST") /\ Unchanged
    \/ Strays(k)
    \/ Found(k) # {} /\ v = NULL /\ Dies
    \/ /\ Found(k) # {} /\ v # NULL
       /\ LET c == kvs_malloc(kvs_free(pool, At(k).vblk), ValueSize[v])
          IN /\ pool' = c.pool /\ UNCHANGED count
             /\ nodes' = [nodes EXCEPT ![Hash(k)] =
                             [@ EXCEPT ![First(k)] = Modified(At(k), v, c.ptr)]]
             /\ Return(IF c.ptr = NULL THEN "ERROR" ELSE "OK")
       /\ intact' = (At(k).val # Lost)

\* A node at the head of its chain is freed without its key and value.
FreedByDel(p, i, n) ==
    IF i = 1 THEN kvs_free(p, n.blk)
    ELSE kvs_free(kvs_free(kvs_free(p, n.kblk), n.vblk), n.blk)

\* An unlinking that drops the rest of the chain.
Truncated(c, i) == SubSeq(c, 1, i - 1)

\* The chain c with its i-th node unlinked.
Without(c, i) == [j \in 1..(Len(c) - 1) |-> IF j < i THEN c[j] ELSE c[j + 1]]

\* A del that counts only the nodes behind the head.
CountBehindHead(c, i) == IF i = 1 THEN c ELSE c - 1

CountAfterDel(c, i) == c - 1

kvs_hash_del(k) ==
    \/ k = NULL /\ Return("ERROR") /\ Unchanged
    \/ k # NULL /\ Found(k) = {} /\ Return("NO_EXIST") /\ Unchanged
    \/ Strays(k)
    \/ /\ Found(k) # {}
       /\ intact' = (At(k).val # Lost \/ First(k) = 1)
       /\ nodes' = [nodes EXCEPT ![Hash(k)] = Without(@, First(k))]
       /\ pool' = FreedByDel(pool, First(k), At(k))
       /\ count' = CountAfterDel(count, First(k))
       /\ Return("OK")

\* With a block on the free list twice, one block gets two owners: any operation
\* may answer anything, written Lost, or die.  The model does not follow the
\* memory from here.
Undefined ==
    /\ up /\ ~intact
    /\ \/ up' = FALSE /\ UNCHANGED resp
       \/ resp' = Lost /\ UNCHANGED up
    /\ UNCHANGED <<wild, pool, nodes, count, intact>>

\* The process is started again with new memory, which is not cleared.
kvs_hash_create ==
    /\ ~up /\ up' = TRUE /\ resp' = NULL /\ intact' = TRUE
    /\ pool' = kvs_mempool_create /\ nodes' = [s \in Slots |-> <<>>] /\ count' = 0
    /\ wild' \in SUBSET WildSlots

Next == \/ \E k \in Keys \cup {NULL}, v \in Values \cup {NULL} :
              kvs_hash_set(k, v) \/ kvs_hash_mod(k, v)
        \/ \E k \in Keys \cup {NULL} :
              kvs_hash_get(k) \/ kvs_hash_del(k) \/ kvs_hash_exist(k)
        \/ Undefined \/ kvs_hash_create

Spec == Init /\ [][Next]_vars
-----------------------------------------------------------------------------
\* Types.
TypeOK == /\ pool.free_list \in Seq(Blocks) /\ pool.heap \in Seq(Nat)
          /\ Len(pool.heap) <= MaxHeap
          /\ nodes \in [Slots -> Seq(Node)]
          /\ wild \subseteq WildSlots /\ count \in Nat
          /\ intact \in BOOLEAN /\ up \in BOOLEAN
          /\ resp \in {"OK", "ERROR", "EXIST", "NO_EXIST", NULL, Lost} \cup Values

\* The pointers the table holds.  The value pointer of a node whose MOD found no
\* memory is left pointing to what it has freed.
Fields(n) == {"blk", "kblk"} \cup IF n.val = Lost THEN {} ELSE {"vblk"}
Held == UNION {{<<s, i, f>> : i \in {j \in DOMAIN nodes[s] : f \in Fields(nodes[s][j])}} :
                  s \in Slots, f \in {"blk", "kblk", "vblk"}}
Pointer(h) == nodes[h[1]][h[2]][h[3]]

\* No block has two owners, whatever the order of HSET, HDEL and HMOD and however
\* often blocks of malloc have passed through the free list: two pointers of the
\* table never lead to one block, none leads to a block of the free list, and
\* no block is on the list twice (kvstore.c:32-41, kvs_hash.c:199-240).  This
\* holds until the value a failed MOD has freed is freed again, and only that,
\* a MOD or DEL of the very key, can end it.
OwnedOnce ==
    LET free == pool.free_list
    IN /\ \A g, h \in Held : Pointer(g) = Pointer(h) => g = h
       /\ \A h \in Held, i \in DOMAIN free : Pointer(h) # free[i]
       /\ \A i, j \in DOMAIN free : free[i] = free[j] => i = j
SingleOwner == intact => OwnedOnce

\* The pool never ran out: malloc served only what does not fit into a chunk.
NeverExhausted == \A i \in DOMAIN pool.heap : pool.heap[i] > POOL_CHUNK_SIZE

\* As long as the pool has not run out, what is stored fits into its block, also
\* when the block came from malloc, was freed to the pool and is used for
\* something else (kvs_malloc, kvstore.c:21-30), until a value is freed twice.
FitsItsBlock ==
    intact /\ NeverExhausted =>
      \A s \in Slots : \A i \in DOMAIN nodes[s] :
         LET n == nodes[s][i]
         IN /\ NODE_SIZE <= Capacity(pool, n.blk)
            /\ KeySize[n.key] <= Capacity(pool, n.kblk)
            /\ n.val # Lost => ValueSize[n.val] <= Capacity(pool, n.vblk)

\* count is the number of keys stored, whichever branch of del and set ran, until
\* a value is freed twice.
CountMatches ==
    intact => count = Cardinality({k \in Keys : \E s \in Slots : \E i \in DOMAIN nodes[s] :
                                                   nodes[s][i].key = k})

\* The map the chains stand for.
ValueIn(t, k) ==
    IF \E s \in Slots : \E i \in DOMAIN t[s] : t[s][i].key = k
    THEN LET s == CHOOSE s \in Slots : \E i \in DOMAIN t[s] : t[s][i].key = k
             i == CHOOSE i \in DOMAIN t[s] : t[s][i].key = k
         IN t[s][i].val
    ELSE NULL
DictOf(t) == [k \in Keys |-> ValueIn(t, k)]

Dict == INSTANCE KvsDict WITH dict <- DictOf(nodes), ExistAnswer <- "EXIST"

\* The engine is a map in which the first value stays: deleting a node from the
\* front, the middle or the end of a chain loses no other key, and no key is in
\* a chain twice (kvs_hash.c:113-250).
ImplementsDict == Dict!DictSpec
=============================================================================
