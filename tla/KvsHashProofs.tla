--------------------------- MODULE KvsHashProofs ---------------------------
(***************************************************************************)
(* Proofs about KvsHash and the memory pool below it, for any number of    *)
(* slots and chunks, any sizes, any keys and any moment malloc fails; what *)
(* is said of the memory holds until a lost value is freed a second time.  *)
(*                                                                         *)
(* The chains are looked at in two ways.  As lists they are sorted out by  *)
(* Hash and hold a key once, so a node is as good as its position.  As the *)
(* set of their nodes they are what the memory is about: every pointer of  *)
(* a node is in use, that is, it is a block that exists and that the free  *)
(* list does not have, and no two nodes share one.                         *)
(***************************************************************************)
EXTENDS KvsHash, SequenceTheorems, FiniteSetTheorems, TLAPS

PoolType == [free_list : Seq(Blocks), heap : Seq(Nat)]

\* The blocks that exist: the chunks and what malloc has provided.
Existing(p) == 1..(POOL_CHUNK_COUNT + Len(p.heap))
Free(p) == {b \in Blocks : \E i \in DOMAIN p.free_list : p.free_list[i] = b}

\* A pool whose free list holds existing blocks, each once.
PoolOK(p) ==
    /\ p \in PoolType /\ Len(p.heap) <= MaxHeap /\ Free(p) \subseteq Existing(p)
    /\ \A i, j \in DOMAIN p.free_list : p.free_list[i] = p.free_list[j] => i = j

\* The blocks U are in use.
InUse(p, U) == U \subseteq Existing(p) /\ U \cap Free(p) = {}

\* malloc has served nothing that fits into a chunk.
OnlyLarge(p) == \A i \in DOMAIN p.heap : p.heap[i] > POOL_CHUNK_SIZE

\* The chains t are as Hash says, and no key is in a chain twice.
ChainsOK(t) ==
    /\ t \in [Slots -> Seq(Node)]
    /\ \A s \in Slots : \A i \in DOMAIN t[s] : Hash(t[s][i].key) = s
    /\ \A s \in Slots : \A i, j \in DOMAIN t[s] : t[s][i].key = t[s][j].key => i = j

NodesOf(t) == {n \in Node : \E s \in Slots : \E i \in DOMAIN t[s] : t[s][i] = n}
KeysOf(N) == {k \in Keys : \E n \in N : n.key = k}

\* The blocks of a node: node, key and, unless a MOD has lost it, value.
Ptrs(n) == {n.blk, n.kblk} \cup IF n.val = Lost THEN {} ELSE {n.vblk}
AllPtrs(N) == {b \in Blocks : \E n \in N : b \in Ptrs(n)}

Apart(n) == n.blk # n.kblk /\ (n.val # Lost => n.vblk # n.blk /\ n.vblk # n.kblk)

\* Nodes have three blocks each, and share none.
NoSharing(N) ==
    /\ \A n \in N : Apart(n)
    /\ \A n, m \in N : n # m => Ptrs(n) \cap Ptrs(m) = {}

Fits(p, n) == /\ NODE_SIZE <= Capacity(p, n.blk) /\ KeySize[n.key] <= Capacity(p, n.kblk)
              /\ n.val # Lost => ValueSize[n.val] <= Capacity(p, n.vblk)

Memory(p, N) == /\ PoolOK(p) /\ InUse(p, AllPtrs(N)) /\ NoSharing(N)
                /\ OnlyLarge(p) => \A n \in N : Fits(p, n)

\* The keys of the chains t are c in number.
Counted(t, c) == IsFiniteSet(KeysOf(NodesOf(t))) /\ c = Cardinality(KeysOf(NodesOf(t)))

\* What is left of a pool when a block was freed twice.
AnyPool(p) == p \in PoolType /\ Len(p.heap) <= MaxHeap

\* A good table: chains t, memory p, intact or not, counter c.
Table(t, p, c, w) == /\ ChainsOK(t) /\ Counted(t, c) /\ AnyPool(p)
                     /\ w => Memory(p, NodesOf(t))

IInv == TypeOK /\ Table(nodes, pool, count, intact)

-----------------------------------------------------------------------------
\* The pool.

LEMMA NewPool == PoolOK(kvs_mempool_create) /\ OnlyLarge(kvs_mempool_create)
<1> DEFINE p == kvs_mempool_create
<1>1. /\ p.free_list = [i \in 1..POOL_CHUNK_COUNT |-> i] /\ p.heap = <<>>
      /\ p = [free_list |-> p.free_list, heap |-> p.heap]
  BY DEF kvs_mempool_create
<1> HIDE DEF p
<1>2. \A i \in 1..POOL_CHUNK_COUNT : i \in Blocks
  BY PoolAssumption DEF Blocks
<1>3. p.free_list \in Seq(Blocks) /\ DOMAIN p.free_list = 1..POOL_CHUNK_COUNT
  BY <1>1, <1>2, PoolAssumption
<1>4. p \in PoolType
  <2>1. p.heap \in Seq(Nat)
    BY <1>1
  <2>2. \A f \in Seq(Blocks), h \in Seq(Nat) : [free_list |-> f, heap |-> h] \in PoolType
    BY DEF PoolType
  <2> QED BY <1>1, <1>3, <2>1, <2>2
<1>5. Free(p) \subseteq Existing(p)
  BY <1>1, <1>3, PoolAssumption DEF Free, Existing
<1>6. \A i, j \in DOMAIN p.free_list : p.free_list[i] = p.free_list[j] => i = j
  BY <1>1, <1>3
<1>7. OnlyLarge(p) /\ Len(p.heap) <= MaxHeap
  BY <1>1, PoolAssumption DEF OnlyLarge
<1> QED BY <1>4, <1>5, <1>6, <1>7 DEF PoolOK, p

LEMMA PoolParts ==
    ASSUME NEW p, PoolOK(p)
    PROVE  /\ p.free_list \in Seq(Blocks) /\ p.heap \in Seq(Nat) /\ Len(p.heap) \in Nat
           /\ DOMAIN p.heap = 1..Len(p.heap) /\ DOMAIN p.free_list = 1..Len(p.free_list)
           /\ Len(p.free_list) \in Nat /\ POOL_CHUNK_COUNT \in Nat /\ MaxHeap \in Nat
           /\ Len(p.heap) <= MaxHeap
           /\ Existing(p) \subseteq Blocks
<1>1. p.free_list \in Seq(Blocks) /\ p.heap \in Seq(Nat) /\ Len(p.heap) <= MaxHeap
  BY DEF PoolOK, PoolType
<1>2. POOL_CHUNK_COUNT \in Nat /\ MaxHeap \in Nat
  BY PoolAssumption
<1>3. Len(p.heap) \in Nat
  BY <1>1
<1> QED BY <1>1, <1>2, <1>3 DEF Existing, Blocks

\* A later pool has the blocks of an earlier one, at the same size.
Grown(p, q) == /\ Existing(p) \subseteq Existing(q)
               /\ OnlyLarge(q) => OnlyLarge(p)
               /\ \A b \in Existing(p) : Capacity(q, b) = Capacity(p, b)

LEMMA GrownTwice ==
    ASSUME NEW p, NEW q, NEW r, Grown(p, q), Grown(q, r) PROVE Grown(p, r)
  BY DEF Grown

\* kvs_malloc: a block that nobody used, or NULL and nothing has changed.
Served(p, n, r) ==
    /\ PoolOK(r.pool) /\ Free(r.pool) \subseteq Free(p) /\ Grown(p, r.pool)
    /\ r.ptr = NULL => r.pool = p
    /\ r.ptr # NULL => /\ r.ptr \in Existing(r.pool) \ Free(r.pool)
                       /\ r.ptr \in Free(p) \/ r.ptr \notin Existing(p)
                       /\ OnlyLarge(r.pool) => n <= Capacity(r.pool, r.ptr)

LEMMA MallocServes ==
    ASSUME NEW p, PoolOK(p), NEW n \in Nat PROVE Served(p, n, kvs_malloc(p, n))
<1> DEFINE r == kvs_malloc(p, n)
<1>1. /\ p.free_list \in Seq(Blocks) /\ p.heap \in Seq(Nat) /\ Len(p.heap) \in Nat
      /\ DOMAIN p.heap = 1..Len(p.heap) /\ DOMAIN p.free_list = 1..Len(p.free_list)
      /\ Len(p.free_list) \in Nat /\ POOL_CHUNK_COUNT \in Nat /\ MaxHeap \in Nat
      /\ Len(p.heap) <= MaxHeap /\ p \in PoolType /\ POOL_CHUNK_SIZE \in Nat
      /\ \A i, j \in DOMAIN p.free_list : p.free_list[i] = p.free_list[j] => i = j
      /\ Free(p) \subseteq Existing(p)
  BY PoolParts, PoolAssumption DEF PoolOK
<1>2. CASE FromPool(p, n)
  <2> DEFINE q == kvs_mempool_alloc(p)
             h == Head(p.free_list)
  <2>1. r = [ptr |-> h, pool |-> q]
    BY <1>2 DEF kvs_malloc
  <2>2. p.free_list # <<>> /\ n <= POOL_CHUNK_SIZE
    BY <1>2 DEF FromPool
  <2>3. /\ q \in PoolType /\ q.heap = p.heap /\ q.free_list = Tail(p.free_list)
    <3>1. Tail(p.free_list) \in Seq(Blocks)
      BY <1>1, <2>2
    <3> QED BY <1>1, <3>1 DEF kvs_mempool_alloc, PoolType
  <2>4. /\ h = p.free_list[1] /\ 1 \in DOMAIN p.free_list
        /\ DOMAIN q.free_list = 1..(Len(p.free_list) - 1)
        /\ \A i \in DOMAIN q.free_list : q.free_list[i] = p.free_list[i + 1]
    BY <1>1, <2>2, <2>3
  <2> HIDE DEF q, h
  <2>5. \A i \in DOMAIN q.free_list : i \in Nat /\ i + 1 \in DOMAIN p.free_list /\ i + 1 # 1
    BY <1>1, <2>4
  <2>6. \A i, j \in DOMAIN q.free_list : q.free_list[i] = q.free_list[j] => i = j
    <3>1. \A i, j \in DOMAIN q.free_list : q.free_list[i] = q.free_list[j] => i + 1 = j + 1
      BY <1>1, <2>4, <2>5
    <3> QED BY <2>5, <3>1
  <2>7. Free(q) \subseteq Free(p) /\ h \in Free(p) \ Free(q)
    <3>1. Free(q) \subseteq Free(p)
      BY <2>4, <2>5 DEF Free
    <3>2. h \in Blocks
      BY <1>1, <2>4
    <3>3. h \in Free(p)
      BY <2>4, <3>2 DEF Free
    <3>4. \A i \in DOMAIN q.free_list : q.free_list[i] # h
      BY <1>1, <2>4, <2>5
    <3> QED BY <3>1, <3>3, <3>4 DEF Free
  <2>8. Existing(q) = Existing(p) /\ Grown(p, q)
    BY <2>3 DEF Existing, Grown, OnlyLarge, Capacity
  <2>9. PoolOK(q)
    BY <1>1, <2>3, <2>6, <2>7, <2>8 DEF PoolOK
  <2>10. OnlyLarge(q) => n <= Capacity(q, h)
    <3>1. h \in 1..(POOL_CHUNK_COUNT + Len(q.heap))
      BY <1>1, <2>3, <2>7 DEF Existing
    <3>2. CASE h <= POOL_CHUNK_COUNT
      BY <2>2, <3>2 DEF Capacity
    <3>3. CASE ~(h <= POOL_CHUNK_COUNT)
      <4>1. h - POOL_CHUNK_COUNT \in DOMAIN q.heap
        BY <1>1, <2>3, <3>1, <3>3
      <4>2. q.heap[h - POOL_CHUNK_COUNT] \in Nat
        BY <1>1, <2>3, <4>1
      <4> QED BY <1>1, <2>2, <3>3, <4>1, <4>2 DEF Capacity, OnlyLarge
    <3> QED BY <3>2, <3>3
  <2>11. h # NULL /\ h \in Existing(q)
    BY <1>1, <2>7, <2>8, PoolAssumption DEF Existing
  <2>12. r.ptr = h /\ r.pool = q
    BY <2>1
  <2> HIDE DEF r
  <2> QED BY <2>7, <2>8, <2>9, <2>10, <2>11, <2>12 DEF Served, r
<1>3. CASE ~FromPool(p, n) /\ Len(p.heap) < MaxHeap
  <2> DEFINE q == [p EXCEPT !.heap = Append(@, n)]
             b == POOL_CHUNK_COUNT + Len(p.heap) + 1
  <2>1. r = [ptr |-> b, pool |-> q]
    BY <1>3 DEF kvs_malloc
  <2>2. q \in PoolType /\ q.heap = Append(p.heap, n) /\ q.free_list = p.free_list
    <3>1. Append(p.heap, n) \in Seq(Nat)
      BY <1>1
    <3> QED BY <1>1, <3>1 DEF PoolType
  <2>3. /\ Len(q.heap) = Len(p.heap) + 1 /\ DOMAIN q.heap = 1..(Len(p.heap) + 1)
        /\ \A i \in DOMAIN p.heap : q.heap[i] = p.heap[i] /\ i \in DOMAIN q.heap
        /\ q.heap[Len(p.heap) + 1] = n
    BY <1>1, <2>2
  <2>4. b \in Nat /\ b - POOL_CHUNK_COUNT = Len(p.heap) + 1 /\ ~(b <= POOL_CHUNK_COUNT)
    BY <1>1
  <2> HIDE DEF q
  <2>5. b \in Existing(q) /\ b \notin Existing(p) /\ Existing(p) \subseteq Existing(q)
    BY <1>1, <2>3 DEF Existing
  <2>6. Free(q) = Free(p)
    BY <2>2 DEF Free
  <2>7. PoolOK(q)
    <3>1. Len(q.heap) <= MaxHeap
      BY <1>1, <1>3, <2>3
    <3>2. Free(q) \subseteq Existing(q)
      BY <1>1, <2>5, <2>6
    <3> QED BY <1>1, <2>2, <3>1, <3>2 DEF PoolOK
  <2>8. Capacity(q, b) = n
    BY <2>3, <2>4 DEF Capacity
  <2>9. Grown(p, q)
    <3>1. OnlyLarge(q) => OnlyLarge(p)
      BY <2>3 DEF OnlyLarge
    <3>2. ASSUME NEW x \in Existing(p) PROVE Capacity(q, x) = Capacity(p, x)
      <4>1. x <= POOL_CHUNK_COUNT \/ x - POOL_CHUNK_COUNT \in DOMAIN p.heap
        BY <1>1 DEF Existing
      <4> QED BY <4>1, <2>3 DEF Capacity
    <3> QED BY <3>1, <3>2, <2>5 DEF Grown
  <2>10. r.ptr = b /\ r.pool = q /\ b # NULL /\ n <= n
    BY <2>1, <2>4, PoolAssumption
  <2> HIDE DEF r, b
  <2> QED BY <1>1, <2>5, <2>6, <2>7, <2>8, <2>9, <2>10 DEF Served, r
<1>4. CASE ~FromPool(p, n) /\ ~(Len(p.heap) < MaxHeap)
  <2>1. r.ptr = NULL /\ r.pool = p
    BY <1>4 DEF kvs_malloc
  <2>2. Grown(p, p)
    BY DEF Grown
  <2> HIDE DEF r
  <2> QED BY <2>1, <2>2 DEF Served, r
<1> QED BY <1>2, <1>3, <1>4

\* kvs_free: a block in use joins the free list.
LEMMA FreeTakesBack ==
    ASSUME NEW p, PoolOK(p), NEW b \in Existing(p), b \notin Free(p)
    PROVE  /\ PoolOK(kvs_free(p, b)) /\ Free(kvs_free(p, b)) = Free(p) \cup {b}
           /\ Existing(kvs_free(p, b)) = Existing(p) /\ Grown(p, kvs_free(p, b))
<1> DEFINE q == kvs_free(p, b)
           f == p.free_list
           g == q.free_list
<1>1. /\ f \in Seq(Blocks) /\ DOMAIN f = 1..Len(f) /\ Len(f) \in Nat /\ b \in Blocks
      /\ p \in PoolType /\ Len(p.heap) <= MaxHeap /\ Free(p) \subseteq Existing(p)
      /\ \A i, j \in DOMAIN f : f[i] = f[j] => i = j
  BY PoolParts DEF PoolOK
<1>2. q.heap = p.heap /\ g = <<b>> \o f /\ q \in PoolType
  <2>1. <<b>> \o f \in Seq(Blocks)
    BY <1>1
  <2> QED BY <1>1, <2>1 DEF kvs_free, PoolType
<1>3. /\ DOMAIN g = 1..(Len(f) + 1) /\ g[1] = b
      /\ \A i \in DOMAIN f : g[i + 1] = f[i] /\ i + 1 \in DOMAIN g
      /\ \A i \in DOMAIN g : i # 1 => i - 1 \in DOMAIN f /\ g[i] = f[i - 1]
      /\ \A i \in DOMAIN g : i \in Nat
  BY <1>1, <1>2
<1> HIDE DEF q
<1>4. Free(q) = Free(p) \cup {b}
  <2>1. 1 \in DOMAIN g
    BY <1>1, <1>3
  <2>2. b \in Free(q)
    BY <1>1, <1>3, <2>1 DEF Free
  <2>3. Free(p) \subseteq Free(q)
    BY <1>3 DEF Free
  <2>4. ASSUME NEW x \in Free(q) PROVE x \in Free(p) \cup {b}
    <3>1. PICK i \in DOMAIN g : g[i] = x
      BY DEF Free
    <3>2. CASE i = 1
      BY <1>3, <3>1, <3>2
    <3>3. CASE i # 1
      BY <1>3, <3>1, <3>3 DEF Free
    <3> QED BY <3>2, <3>3
  <2> QED BY <2>2, <2>3, <2>4
<1>5. \A i, j \in DOMAIN g : g[i] = g[j] => i = j
  <2>1. \A i \in DOMAIN g : i # 1 => g[i] # b
    <3>1. \A i \in DOMAIN f : f[i] # b
      BY <1>1 DEF Free
    <3> QED BY <1>3, <3>1
  <2>2. \A i, j \in DOMAIN g : i # 1 /\ j # 1 /\ g[i] = g[j] => i - 1 = j - 1
    BY <1>1, <1>3
  <2> QED BY <1>3, <2>1, <2>2
<1>6. Existing(q) = Existing(p) /\ Grown(p, q)
  BY <1>2 DEF Existing, Grown, OnlyLarge, Capacity
<1>7. PoolOK(q)
  BY <1>1, <1>2, <1>4, <1>5, <1>6 DEF PoolOK
<1> QED BY <1>4, <1>6, <1>7 DEF q

\* kvs_free and kvs_malloc on any pool, a block given back twice or not.
LEMMA AnyFree ==
    ASSUME NEW p, AnyPool(p), NEW b \in Blocks PROVE AnyPool(kvs_free(p, b))
<1>1. p \in PoolType /\ p.free_list \in Seq(Blocks) /\ Len(p.heap) <= MaxHeap
  BY DEF AnyPool, PoolType
<1>2. <<b>> \o p.free_list \in Seq(Blocks)
  BY <1>1
<1>3. kvs_free(p, b) \in PoolType /\ kvs_free(p, b).heap = p.heap
  BY <1>1, <1>2 DEF kvs_free, PoolType
<1> QED BY <1>1, <1>3 DEF AnyPool

LEMMA AnyMalloc ==
    ASSUME NEW p, AnyPool(p), NEW n \in Nat, NEW r, r = kvs_malloc(p, n)
    PROVE  AnyPool(r.pool) /\ (r.ptr = NULL \/ r.ptr \in Blocks)
<1>1. /\ p \in PoolType /\ p.free_list \in Seq(Blocks) /\ p.heap \in Seq(Nat)
      /\ Len(p.heap) <= MaxHeap /\ Len(p.heap) \in Nat
      /\ POOL_CHUNK_COUNT \in Nat /\ MaxHeap \in Nat
  BY PoolAssumption DEF AnyPool, PoolType
<1>2. CASE FromPool(p, n)
  <2>1. p.free_list # <<>>
    BY <1>2 DEF FromPool
  <2>2. Head(p.free_list) \in Blocks /\ Tail(p.free_list) \in Seq(Blocks)
    BY <1>1, <2>1
  <2>3. r = [ptr |-> Head(p.free_list), pool |-> kvs_mempool_alloc(p)]
    BY <1>2 DEF kvs_malloc
  <2>4. kvs_mempool_alloc(p) \in PoolType /\ kvs_mempool_alloc(p).heap = p.heap
    BY <1>1, <2>2 DEF kvs_mempool_alloc, PoolType
  <2> QED BY <1>1, <2>2, <2>3, <2>4 DEF AnyPool
<1>3. CASE ~FromPool(p, n) /\ Len(p.heap) < MaxHeap
  <2> DEFINE q == [p EXCEPT !.heap = Append(@, n)]
  <2>1. r = [ptr |-> POOL_CHUNK_COUNT + Len(p.heap) + 1, pool |-> q]
    BY <1>3 DEF kvs_malloc
  <2>2. Append(p.heap, n) \in Seq(Nat) /\ Len(Append(p.heap, n)) = Len(p.heap) + 1
    BY <1>1
  <2>3. q \in PoolType /\ q.heap = Append(p.heap, n)
    BY <1>1, <2>2 DEF PoolType
  <2>4. POOL_CHUNK_COUNT + Len(p.heap) + 1 \in Blocks
    BY <1>1, <1>3 DEF Blocks
  <2> HIDE DEF q
  <2> QED BY <1>1, <1>3, <2>1, <2>2, <2>3, <2>4 DEF AnyPool
<1>4. CASE ~FromPool(p, n) /\ ~(Len(p.heap) < MaxHeap)
  BY <1>4 DEF kvs_malloc
<1> QED BY <1>2, <1>3, <1>4

LEMMA MemoryIsPool == ASSUME NEW p, NEW N, Memory(p, N) PROVE AnyPool(p)
  BY DEF Memory, PoolOK, AnyPool

-----------------------------------------------------------------------------
\* The chains.

LEMMA HashIsSlot == ASSUME NEW k \in Keys PROVE Hash(k) \in Slots
<1>1. MAX_TABLE_SIZE \in Nat /\ MAX_TABLE_SIZE > 0 /\ KeySum[k] \in Nat
  BY TableAssumption
<1> QED BY <1>1 DEF Hash, Slots

\* n stands at position i of chain s.
IsAt(t, s, i, n) == s \in Slots /\ i \in DOMAIN t[s] /\ t[s][i] = n

LEMMA NodesAreAt ==
    ASSUME NEW t, ChainsOK(t)
    PROVE  /\ \A n : n \in NodesOf(t) <=> \E s, i : IsAt(t, s, i, n)
           /\ \A s, i, n : IsAt(t, s, i, n) => n \in Node /\ n.key \in Keys /\ s = Hash(n.key)
           /\ \A s, i, n : IsAt(t, s, i, n) => i \in Nat \ {0}
<1>1. ASSUME NEW s, NEW i, NEW n, IsAt(t, s, i, n)
      PROVE  n \in Node /\ n.key \in Keys /\ s = Hash(n.key) /\ i \in Nat \ {0}
  <2>1. s \in Slots /\ t[s] \in Seq(Node) /\ i \in DOMAIN t[s] /\ t[s][i] = n
    BY <1>1 DEF IsAt, ChainsOK
  <2>2. n \in Node /\ i \in Nat \ {0}
    BY <2>1
  <2> QED BY <2>1, <2>2 DEF ChainsOK, Node
<1>2. \A n : n \in NodesOf(t) => \E s, i : IsAt(t, s, i, n)
  BY DEF NodesOf, IsAt
<1>3. ASSUME NEW s, NEW i, NEW n, IsAt(t, s, i, n) PROVE n \in NodesOf(t)
  BY <1>1, <1>3 DEF NodesOf, IsAt
<1> QED BY <1>1, <1>2, <1>3

\* A key is at one position of the whole table.
LEMMA KeyIsOnce ==
    ASSUME NEW t, ChainsOK(t), NEW s, NEW i, NEW n, IsAt(t, s, i, n),
           NEW x, NEW j, NEW m, IsAt(t, x, j, m), n.key = m.key
    PROVE  s = x /\ i = j /\ n = m
<1>1. s = x
  BY NodesAreAt
<1>2. i = j
  BY <1>1 DEF ChainsOK, IsAt
<1> QED BY <1>1, <1>2 DEF IsAt

\* The two facts that make a table of chains a good one.
LEMMA GoodChains ==
    ASSUME NEW t, t \in [Slots -> Seq(Node)],
           \A s, i, n : IsAt(t, s, i, n) => s = Hash(n.key),
           \A s, i, j, n, m : IsAt(t, s, i, n) /\ IsAt(t, s, j, m) /\ n.key = m.key => i = j
    PROVE  ChainsOK(t)
  BY DEF ChainsOK, IsAt

\* A node is put at the head of its chain.
Prepended(t, n) == [t EXCEPT ![Hash(n.key)] = <<n>> \o @]

LEMMA Prepend ==
    ASSUME NEW t, ChainsOK(t), NEW n \in Node, n.key \notin KeysOf(NodesOf(t))
    PROVE  /\ ChainsOK(Prepended(t, n)) /\ NodesOf(Prepended(t, n)) = NodesOf(t) \cup {n}
<1> DEFINE u == Prepended(t, n)
           h == Hash(n.key)
<1>1. n.key \in Keys /\ h \in Slots /\ t \in [Slots -> Seq(Node)] /\ t[h] \in Seq(Node)
  BY HashIsSlot DEF Node, ChainsOK
<1>2. <<n>> \o t[h] \in Seq(Node)
  BY <1>1
<1>3. u \in [Slots -> Seq(Node)] /\ u[h] = <<n>> \o t[h] /\ \A s \in Slots : s # h => u[s] = t[s]
  BY <1>1, <1>2 DEF Prepended
<1>4. /\ DOMAIN u[h] = 1..(Len(t[h]) + 1) /\ u[h][1] = n /\ 1 \in DOMAIN u[h]
      /\ \A i \in DOMAIN t[h] : u[h][i + 1] = t[h][i] /\ i + 1 \in DOMAIN u[h]
      /\ \A i \in DOMAIN u[h] : i # 1 => i - 1 \in DOMAIN t[h] /\ u[h][i] = t[h][i - 1]
      /\ \A i \in DOMAIN u[h] : i \in Nat
  BY <1>1, <1>3
<1> HIDE DEF u, h
<1>5. ASSUME NEW s, NEW i, NEW m, IsAt(u, s, i, m)
      PROVE  \/ s = h /\ i = 1 /\ m = n
             \/ s = h /\ i # 1 /\ IsAt(t, s, i - 1, m)
             \/ s # h /\ IsAt(t, s, i, m)
  BY <1>1, <1>3, <1>4, <1>5 DEF IsAt
<1>6. ASSUME NEW s, NEW i, NEW m, IsAt(t, s, i, m)
      PROVE  \E j : IsAt(u, s, j, m)
  <2>1. CASE s = h
    <3>1. IsAt(u, s, i + 1, m)
      BY <1>4, <1>6, <2>1 DEF IsAt
    <3> QED BY <3>1
  <2>2. CASE s # h
    <3>1. IsAt(u, s, i, m)
      BY <1>3, <1>6, <2>2 DEF IsAt
    <3> QED BY <3>1
  <2> QED BY <2>1, <2>2
<1>7. IsAt(u, h, 1, n)
  BY <1>1, <1>4 DEF IsAt
<1>8. \A s, i, m : IsAt(t, s, i, m) => s = Hash(m.key) /\ m.key # n.key /\ m \in NodesOf(t)
  <2>1. \A m \in NodesOf(t) : m.key # n.key
    BY <1>1 DEF KeysOf
  <2> QED BY <2>1, NodesAreAt
<1>9. \A s, i, m : IsAt(u, s, i, m) => s = Hash(m.key)
  BY <1>5, <1>8 DEF h
<1>10. ASSUME NEW s, NEW i, NEW j, NEW m, NEW o, IsAt(u, s, i, m), IsAt(u, s, j, o), m.key = o.key
       PROVE  i = j
  <2>1. (i \in Nat /\ j \in Nat) \/ s # h
    BY <1>4, <1>10 DEF IsAt
  <2>2. CASE i = 1 \/ j = 1 \/ s # h
    BY <1>5, <1>8, <1>10, <2>2, KeyIsOnce
  <2>3. CASE i # 1 /\ j # 1 /\ s = h
    <3>1. i - 1 = j - 1
      BY <1>5, <1>10, <2>3, KeyIsOnce
    <3> QED BY <2>1, <2>3, <3>1
  <2> QED BY <2>2, <2>3
<1>11. ChainsOK(u)
  BY <1>3, <1>9, <1>10, GoodChains
<1>12. \A m : m \in NodesOf(u) <=> m \in NodesOf(t) \cup {n}
  <2>1. \A m : m \in NodesOf(u) <=> \E s, i : IsAt(u, s, i, m)
    BY <1>11, NodesAreAt
  <2>2. \A m : m \in NodesOf(t) <=> \E s, i : IsAt(t, s, i, m)
    BY NodesAreAt
  <2> QED BY <1>5, <1>6, <1>7, <2>1, <2>2
<1> QED BY <1>11, <1>12 DEF u

\* A node is replaced by one of the same key.
Replaced(t, s, i, n) == [t EXCEPT ![s] = [@ EXCEPT ![i] = n]]

LEMMA Replace ==
    ASSUME NEW t, ChainsOK(t), NEW s, NEW i, NEW o, IsAt(t, s, i, o),
           NEW n \in Node, n.key = o.key
    PROVE  /\ ChainsOK(Replaced(t, s, i, n))
           /\ NodesOf(Replaced(t, s, i, n)) = (NodesOf(t) \ {o}) \cup {n}
<1> DEFINE u == Replaced(t, s, i, n)
<1>1. s \in Slots /\ t \in [Slots -> Seq(Node)] /\ t[s] \in Seq(Node) /\ i \in DOMAIN t[s]
  BY DEF IsAt, ChainsOK
<1>2. [t[s] EXCEPT ![i] = n] \in Seq(Node)
  BY <1>1
<1>3. /\ u \in [Slots -> Seq(Node)] /\ u[s] = [t[s] EXCEPT ![i] = n]
      /\ \A x \in Slots : x # s => u[x] = t[x]
  BY <1>1, <1>2 DEF Replaced
<1>4. DOMAIN u[s] = DOMAIN t[s] /\ u[s][i] = n /\ \A j \in DOMAIN t[s] : j # i => u[s][j] = t[s][j]
  BY <1>1, <1>3
<1> HIDE DEF u
<1>5. ASSUME NEW x, NEW j, NEW m
      PROVE  IsAt(u, x, j, m) <=> IF x = s /\ j = i THEN m = n ELSE IsAt(t, x, j, m)
  BY <1>1, <1>3, <1>4 DEF IsAt
<1>6. \A x, j, m : IsAt(t, x, j, m) /\ m.key = o.key => x = s /\ j = i /\ m = o
  BY KeyIsOnce
<1>7. \A x, j, m : IsAt(u, x, j, m) => x = Hash(m.key)
  BY <1>5, NodesAreAt
<1>8. \A x, j, l, m, k : IsAt(u, x, j, m) /\ IsAt(u, x, l, k) /\ m.key = k.key => j = l
  BY <1>5, <1>6, KeyIsOnce
<1>9. ChainsOK(u)
  BY <1>3, <1>7, <1>8, GoodChains
<1>10. \A m : m \in NodesOf(u) <=> m \in (NodesOf(t) \ {o}) \cup {n}
  <2>1. \A m : m \in NodesOf(u) <=> \E x, j : IsAt(u, x, j, m)
    BY <1>9, NodesAreAt
  <2>2. \A m : m \in NodesOf(t) <=> \E x, j : IsAt(t, x, j, m)
    BY NodesAreAt
  <2>3. \A m : m \in NodesOf(u) => m = n \/ (m \in NodesOf(t) /\ m # o)
    BY <1>5, <1>6, <2>1, <2>2
  <2>4. n \in NodesOf(u)
    BY <1>5, <2>1
  <2>5. ASSUME NEW m \in NodesOf(t), m # o PROVE m \in NodesOf(u)
    <3>1. PICK x, j : IsAt(t, x, j, m)
      BY <2>2, <2>5
    <3>2. ~(x = s /\ j = i)
      BY <2>5, <3>1 DEF IsAt
    <3> QED BY <1>5, <2>1, <3>1, <3>2
  <2> QED BY <2>3, <2>4, <2>5
<1> QED BY <1>9, <1>10 DEF u

\* A node is unlinked.
Removed(t, s, i) == [t EXCEPT ![s] = Without(@, i)]

LEMMA Remove ==
    ASSUME NEW t, ChainsOK(t), NEW s, NEW i, NEW o, IsAt(t, s, i, o)
    PROVE  ChainsOK(Removed(t, s, i)) /\ NodesOf(Removed(t, s, i)) = NodesOf(t) \ {o}
<1> DEFINE u == Removed(t, s, i)
           c == t[s]
           d == Without(c, i)
<1>1. /\ s \in Slots /\ t \in [Slots -> Seq(Node)] /\ c \in Seq(Node) /\ i \in DOMAIN c
      /\ DOMAIN c = 1..Len(c) /\ Len(c) \in Nat /\ Len(c) - 1 \in Nat /\ i \in Nat
      /\ \A j \in DOMAIN c : c[j] \in Node
  BY DEF IsAt, ChainsOK
<1>2. DOMAIN d = 1..(Len(c) - 1)
  BY <1>1 DEF Without
<1>3. ASSUME NEW j \in 1..(Len(c) - 1)
      PROVE  /\ j < i => d[j] = c[j] /\ j \in DOMAIN c
             /\ ~(j < i) => d[j] = c[j + 1] /\ j + 1 \in DOMAIN c
  BY <1>1 DEF Without
<1>4. d \in Seq(Node)
  <2>1. \A j \in 1..(Len(c) - 1) : d[j] \in Node
    BY <1>1, <1>3
  <2>2. d = [j \in 1..(Len(c) - 1) |-> d[j]]
    BY DEF Without
  <2> HIDE DEF d
  <2> QED BY <1>1, <2>1, <2>2
<1>5. u \in [Slots -> Seq(Node)] /\ u[s] = d /\ \A x \in Slots : x # s => u[x] = t[x]
  BY <1>1, <1>4 DEF Removed
<1> HIDE DEF u, c, d
<1>6. ASSUME NEW x, NEW j, NEW m, IsAt(u, x, j, m)
      PROVE  \/ x # s /\ IsAt(t, x, j, m)
             \/ x = s /\ j \in Nat /\ j < i /\ IsAt(t, x, j, m)
             \/ x = s /\ j \in Nat /\ j >= i /\ IsAt(t, x, j + 1, m)
  <2>1. CASE x # s
    BY <1>5, <1>6, <2>1 DEF IsAt
  <2>2. CASE x = s
    <3>1. j \in 1..(Len(c) - 1) /\ d[j] = m
      BY <1>2, <1>5, <1>6, <2>2 DEF IsAt
    <3>2. j \in Nat
      BY <1>1, <3>1
    <3>3. CASE j < i
      BY <1>1, <1>3, <2>2, <3>1, <3>2, <3>3 DEF IsAt, c
    <3>4. CASE ~(j < i)
      BY <1>1, <1>3, <2>2, <3>1, <3>2, <3>4 DEF IsAt, c
    <3> QED BY <3>3, <3>4
  <2> QED BY <2>1, <2>2
<1>7. ASSUME NEW x, NEW j, NEW m, IsAt(t, x, j, m), m # o
      PROVE  \E l : IsAt(u, x, l, m)
  <2>1. CASE x # s
    BY <1>5, <1>7, <2>1 DEF IsAt
  <2>2. CASE x = s
    <3>1. j \in DOMAIN c /\ c[j] = m /\ j # i
      BY <1>7, <2>2 DEF IsAt, c
    <3>2. CASE j < i
      <4>1. j \in 1..(Len(c) - 1)
        BY <1>1, <3>1, <3>2
      <4>2. IsAt(u, x, j, m)
        BY <1>1, <1>2, <1>3, <1>5, <2>2, <3>1, <3>2, <4>1 DEF IsAt
      <4> QED BY <4>2
    <3>3. CASE ~(j < i)
      <4>1. j - 1 \in 1..(Len(c) - 1) /\ ~(j - 1 < i) /\ (j - 1) + 1 = j
        BY <1>1, <3>1, <3>3
      <4>2. IsAt(u, x, j - 1, m)
        BY <1>1, <1>2, <1>3, <1>5, <2>2, <3>1, <3>3, <4>1 DEF IsAt
      <4> QED BY <4>2
    <3> QED BY <3>2, <3>3
  <2> QED BY <2>1, <2>2
<1>8. \A x, j, m : IsAt(u, x, j, m) => m \in NodesOf(t) /\ x = Hash(m.key)
  BY <1>6, NodesAreAt
<1>9. ASSUME NEW x, NEW j, NEW m, IsAt(u, x, j, m) PROVE m # o
  <2>1. SUFFICES ASSUME m = o PROVE FALSE
    OBVIOUS
  <2>2. x = s
    BY <1>6, <1>9, <2>1, KeyIsOnce
  <2>3. CASE j < i
    BY <1>6, <1>9, <1>1, <2>1, <2>2, <2>3, KeyIsOnce
  <2>4. CASE ~(j < i)
    <3>1. IsAt(t, s, j + 1, o) /\ j >= i /\ j \in Nat
      BY <1>6, <1>9, <2>1, <2>2, <2>4
    <3>2. j + 1 = i
      BY <3>1, KeyIsOnce
    <3> QED BY <1>1, <3>1, <3>2
  <2> QED BY <2>3, <2>4
<1>10. ASSUME NEW x, NEW j, NEW l, NEW m, NEW k, IsAt(u, x, j, m), IsAt(u, x, l, k), m.key = k.key
       PROVE  j = l
  <2>1. \A a, b : IsAt(t, x, a, m) /\ IsAt(t, x, b, k) => a = b
    BY <1>10, KeyIsOnce
  <2>2. CASE x # s
    BY <1>6, <1>10, <2>1, <2>2
  <2>3. CASE x = s
    <3>1. j \in Nat /\ l \in Nat
      BY <1>6, <1>10, <2>3
    <3>2. CASE j < i /\ l < i
      BY <1>1, <1>6, <1>10, <2>1, <3>1, <3>2
    <3>3. CASE ~(j < i) /\ ~(l < i)
      <4>1. j + 1 = l + 1
        BY <1>1, <1>6, <1>10, <2>1, <2>3, <3>1, <3>3
      <4> QED BY <3>1, <4>1
    <3>4. CASE j < i /\ ~(l < i)
      <4>1. j = l + 1
        BY <1>1, <1>6, <1>10, <2>1, <2>3, <3>1, <3>4
      <4> QED BY <1>1, <3>1, <3>4, <4>1
    <3>5. CASE ~(j < i) /\ l < i
      <4>1. j + 1 = l
        BY <1>1, <1>6, <1>10, <2>1, <2>3, <3>1, <3>5
      <4> QED BY <1>1, <3>1, <3>5, <4>1
    <3> QED BY <3>2, <3>3, <3>4, <3>5
  <2> QED BY <2>2, <2>3
<1>11. ChainsOK(u)
  BY <1>5, <1>8, <1>10, GoodChains
<1>12. \A m : m \in NodesOf(u) <=> m \in NodesOf(t) \ {o}
  <2>1. \A m : m \in NodesOf(u) <=> \E x, j : IsAt(u, x, j, m)
    BY <1>11, NodesAreAt
  <2>2. \A m : m \in NodesOf(t) <=> \E x, j : IsAt(t, x, j, m)
    BY NodesAreAt
  <2> QED BY <1>7, <1>8, <1>9, <2>1, <2>2
<1> QED BY <1>11, <1>12 DEF u

\* What a scan of a chain finds.
LEMMA ScanFinds ==
    ASSUME ChainsOK(nodes), NEW k \in Keys, Found(k) # {}
    PROVE  /\ k # NULL /\ IsAt(nodes, Hash(k), First(k), At(k)) /\ At(k).key = k
           /\ At(k) \in NodesOf(nodes) /\ At(k) \in Node
<1>1. k # NULL /\ \A i : i \in Found(k) <=> i \in DOMAIN nodes[Hash(k)] /\ nodes[Hash(k)][i].key = k
  BY DEF Found
<1>2. PICK i : i \in Found(k)
  OBVIOUS
<1>3. Hash(k) \in Slots /\ \A j \in Found(k) : j \in DOMAIN nodes[Hash(k)]
  BY <1>1, HashIsSlot
<1>4. \A j \in Found(k) : j = i
  BY <1>1, <1>2, <1>3 DEF ChainsOK
<1>5. i \in Nat
  BY <1>1, <1>2, <1>3 DEF ChainsOK
<1>6. i <= i
  BY <1>5
<1>7. First(k) \in Found(k)
  BY <1>2, <1>4, <1>6 DEF First
<1>8. IsAt(nodes, Hash(k), First(k), At(k)) /\ At(k).key = k
  BY <1>1, <1>3, <1>7 DEF IsAt, At
<1> QED BY <1>1, <1>8, NodesAreAt

LEMMA ScanMisses ==
    ASSUME ChainsOK(nodes), NEW k \in Keys, k # NULL, Found(k) = {}
    PROVE  k \notin KeysOf(NodesOf(nodes))
<1> SUFFICES ASSUME k \in KeysOf(NodesOf(nodes)) PROVE FALSE
  OBVIOUS
<1>1. PICK n \in NodesOf(nodes) : n.key = k
  BY DEF KeysOf
<1>2. PICK s, i : IsAt(nodes, s, i, n)
  BY <1>1, NodesAreAt
<1>3. s = Hash(k)
  BY <1>1, <1>2, NodesAreAt
<1> QED BY <1>1, <1>2, <1>3 DEF Found, IsAt

-----------------------------------------------------------------------------
\* The memory of the nodes.

LEMMA NodeFields ==
    ASSUME NEW n \in Node
    PROVE  /\ n.blk \in Blocks /\ n.kblk \in Blocks /\ n.vblk \in Blocks
           /\ n.key \in Keys /\ n.val \in Values \cup {Lost} /\ Ptrs(n) \subseteq Blocks
<1>1. /\ n.blk \in Blocks /\ n.kblk \in Blocks /\ n.vblk \in Blocks
      /\ n.key \in Keys /\ n.val \in Values \cup {Lost}
  BY DEF Node
<1> QED BY <1>1 DEF Ptrs

\* The blocks U are in use in the good pool p.
Using(p, U) == PoolOK(p) /\ InUse(p, U)

LEMMA UseFewer ==
    ASSUME NEW p, NEW U, NEW V, Using(p, U), V \subseteq U PROVE Using(p, V)
  BY DEF Using, InUse

LEMMA UseOneMore ==
    ASSUME NEW p, NEW U, NEW n, NEW r, Using(p, U), Served(p, n, r), r.ptr # NULL
    PROVE  /\ Using(r.pool, U \cup {r.ptr}) /\ r.ptr \notin U /\ r.ptr \in Blocks
           /\ r.ptr \in Existing(r.pool)
<1>1. /\ PoolOK(r.pool) /\ Free(r.pool) \subseteq Free(p) /\ Existing(p) \subseteq Existing(r.pool)
      /\ r.ptr \in Existing(r.pool) /\ r.ptr \notin Free(r.pool)
      /\ r.ptr \in Free(p) \/ r.ptr \notin Existing(p)
  BY DEF Served, Grown
<1>2. Existing(r.pool) \subseteq Blocks
  BY <1>1, PoolParts
<1> QED BY <1>1, <1>2 DEF Using, InUse

LEMMA UseOneLess ==
    ASSUME NEW p, NEW U, Using(p, U), NEW b \in U
    PROVE  Using(kvs_free(p, b), U \ {b}) /\ Grown(p, kvs_free(p, b))
<1>1. PoolOK(p) /\ b \in Existing(p) /\ b \notin Free(p)
  BY DEF Using, InUse
<1>2. /\ PoolOK(kvs_free(p, b)) /\ Free(kvs_free(p, b)) = Free(p) \cup {b}
      /\ Existing(kvs_free(p, b)) = Existing(p) /\ Grown(p, kvs_free(p, b))
  BY <1>1, FreeTakesBack
<1> QED BY <1>2 DEF Using, InUse

\* What fits into its block goes on doing so.
LEMMA FitsLater ==
    ASSUME NEW p, NEW q, Grown(p, q), NEW n, Ptrs(n) \subseteq Existing(p), Fits(p, n)
    PROVE  Fits(q, n)
<1>1. n.blk \in Existing(p) /\ n.kblk \in Existing(p) /\ (n.val # Lost => n.vblk \in Existing(p))
  BY DEF Ptrs
<1> QED BY <1>1 DEF Fits, Grown

LEMMA AllFitLater ==
    ASSUME NEW p, NEW q, NEW N, N \subseteq Node, Memory(p, N), Grown(p, q), OnlyLarge(q),
           NEW n \in N
    PROVE  Fits(q, n)
<1>1. OnlyLarge(p) /\ Fits(p, n)
  BY DEF Grown, Memory
<1>2. Ptrs(n) \subseteq AllPtrs(N)
  BY NodeFields DEF AllPtrs
<1>3. Ptrs(n) \subseteq Existing(p)
  BY <1>2 DEF Memory, InUse
<1> QED BY <1>1, <1>3, FitsLater

\* The three blocks of a new node, one after the other.
ThreeServed(p, k, v, a, b, c) ==
    /\ Served(p, NODE_SIZE, a) /\ Served(a.pool, KeySize[k], b) /\ Served(b.pool, ValueSize[v], c)
    /\ a.ptr # NULL /\ b.ptr # NULL /\ c.ptr # NULL

LEMMA NodeGetsMemory ==
    ASSUME NEW p, NEW N, N \subseteq Node, Memory(p, N), NEW k \in Keys, NEW v \in Values,
           NEW a, NEW b, NEW c, ThreeServed(p, k, v, a, b, c),
           NEW n, n.blk = a.ptr, n.kblk = b.ptr, n.vblk = c.ptr, n.key = k, n.val = v
    PROVE  /\ Memory(c.pool, N \cup {n})
           /\ a.ptr \in Blocks /\ b.ptr \in Blocks /\ c.ptr \in Blocks
<1> DEFINE U == AllPtrs(N)
<1>1. Using(p, U)
  BY DEF Memory, Using
<1>2. /\ Using(a.pool, U \cup {a.ptr}) /\ a.ptr \notin U /\ a.ptr \in Blocks
      /\ a.ptr \in Existing(a.pool)
  BY <1>1, UseOneMore DEF ThreeServed
<1>3. /\ Using(b.pool, (U \cup {a.ptr}) \cup {b.ptr}) /\ b.ptr \notin U \cup {a.ptr}
      /\ b.ptr \in Blocks /\ b.ptr \in Existing(b.pool)
  BY <1>2, UseOneMore DEF ThreeServed
<1>4. /\ Using(c.pool, ((U \cup {a.ptr}) \cup {b.ptr}) \cup {c.ptr})
      /\ c.ptr \notin (U \cup {a.ptr}) \cup {b.ptr} /\ c.ptr \in Blocks
  BY <1>3, UseOneMore DEF ThreeServed
<1>5. Lost # v
  BY ValuesAssumption
<1>6. Ptrs(n) = {a.ptr, b.ptr, c.ptr}
  BY <1>5 DEF Ptrs
<1>7. AllPtrs(N \cup {n}) \subseteq ((U \cup {a.ptr}) \cup {b.ptr}) \cup {c.ptr}
  BY <1>6 DEF AllPtrs
<1>8. Using(c.pool, AllPtrs(N \cup {n}))
  BY <1>4, <1>7, UseFewer
<1>9. NoSharing(N \cup {n})
  <2>1. Apart(n)
    BY <1>3, <1>4 DEF Apart
  <2>2. ASSUME NEW m \in N PROVE Ptrs(m) \cap Ptrs(n) = {}
    <3>1. Ptrs(m) \subseteq U
      BY NodeFields DEF AllPtrs
    <3> QED BY <1>2, <1>3, <1>4, <1>6, <3>1
  <2>3. \A m, o \in N : m # o => Ptrs(m) \cap Ptrs(o) = {}
    BY DEF Memory, NoSharing
  <2>4. \A m \in N : Apart(m)
    BY DEF Memory, NoSharing
  <2> QED BY <2>1, <2>2, <2>3, <2>4 DEF NoSharing
<1>10. Grown(p, a.pool) /\ Grown(a.pool, b.pool) /\ Grown(b.pool, c.pool)
  BY DEF ThreeServed, Served
<1>11. Grown(a.pool, c.pool) /\ Grown(p, c.pool)
  BY <1>10, GrownTwice
<1>12. ASSUME OnlyLarge(c.pool) PROVE Fits(c.pool, n)
  <2>1. OnlyLarge(a.pool) /\ OnlyLarge(b.pool)
    BY <1>10, <1>11, <1>12 DEF Grown
  <2>2. /\ NODE_SIZE <= Capacity(a.pool, a.ptr) /\ KeySize[k] <= Capacity(b.pool, b.ptr)
        /\ ValueSize[v] <= Capacity(c.pool, c.ptr)
    BY <1>12, <2>1 DEF ThreeServed, Served
  <2>3. Capacity(c.pool, a.ptr) = Capacity(a.pool, a.ptr) /\ Capacity(c.pool, b.ptr) = Capacity(b.pool, b.ptr)
    BY <1>2, <1>3, <1>10, <1>11 DEF Grown
  <2> QED BY <2>2, <2>3 DEF Fits
<1>13. OnlyLarge(c.pool) => \A m \in N \cup {n} : Fits(c.pool, m)
  BY <1>11, <1>12, AllFitLater
<1> QED BY <1>2, <1>3, <1>4, <1>8, <1>9, <1>13 DEF Memory, Using

\* MOD: the value's block goes to the free list and a block comes from it.
LEMMA ValueGetsMemory ==
    ASSUME NEW p, NEW N, N \subseteq Node, Memory(p, N), NEW n \in N, n.val # Lost,
           NEW v \in Values, NEW r, Served(kvs_free(p, n.vblk), ValueSize[v], r)
    PROVE  Memory(r.pool, (N \ {n}) \cup {Modified(n, v, r.ptr)})
<1> DEFINE U == AllPtrs(N)
           q == kvs_free(p, n.vblk)
           m == Modified(n, v, r.ptr)
           M == (N \ {n}) \cup {m}
<1>1. Using(p, U) /\ n \in Node
  BY DEF Memory, Using
<1>2. n.vblk \in U /\ n.vblk \in Ptrs(n)
  BY <1>1, NodeFields DEF AllPtrs, Ptrs
<1>3. Using(q, U \ {n.vblk}) /\ Grown(p, q)
  BY <1>1, <1>2, UseOneLess
<1> HIDE DEF q
<1>4. Grown(p, r.pool) /\ PoolOK(r.pool)
  <2>1. Grown(q, r.pool) /\ PoolOK(r.pool)
    BY DEF Served, q
  <2> QED BY <1>3, <2>1, GrownTwice
<1>5. \A o \in N : Apart(o) /\ Ptrs(o) \subseteq U
  BY NodeFields DEF Memory, NoSharing, AllPtrs
<1>6. \A o \in N : o # n => Ptrs(o) \cap Ptrs(n) = {}
  BY DEF Memory, NoSharing
<1>7. \A o, l \in N : o # l => Ptrs(o) \cap Ptrs(l) = {}
  BY DEF Memory, NoSharing
<1>8. n.vblk # n.blk /\ n.vblk # n.kblk /\ n.blk # n.kblk
  BY <1>5 DEF Apart
<1>9. \A o \in N \ {n} : Ptrs(o) \subseteq U \ {n.vblk}
  BY <1>2, <1>5, <1>6
<1>10. {n.blk, n.kblk} \subseteq U \ {n.vblk} /\ \A o \in N \ {n} : n.blk \notin Ptrs(o) /\ n.kblk \notin Ptrs(o)
  <2>1. n.blk \in Ptrs(n) /\ n.kblk \in Ptrs(n)
    BY DEF Ptrs
  <2> QED BY <1>5, <1>6, <1>8, <2>1
<1>11. m.blk = n.blk /\ m.kblk = n.kblk /\ m.key = n.key
  BY <1>1 DEF Modified, Node
<1>12. OnlyLarge(r.pool) => \A o \in N : Fits(r.pool, o)
  BY <1>4, AllFitLater
<1>13. CASE r.ptr = NULL
  <2>1. m.val = Lost
    BY <1>1, <1>13 DEF Modified, Node
  <2> HIDE DEF m
  <2>2. Ptrs(m) = {n.blk, n.kblk}
    BY <1>11, <2>1 DEF Ptrs
  <2>3. AllPtrs(M) \subseteq U \ {n.vblk}
    BY <1>9, <1>10, <2>2 DEF AllPtrs
  <2>4. r.pool = q
    BY <1>13 DEF Served, q
  <2>5. Using(r.pool, AllPtrs(M))
    BY <1>3, <2>3, <2>4, UseFewer
  <2>6. NoSharing(M)
    <3>1. Apart(m)
      BY <1>8, <1>11, <2>1 DEF Apart
    <3>2. \A o \in N \ {n} : Ptrs(o) \cap Ptrs(m) = {}
      BY <1>10, <2>2
    <3> QED BY <1>5, <1>7, <3>1, <3>2 DEF NoSharing
  <2>7. OnlyLarge(r.pool) => Fits(r.pool, m)
    <3>1. OnlyLarge(r.pool) => Fits(r.pool, n)
      BY <1>12
    <3> QED BY <1>11, <2>1, <3>1 DEF Fits
  <2> QED BY <1>12, <2>5, <2>6, <2>7 DEF Memory, Using, m
<1>14. CASE r.ptr # NULL
  <2>1. m.val = v /\ m.vblk = r.ptr
    BY <1>1, <1>14 DEF Modified, Node
  <2> HIDE DEF m
  <2>2. v # Lost
    BY ValuesAssumption
  <2>3. Ptrs(m) = {n.blk, n.kblk, r.ptr}
    BY <1>11, <2>1, <2>2 DEF Ptrs
  <2>4. /\ Using(r.pool, (U \ {n.vblk}) \cup {r.ptr}) /\ r.ptr \notin U \ {n.vblk}
    BY <1>3, <1>14, UseOneMore DEF q
  <2>5. AllPtrs(M) \subseteq (U \ {n.vblk}) \cup {r.ptr}
    BY <1>9, <1>10, <2>3 DEF AllPtrs
  <2>6. Using(r.pool, AllPtrs(M))
    BY <2>4, <2>5, UseFewer
  <2>7. NoSharing(M)
    <3>1. Apart(m)
      BY <1>8, <1>10, <1>11, <2>1, <2>4 DEF Apart
    <3>2. \A o \in N \ {n} : Ptrs(o) \cap Ptrs(m) = {}
      BY <1>9, <1>10, <2>3, <2>4
    <3> QED BY <1>5, <1>7, <3>1, <3>2 DEF NoSharing
  <2>8. OnlyLarge(r.pool) => Fits(r.pool, m)
    <3>1. OnlyLarge(r.pool) => Fits(r.pool, n) /\ ValueSize[v] <= Capacity(r.pool, r.ptr)
      BY <1>12, <1>14 DEF Served
    <3> QED BY <1>11, <2>1, <3>1 DEF Fits
  <2> QED BY <1>12, <2>6, <2>7, <2>8 DEF Memory, Using, m
<1> QED BY <1>13, <1>14

\* DEL: the node's block, or all three, go to the free list.
LEMMA NodeGivesMemory ==
    ASSUME NEW p, NEW N, N \subseteq Node, Memory(p, N), NEW n \in N, NEW i,
           n.val # Lost \/ i = 1
    PROVE  Memory(FreedByDel(p, i, n), N \ {n})
<1> DEFINE U == AllPtrs(N)
           q == FreedByDel(p, i, n)
<1>1. Using(p, U) /\ n \in Node
  BY DEF Memory, Using
<1>2. \A o \in N : Apart(o) /\ Ptrs(o) \subseteq U
  BY NodeFields DEF Memory, NoSharing, AllPtrs
<1>3. \A o, l \in N : o # l => Ptrs(o) \cap Ptrs(l) = {}
  BY DEF Memory, NoSharing
<1>4. n.blk \in Ptrs(n) /\ n.kblk \in Ptrs(n) /\ (n.val # Lost => n.vblk \in Ptrs(n))
  BY DEF Ptrs
<1>5. AllPtrs(N \ {n}) \subseteq U \ Ptrs(n)
  BY <1>3 DEF AllPtrs
<1>6. NoSharing(N \ {n})
  BY <1>2, <1>3 DEF NoSharing
<1>7. Using(q, AllPtrs(N \ {n})) /\ Grown(p, q)
  <2>1. CASE i = 1
    <3>1. q = kvs_free(p, n.blk)
      BY <2>1 DEF FreedByDel
    <3> HIDE DEF q
    <3>2. Using(q, U \ {n.blk}) /\ Grown(p, q)
      BY <1>1, <1>2, <1>4, <3>1, UseOneLess
    <3> QED BY <1>4, <1>5, <3>2, UseFewer
  <2>2. CASE i # 1
    <3> DEFINE a == kvs_free(p, n.kblk)
               b == kvs_free(a, n.vblk)
    <3>1. q = kvs_free(b, n.blk)
      BY <2>2 DEF FreedByDel
    <3>2. n.val # Lost /\ n.blk # n.kblk /\ n.vblk # n.blk /\ n.vblk # n.kblk
      BY <1>2, <2>2 DEF Apart
    <3>3. Using(a, U \ {n.kblk}) /\ Grown(p, a)
      BY <1>1, <1>2, <1>4, UseOneLess
    <3>4. n.vblk \in U \ {n.kblk}
      BY <1>2, <1>4, <3>2
    <3> HIDE DEF a, q
    <3>5. Using(b, (U \ {n.kblk}) \ {n.vblk}) /\ Grown(a, b)
      BY <3>3, <3>4, UseOneLess
    <3>6. n.blk \in (U \ {n.kblk}) \ {n.vblk}
      BY <1>2, <1>4, <3>2
    <3> HIDE DEF b
    <3>7. Using(q, ((U \ {n.kblk}) \ {n.vblk}) \ {n.blk}) /\ Grown(b, q)
      BY <3>1, <3>5, <3>6, UseOneLess
    <3>8. U \ Ptrs(n) \subseteq ((U \ {n.kblk}) \ {n.vblk}) \ {n.blk}
      BY <1>4, <3>2
    <3>9. Using(q, AllPtrs(N \ {n}))
      BY <1>5, <3>7, <3>8, UseFewer
    <3>10. Grown(p, b)
      BY <3>3, <3>5, GrownTwice
    <3> QED BY <3>7, <3>9, <3>10, GrownTwice
  <2> QED BY <2>1, <2>2
<1> HIDE DEF q
<1>8. OnlyLarge(q) => \A o \in N : Fits(q, o)
  BY <1>7, AllFitLater
<1> QED BY <1>6, <1>7, <1>8 DEF Memory, Using, q

-----------------------------------------------------------------------------
\* The map and the count.

LEMMA NodesSubset == ASSUME NEW t PROVE NodesOf(t) \subseteq Node
  BY DEF NodesOf

LEMMA NodeOfKey ==
    ASSUME NEW t, ChainsOK(t), NEW n \in NodesOf(t), NEW m \in NodesOf(t), n.key = m.key
    PROVE  n = m
<1>1. PICK s, i : IsAt(t, s, i, n)
  BY NodesAreAt
<1>2. PICK x, j : IsAt(t, x, j, m)
  BY NodesAreAt
<1> QED BY <1>1, <1>2, KeyIsOnce

\* DictOf gives the value of the one node of a key.
LEMMA DictLooksUp ==
    ASSUME NEW t, ChainsOK(t)
    PROVE  /\ \A n \in NodesOf(t) : DictOf(t)[n.key] = n.val
           /\ \A k \in Keys : k \notin KeysOf(NodesOf(t)) => DictOf(t)[k] = NULL
<1>1. ASSUME NEW n \in NodesOf(t) PROVE DictOf(t)[n.key] = n.val
  <2> DEFINE k == n.key
             s == CHOOSE s \in Slots : \E i \in DOMAIN t[s] : t[s][i].key = k
             i == CHOOSE i \in DOMAIN t[s] : t[s][i].key = k
  <2>1. PICK x, j : IsAt(t, x, j, n)
    BY NodesAreAt
  <2>2. x \in Slots /\ j \in DOMAIN t[x] /\ t[x][j].key = k /\ k \in Keys
    BY <2>1, NodesAreAt DEF IsAt
  <2>3. s \in Slots /\ \E l \in DOMAIN t[s] : t[s][l].key = k
    BY <2>2
  <2>4. DictOf(t)[k] = t[s][i].val
    BY <2>2 DEF DictOf, ValueIn
  <2> HIDE DEF s
  <2>5. i \in DOMAIN t[s] /\ t[s][i].key = k
    BY <2>3
  <2> HIDE DEF i
  <2>6. IsAt(t, s, i, t[s][i])
    BY <2>3, <2>5 DEF IsAt
  <2>7. t[s][i] = n
    BY <2>1, <2>5, <2>6, KeyIsOnce
  <2> QED BY <2>4, <2>7
<1>2. ASSUME NEW k \in Keys, k \notin KeysOf(NodesOf(t)) PROVE DictOf(t)[k] = NULL
  <2>1. ASSUME NEW s \in Slots, NEW i \in DOMAIN t[s], t[s][i].key = k PROVE FALSE
    <3>1. IsAt(t, s, i, t[s][i])
      BY <2>1 DEF IsAt
    <3>2. t[s][i] \in NodesOf(t)
      BY <3>1, NodesAreAt
    <3> QED BY <1>2, <2>1, <3>2 DEF KeysOf
  <2> QED BY <2>1 DEF DictOf, ValueIn
<1> QED BY <1>1, <1>2

\* Two tables that differ in the node of the key k only.
SameBut(t, u, k) == \A m : m.key # k => (m \in NodesOf(u) <=> m \in NodesOf(t))

LEMMA DictChanges ==
    ASSUME NEW t, NEW u, ChainsOK(t), ChainsOK(u), NEW k \in Keys, SameBut(t, u, k)
    PROVE  DictOf(u) = [DictOf(t) EXCEPT ![k] = DictOf(u)[k]]
<1>1. ASSUME NEW x \in Keys, x # k PROVE DictOf(u)[x] = DictOf(t)[x]
  <2>1. CASE x \in KeysOf(NodesOf(t))
    <3>1. PICK n \in NodesOf(t) : n.key = x
      BY <2>1 DEF KeysOf
    <3>2. n \in NodesOf(u)
      BY <1>1, <3>1 DEF SameBut
    <3> QED BY <3>1, <3>2, DictLooksUp
  <2>2. CASE x \notin KeysOf(NodesOf(t))
    <3>1. x \notin KeysOf(NodesOf(u))
      BY <1>1, <2>2 DEF SameBut, KeysOf
    <3> QED BY <2>2, <3>1, DictLooksUp
  <2> QED BY <2>1, <2>2
<1> DEFINE f == DictOf(u)
           g == DictOf(t)
<1>2. f = [x \in Keys |-> f[x]] /\ g = [x \in Keys |-> g[x]]
  BY DEF DictOf
<1> HIDE DEF f, g
<1>3. \A x \in Keys : x # k => f[x] = g[x]
  BY <1>1 DEF f, g
<1>4. DOMAIN f = Keys /\ DOMAIN g = Keys
  BY <1>2
<1>5. f = [g EXCEPT ![k] = f[k]]
  <2> DEFINE h == [g EXCEPT ![k] = f[k]]
  <2>1. DOMAIN h = Keys /\ \A x \in Keys : h[x] = f[x]
    BY <1>3, <1>4
  <2>2. h = [x \in Keys |-> h[x]]
    BY <1>4
  <2> HIDE DEF h
  <2>3. h = f
    BY <1>2, <2>1, <2>2
  <2> QED BY <2>3 DEF h
<1> QED BY <1>5 DEF f, g

\* What DictOf tells of a key.
LEMMA DictHas ==
    ASSUME NEW t, ChainsOK(t), NEW k \in Keys
    PROVE  /\ DictOf(t)[k] # NULL <=> k \in KeysOf(NodesOf(t))
<1>1. CASE k \in KeysOf(NodesOf(t))
  <2>1. PICK n \in NodesOf(t) : n.key = k
    BY <1>1 DEF KeysOf
  <2>2. n.val \in Values \cup {Lost}
    BY NodesSubset, NodeFields
  <2>3. n.val # NULL
    BY <2>2, ValuesAssumption
  <2> QED BY <1>1, <2>1, <2>3, DictLooksUp
<1>2. CASE k \notin KeysOf(NodesOf(t))
  BY <1>2, DictLooksUp
<1> QED BY <1>1, <1>2

\* The keys after each change of the nodes.
LEMMA KeysAfter ==
    ASSUME NEW t, ChainsOK(t)
    PROVE  /\ \A n \in Node : KeysOf(NodesOf(t) \cup {n}) = KeysOf(NodesOf(t)) \cup {n.key}
           /\ \A o \in NodesOf(t) : KeysOf(NodesOf(t) \ {o}) = KeysOf(NodesOf(t)) \ {o.key}
           /\ \A o \in NodesOf(t), n \in Node : n.key = o.key =>
                 KeysOf((NodesOf(t) \ {o}) \cup {n}) = KeysOf(NodesOf(t))
<1> DEFINE N == NodesOf(t)
<1>1. N \subseteq Node /\ \A n \in Node : n.key \in Keys
  BY NodesSubset, NodeFields
<1>2. \A n, m \in N : n.key = m.key => n = m
  BY NodeOfKey
<1> HIDE DEF N
<1>3. \A n \in Node : KeysOf(N \cup {n}) = KeysOf(N) \cup {n.key}
  BY <1>1 DEF KeysOf
<1>4. ASSUME NEW o \in N PROVE KeysOf(N \ {o}) = KeysOf(N) \ {o.key}
  BY <1>1, <1>2 DEF KeysOf
<1>5. ASSUME NEW o \in N, NEW n \in Node, n.key = o.key
      PROVE  KeysOf((N \ {o}) \cup {n}) = KeysOf(N)
  BY <1>1, <1>5 DEF KeysOf
<1> QED BY <1>3, <1>4, <1>5 DEF N

\* A good table has the types TypeOK asks for.
LEMMA TableTypes ==
    ASSUME NEW t, NEW p, NEW c, NEW w, Table(t, p, c, w)
    PROVE  /\ p.free_list \in Seq(Blocks) /\ p.heap \in Seq(Nat) /\ Len(p.heap) <= MaxHeap
           /\ t \in [Slots -> Seq(Node)] /\ c \in Nat
<1>1. AnyPool(p) /\ ChainsOK(t) /\ Counted(t, c)
  BY DEF Table
<1>2. c \in Nat
  BY <1>1, FS_CardinalityType DEF Counted
<1> QED BY <1>1, <1>2 DEF ChainsOK, AnyPool, PoolType

\* A new table.
EmptyTable == [s \in Slots |-> <<>>]

LEMMA NewTable ==
    /\ \A w : Table(EmptyTable, kvs_mempool_create, 0, w)
    /\ DictOf(EmptyTable) = [k \in Keys |-> NULL]
<1>1. EmptyTable \in [Slots -> Seq(Node)] /\ \A s \in Slots : DOMAIN EmptyTable[s] = {}
  BY DEF EmptyTable
<1>2. ChainsOK(EmptyTable) /\ NodesOf(EmptyTable) = {}
  BY <1>1 DEF ChainsOK, NodesOf
<1>3. KeysOf({}) = {} /\ AllPtrs({}) = {}
  BY DEF KeysOf, AllPtrs
<1>4. Counted(EmptyTable, 0)
  BY <1>2, <1>3, FS_EmptySet DEF Counted
<1>5. Memory(kvs_mempool_create, {})
  BY <1>3, NewPool DEF Memory, InUse, NoSharing
<1>6. DictOf(EmptyTable) = [k \in Keys |-> NULL]
  BY <1>1 DEF DictOf, ValueIn
<1>7. AnyPool(kvs_mempool_create)
  BY <1>5, MemoryIsPool
<1> QED BY <1>2, <1>4, <1>5, <1>6, <1>7 DEF Table

-----------------------------------------------------------------------------
\* The operations.

\* The good table u, p, c, w is t with the value v for the key k.
Stored(t, u, p, c, w, k, v) == Table(u, p, c, w) /\ DictOf(u) = [DictOf(t) EXCEPT ![k] = v]

LEMMA SetStores ==
    ASSUME Table(nodes, pool, count, TRUE), NEW k \in Keys, NEW v \in Values, k # NULL,
           ~Known(k), Allocated(k, v).ok
    PROVE  Stored(nodes, [nodes EXCEPT ![Hash(k)] = <<Allocated(k, v).node>> \o @],
                  Allocated(k, v).pool, count + 1, TRUE, k, v)
<1> DEFINE a == kvs_malloc(pool, NODE_SIZE)
           b == kvs_malloc(a.pool, KeySize[k])
           c == kvs_malloc(b.pool, ValueSize[v])
           n == Allocated(k, v).node
           N == NodesOf(nodes)
<1>1. /\ a.ptr # NULL /\ b.ptr # NULL /\ c.ptr # NULL /\ Allocated(k, v).pool = c.pool
      /\ n = [blk |-> a.ptr, key |-> k, kblk |-> b.ptr, val |-> v, vblk |-> c.ptr]
  BY DEF Allocated
<1>2. /\ n.blk = a.ptr /\ n.kblk = b.ptr /\ n.vblk = c.ptr /\ n.key = k /\ n.val = v
  BY <1>1
<1> HIDE DEF n
<1>3. ChainsOK(nodes) /\ Memory(pool, N) /\ Counted(nodes, count) /\ N \subseteq Node
  BY NodesSubset DEF Table
<1>4. NODE_SIZE \in Nat /\ KeySize[k] \in Nat /\ ValueSize[v] \in Nat
  BY TableAssumption
<1>5. Served(pool, NODE_SIZE, a)
  BY <1>3, <1>4, MallocServes DEF Memory
<1>6. PoolOK(a.pool)
  BY <1>5 DEF Served
<1> HIDE DEF a
<1>7. Served(a.pool, KeySize[k], b)
  BY <1>4, <1>6, MallocServes
<1>8. PoolOK(b.pool)
  BY <1>7 DEF Served
<1> HIDE DEF b
<1>9. Served(b.pool, ValueSize[v], c)
  BY <1>4, <1>8, MallocServes
<1> HIDE DEF c
<1>10. ThreeServed(pool, k, v, a, b, c)
  BY <1>1, <1>5, <1>7, <1>9 DEF ThreeServed
<1>11. Memory(c.pool, N \cup {n}) /\ a.ptr \in Blocks /\ b.ptr \in Blocks /\ c.ptr \in Blocks
  BY <1>2, <1>3, <1>10, NodeGetsMemory
<1>12. n \in Node
  BY <1>1, <1>11 DEF Node
<1>13. k \notin KeysOf(N)
  BY <1>3, ScanMisses DEF Known
<1> DEFINE u == Prepended(nodes, n)
<1>14. u = [nodes EXCEPT ![Hash(k)] = <<n>> \o @]
  BY <1>2 DEF Prepended
<1> HIDE DEF u
<1>15. ChainsOK(u) /\ NodesOf(u) = N \cup {n}
  BY <1>2, <1>3, <1>12, <1>13, Prepend DEF u
<1>16. KeysOf(NodesOf(u)) = KeysOf(N) \cup {k}
  BY <1>2, <1>3, <1>12, <1>15, KeysAfter
<1>17. Counted(u, count + 1)
  BY <1>3, <1>13, <1>16, FS_AddElement DEF Counted
<1>18. Table(u, c.pool, count + 1, TRUE)
  BY <1>11, <1>15, <1>17, MemoryIsPool DEF Table
<1>19. SameBut(nodes, u, k)
  BY <1>2, <1>15 DEF SameBut
<1>20. DictOf(u)[k] = v
  <2>1. n \in NodesOf(u)
    BY <1>15
  <2> QED BY <1>2, <1>15, <2>1, DictLooksUp
<1>21. DictOf(u) = [DictOf(nodes) EXCEPT ![k] = v]
  BY <1>3, <1>15, <1>19, <1>20, DictChanges
<1> QED BY <1>1, <1>14, <1>18, <1>21 DEF Stored, n

LEMMA ModStores ==
    ASSUME Table(nodes, pool, count, TRUE), NEW k \in Keys, NEW v \in Values, Found(k) # {},
           NEW c, c = kvs_malloc(kvs_free(pool, At(k).vblk), ValueSize[v])
    PROVE  Stored(nodes, [nodes EXCEPT ![Hash(k)] =
                             [@ EXCEPT ![First(k)] = Modified(At(k), v, c.ptr)]],
                  c.pool, count, At(k).val # Lost, k, IF c.ptr = NULL THEN Lost ELSE v)
<1> DEFINE o == At(k)
           n == Modified(o, v, c.ptr)
           N == NodesOf(nodes)
           s == Hash(k)
           i == First(k)
           u == Replaced(nodes, s, i, n)
<1>1. ChainsOK(nodes) /\ Memory(pool, N) /\ Counted(nodes, count) /\ N \subseteq Node
  BY NodesSubset DEF Table
<1>2. IsAt(nodes, s, i, o) /\ o.key = k /\ o \in N /\ o \in Node
  BY <1>1, ScanFinds
<1> HIDE DEF o, s, i, N
<1>3. u = [nodes EXCEPT ![s] = [@ EXCEPT ![i] = n]]
  BY DEF Replaced
<1>4. ASSUME o.val # Lost PROVE Served(kvs_free(pool, o.vblk), ValueSize[v], c)
  <2>1. Using(pool, AllPtrs(N)) /\ o.vblk \in AllPtrs(N)
    BY <1>1, <1>2, <1>4, NodeFields DEF Memory, Using, AllPtrs, Ptrs
  <2>2. PoolOK(kvs_free(pool, o.vblk))
    BY <2>1, UseOneLess DEF Using
  <2>3. ValueSize[v] \in Nat
    BY TableAssumption
  <2>4. c = kvs_malloc(kvs_free(pool, o.vblk), ValueSize[v])
    BY DEF o
  <2> DEFINE q == kvs_free(pool, o.vblk)
  <2> HIDE DEF q
  <2>5. Served(q, ValueSize[v], kvs_malloc(q, ValueSize[v]))
    BY <2>2, <2>3, MallocServes DEF q
  <2> QED BY <2>4, <2>5 DEF q
<1>5. ASSUME o.val # Lost PROVE Memory(c.pool, (N \ {o}) \cup {n})
  BY <1>1, <1>2, <1>4, <1>5, ValueGetsMemory
<1>7. AnyPool(c.pool) /\ (c.ptr = NULL \/ c.ptr \in Blocks)
  <2> DEFINE q == kvs_free(pool, o.vblk)
  <2>1. AnyPool(pool) /\ o.vblk \in Blocks /\ ValueSize[v] \in Nat
    BY <1>1, <1>2, MemoryIsPool, TableAssumption DEF Node
  <2>2. AnyPool(q)
    BY <2>1, AnyFree
  <2>3. c = kvs_malloc(q, ValueSize[v])
    BY DEF o
  <2> HIDE DEF q
  <2> QED BY <2>1, <2>2, <2>3, AnyMalloc
<1>8. n \in Node /\ n.key = k /\ n.val = IF c.ptr = NULL THEN Lost ELSE v
  BY <1>2, <1>7 DEF Modified, Node
<1> HIDE DEF n, u
<1>9. ChainsOK(u) /\ NodesOf(u) = (N \ {o}) \cup {n}
  BY <1>1, <1>2, <1>8, Replace DEF u, N
<1>10. KeysOf(NodesOf(u)) = KeysOf(N)
  BY <1>1, <1>2, <1>8, <1>9, KeysAfter DEF N
<1>11. Table(u, c.pool, count, o.val # Lost)
  <2>1. Counted(u, count)
    BY <1>1, <1>10 DEF Counted, N
  <2> QED BY <1>5, <1>7, <1>9, <2>1 DEF Table
<1>12. SameBut(nodes, u, k)
  BY <1>2, <1>8, <1>9 DEF SameBut, N
<1>13. DictOf(u)[k] = IF c.ptr = NULL THEN Lost ELSE v
  <2>1. n \in NodesOf(u)
    BY <1>9
  <2> QED BY <1>8, <1>9, <2>1, DictLooksUp
<1>14. DictOf(u) = [DictOf(nodes) EXCEPT ![k] = IF c.ptr = NULL THEN Lost ELSE v]
  BY <1>1, <1>9, <1>12, <1>13, DictChanges
<1> QED BY <1>3, <1>11, <1>14 DEF Stored, n, s, i, o

LEMMA DelRemoves ==
    ASSUME Table(nodes, pool, count, TRUE), NEW k \in Keys, Found(k) # {}
    PROVE  Stored(nodes, [nodes EXCEPT ![Hash(k)] = Without(@, First(k))],
                  FreedByDel(pool, First(k), At(k)), CountAfterDel(count, First(k)),
                  At(k).val # Lost \/ First(k) = 1, k, NULL)
<1> DEFINE o == At(k)
           N == NodesOf(nodes)
           s == Hash(k)
           i == First(k)
           u == Removed(nodes, s, i)
           q == FreedByDel(pool, i, o)
<1>1. ChainsOK(nodes) /\ Memory(pool, N) /\ Counted(nodes, count) /\ N \subseteq Node
  BY NodesSubset DEF Table
<1>2. IsAt(nodes, s, i, o) /\ o.key = k /\ o \in N /\ o \in Node
  BY <1>1, ScanFinds
<1> HIDE DEF o, s, i, N
<1>4. u = [nodes EXCEPT ![s] = Without(@, i)]
  BY DEF Removed
<1>3. AnyPool(q)
  <2>1. AnyPool(pool) /\ o.vblk \in Blocks /\ o.kblk \in Blocks /\ o.blk \in Blocks
    BY <1>1, <1>2, MemoryIsPool DEF Node
  <2>2. CASE i = 1
    BY <2>1, <2>2, AnyFree DEF FreedByDel
  <2>3. CASE i # 1
    <3> DEFINE a == kvs_free(pool, o.kblk)
               b == kvs_free(a, o.vblk)
    <3>1. AnyPool(a)
      BY <2>1, AnyFree
    <3> HIDE DEF a
    <3>2. AnyPool(b)
      BY <2>1, <3>1, AnyFree
    <3> HIDE DEF b
    <3>3. AnyPool(kvs_free(b, o.blk))
      BY <2>1, <3>2, AnyFree
    <3> QED BY <2>3, <3>3 DEF FreedByDel, a, b
  <2> QED BY <2>2, <2>3
<1>5. ASSUME o.val # Lost \/ i = 1 PROVE Memory(q, N \ {o})
  BY <1>1, <1>2, <1>5, NodeGivesMemory
<1> HIDE DEF u
<1>6. ChainsOK(u) /\ NodesOf(u) = N \ {o}
  BY <1>1, <1>2, Remove DEF u, N
<1>7. KeysOf(NodesOf(u)) = KeysOf(N) \ {k}
  BY <1>1, <1>2, <1>6, KeysAfter DEF N
<1>8. k \in KeysOf(N)
  BY <1>2 DEF KeysOf
<1>9. Counted(u, count - 1)
  BY <1>1, <1>7, <1>8, FS_RemoveElement DEF Counted, N
<1> HIDE DEF q
<1>10. Table(u, q, CountAfterDel(count, i), o.val # Lost \/ i = 1)
  BY <1>3, <1>5, <1>6, <1>9 DEF Table, CountAfterDel
<1>11. SameBut(nodes, u, k)
  BY <1>2, <1>6 DEF SameBut, N
<1>12. DictOf(u)[k] = NULL
  BY <1>6, <1>7, DictLooksUp
<1>13. DictOf(u) = [DictOf(nodes) EXCEPT ![k] = NULL]
  BY <1>1, <1>6, <1>11, <1>12, DictChanges
<1> QED BY <1>4, <1>10, <1>13 DEF Stored, q, s, i, o

\* What an operation leaves behind: a good table and a legal answer.
Answers == {"OK", "ERROR", "EXIST", "NO_EXIST", NULL, Lost} \cup Values
Good == /\ Table(nodes, pool, count, intact) /\ wild \subseteq WildSlots
        /\ intact \in BOOLEAN /\ up \in BOOLEAN /\ resp \in Answers

LEMMA InvIsGood == IInv <=> Good
<1>1. IInv => Good
  BY DEF IInv, TypeOK, Good, Answers
<1>2. Good => IInv
  BY TableTypes DEF IInv, TypeOK, Good, Answers
<1> QED BY <1>1, <1>2

\* An operation that changes nothing but the answer.
LEMMA ReturnKeeps ==
    ASSUME Good, NEW r \in Answers, Return(r), Unchanged
    PROVE  Good' /\ Dict!Answer(r) /\ Dict!Unchanged
<1>1. /\ nodes' = nodes /\ pool' = pool /\ count' = count /\ intact' = intact /\ wild' = wild
      /\ up' = up /\ resp' = r /\ up /\ intact
  BY DEF Return, Unchanged
<1>2. Good'
  BY <1>1 DEF Good
<1>3. Dict!Answer(r)
  BY <1>1 DEF Dict!Answer
<1>4. Dict!Unchanged
  BY <1>1 DEF Dict!Unchanged
<1> QED BY <1>2, <1>3, <1>4

LEMMA DiesCrashes == ASSUME Good, Dies PROVE Good' /\ Dict!DictCrash
<1>1. /\ nodes' = nodes /\ pool' = pool /\ count' = count /\ intact' = intact /\ wild' = wild
      /\ up' = FALSE /\ resp' = resp /\ up
  BY DEF Dies
<1>2. Good'
  BY <1>1 DEF Good
<1>3. Dict!DictCrash
  BY <1>1 DEF Dict!DictCrash
<1> QED BY <1>2, <1>3

\* An operation on the memory: the step that stores or removes.
Became(k, v) == DictOf(nodes)' = [DictOf(nodes) EXCEPT ![k] = v]

LEMMA WriteKeeps ==
    ASSUME Good, NEW r \in Answers, Return(r), NEW k, NEW v,
           intact' \in BOOLEAN, Stored(nodes, nodes', pool', count', intact', k, v)
    PROVE  Good' /\ Dict!Answer(r) /\ Became(k, v)
<1>1. wild' = wild /\ up' = up /\ resp' = r /\ up /\ intact
  BY DEF Return
<1>2. Table(nodes', pool', count', intact') /\ DictOf(nodes') = [DictOf(nodes) EXCEPT ![k] = v]
  BY DEF Stored
<1>3. Good'
  BY <1>1, <1>2 DEF Good
<1>4. Dict!Answer(r)
  BY <1>1 DEF Dict!Answer
<1> QED BY <1>2, <1>3, <1>4 DEF Became

LEMMA GoodTable ==
    ASSUME Good, intact PROVE Table(nodes, pool, count, TRUE) /\ ChainsOK(nodes)
  BY DEF Good, Table

\* What a key's presence in a chain means for the map.
LEMMA HasIsFound ==
    ASSUME ChainsOK(nodes), NEW k \in Keys, k # NULL
    PROVE  /\ Found(k) # {} <=> Dict!Has(k)
           /\ Found(k) # {} => /\ DictOf(nodes)[k] = At(k).val
                               /\ At(k).val \in Values \cup {Lost}
<1>1. CASE Found(k) # {}
  <2>1. At(k) \in NodesOf(nodes) /\ At(k).key = k /\ At(k) \in Node
    BY <1>1, ScanFinds
  <2>2. k \in KeysOf(NodesOf(nodes))
    BY <2>1 DEF KeysOf
  <2>3. DictOf(nodes)[k] # NULL
    BY <2>2, DictHas
  <2>4. DictOf(nodes)[At(k).key] = At(k).val
    BY <2>1, DictLooksUp
  <2>5. At(k).val \in Values \cup {Lost}
    BY <2>1, NodeFields
  <2> QED BY <1>1, <2>1, <2>3, <2>4, <2>5 DEF Dict!Has
<1>2. CASE Found(k) = {}
  <2>1. k \notin KeysOf(NodesOf(nodes))
    BY <1>2, ScanMisses
  <2>2. DictOf(nodes)[k] = NULL
    BY <2>1, DictHas
  <2> QED BY <1>2, <2>2 DEF Dict!Has
<1> QED BY <1>1, <1>2

LEMMA SetRefines ==
    ASSUME Good, NEW k \in Keys \cup {NULL}, NEW v \in Values \cup {NULL}, kvs_hash_set(k, v)
    PROVE  Good' /\ (Dict!DictSet(k, v) \/ Dict!DictCrash)
<1>1. CASE (k = NULL \/ v = NULL) /\ Return("ERROR") /\ Unchanged
  <2>1. Good' /\ Dict!Answer("ERROR") /\ Dict!Unchanged
    BY <1>1, ReturnKeeps DEF Answers
  <2> QED BY <2>1 DEF Dict!DictSet
<1>2. CASE k # NULL /\ v # NULL /\ Known(k) /\ Return("EXIST") /\ Unchanged
  <2>1. Good' /\ Dict!Answer("EXIST") /\ Dict!Unchanged
    BY <1>2, ReturnKeeps DEF Answers
  <2>2. Dict!Has(k)
    BY <1>2, HasIsFound DEF Known, Good, Table
  <2> QED BY <2>1, <2>2 DEF Dict!DictSet
<1>3. CASE Dies
  BY <1>3, DiesCrashes
<1>4. CASE /\ k # NULL /\ v # NULL /\ ~Known(k) /\ Allocated(k, v).ok
           /\ nodes' = [nodes EXCEPT ![Hash(k)] = <<Allocated(k, v).node>> \o @]
           /\ pool' = Allocated(k, v).pool
           /\ count' = count + 1 /\ UNCHANGED intact
           /\ Return("OK")
  <2>1. intact /\ intact' = intact
    BY <1>4 DEF Return
  <2>2. Table(nodes, pool, count, TRUE) /\ ChainsOK(nodes) /\ k \in Keys /\ v \in Values
    BY <1>4, <2>1, GoodTable
  <2>3. Stored(nodes, nodes', pool', count', TRUE, k, v)
    BY <1>4, <2>2, SetStores
  <2>4. Stored(nodes, nodes', pool', count', intact', k, v)
    BY <2>1, <2>3 DEF Stored, Table
  <2>5. Good' /\ Dict!Answer("OK") /\ Became(k, v)
    <3>1. intact' \in BOOLEAN /\ Return("OK") /\ "OK" \in Answers
      BY <1>4, <2>1 DEF Answers, Good
    <3> QED BY <2>4, <3>1, WriteKeeps
  <2>6. ~Dict!Has(k)
    BY <1>4, <2>2, HasIsFound DEF Known
  <2>7. Dict!DictSet(k, v)
    BY <2>1, <2>2, <2>5, <2>6 DEF Dict!DictSet, Became
  <2> QED BY <2>5, <2>7
<1> QED BY <1>1, <1>2, <1>3, <1>4 DEF kvs_hash_set, Strays

LEMMA ModRefines ==
    ASSUME Good, NEW k \in Keys \cup {NULL}, NEW v \in Values \cup {NULL}, kvs_hash_mod(k, v)
    PROVE  Good' /\ (Dict!DictMod(k, v) \/ Dict!DictCrash)
<1>1. CASE k = NULL /\ Return("ERROR") /\ Unchanged
  <2>1. Good' /\ Dict!Answer("ERROR") /\ Dict!Unchanged
    BY <1>1, ReturnKeeps DEF Answers
  <2> QED BY <1>1, <2>1 DEF Dict!DictMod
<1>2. CASE k # NULL /\ Found(k) = {} /\ Return("NO_EXIST") /\ Unchanged
  <2>1. Good' /\ Dict!Answer("NO_EXIST") /\ Dict!Unchanged
    BY <1>2, ReturnKeeps DEF Answers
  <2>2. k \in Keys /\ ~Dict!Has(k)
    BY <1>2, HasIsFound DEF Good, Table
  <2> QED BY <2>1, <2>2 DEF Dict!DictMod
<1>3. CASE Dies
  BY <1>3, DiesCrashes
<1>4. ASSUME /\ Found(k) # {} /\ v # NULL
             /\ LET c == kvs_malloc(kvs_free(pool, At(k).vblk), ValueSize[v])
                IN /\ pool' = c.pool /\ UNCHANGED count
                   /\ nodes' = [nodes EXCEPT ![Hash(k)] =
                                   [@ EXCEPT ![First(k)] = Modified(At(k), v, c.ptr)]]
                   /\ Return(IF c.ptr = NULL THEN "ERROR" ELSE "OK")
             /\ intact' = (At(k).val # Lost)
      PROVE  Good' /\ Dict!DictMod(k, v)
  <2>1. PICK c : c = kvs_malloc(kvs_free(pool, At(k).vblk), ValueSize[v])
    OBVIOUS
  <2>2. /\ Found(k) # {} /\ intact' = (At(k).val # Lost)
        /\ pool' = c.pool /\ count' = count
        /\ nodes' = [nodes EXCEPT ![Hash(k)] =
                        [@ EXCEPT ![First(k)] = Modified(At(k), v, c.ptr)]]
        /\ Return(IF c.ptr = NULL THEN "ERROR" ELSE "OK")
    BY <1>4, <2>1
  <2>3. intact
    BY <2>2 DEF Return
  <2>4. /\ Table(nodes, pool, count, TRUE) /\ ChainsOK(nodes)
        /\ k \in Keys /\ v \in Values /\ k # NULL
    BY <1>4, <2>3, GoodTable DEF Found
  <2>5. Stored(nodes, nodes', pool', count', intact', k, IF c.ptr = NULL THEN Lost ELSE v)
    BY <2>1, <2>2, <2>4, ModStores
  <2>6. intact' \in BOOLEAN
    BY <2>2, Zenon
  <2>7. Dict!Has(k) /\ DictOf(nodes)[k] = At(k).val
    BY <2>2, <2>4, HasIsFound
  <2>8. Dict!FreesValueOf(k)
    BY <2>2, <2>7, Zenon DEF Dict!FreesValueOf
  <2>9. CASE c.ptr = NULL
    <3>1. Good' /\ Dict!Answer("ERROR") /\ Became(k, Lost)
      <4>1. /\ Return("ERROR") /\ "ERROR" \in Answers
            /\ Stored(nodes, nodes', pool', count', intact', k, Lost)
        BY <2>2, <2>5, <2>9 DEF Answers
      <4> QED BY <2>6, <4>1, WriteKeeps
    <3> QED BY <2>7, <2>8, <3>1 DEF Dict!DictMod, Became
  <2>10. CASE c.ptr # NULL
    <3>1. Good' /\ Dict!Answer("OK") /\ Became(k, v)
      <4>1. /\ Return("OK") /\ "OK" \in Answers
            /\ Stored(nodes, nodes', pool', count', intact', k, v)
        BY <2>2, <2>5, <2>10 DEF Answers
      <4> QED BY <2>6, <4>1, WriteKeeps
    <3> QED BY <2>4, <2>7, <2>8, <3>1 DEF Dict!DictMod, Became
  <2> QED BY <2>9, <2>10
<1> QED BY <1>1, <1>2, <1>3, <1>4 DEF kvs_hash_mod, Strays

LEMMA DelRefines ==
    ASSUME Good, NEW k \in Keys \cup {NULL}, kvs_hash_del(k)
    PROVE  Good' /\ (Dict!DictDel(k) \/ Dict!DictCrash)
<1>1. CASE k = NULL /\ Return("ERROR") /\ Unchanged
  <2>1. Good' /\ Dict!Answer("ERROR") /\ Dict!Unchanged
    BY <1>1, ReturnKeeps DEF Answers
  <2> QED BY <1>1, <2>1 DEF Dict!DictDel
<1>2. CASE k # NULL /\ Found(k) = {} /\ Return("NO_EXIST") /\ Unchanged
  <2>1. Good' /\ Dict!Answer("NO_EXIST") /\ Dict!Unchanged
    BY <1>2, ReturnKeeps DEF Answers
  <2>2. k \in Keys /\ ~Dict!Has(k)
    BY <1>2, HasIsFound DEF Good, Table
  <2> QED BY <2>1, <2>2 DEF Dict!DictDel
<1>3. CASE Dies
  BY <1>3, DiesCrashes
<1>4. CASE /\ Found(k) # {}
           /\ intact' = (At(k).val # Lost \/ First(k) = 1)
           /\ nodes' = [nodes EXCEPT ![Hash(k)] = Without(@, First(k))]
           /\ pool' = FreedByDel(pool, First(k), At(k))
           /\ count' = CountAfterDel(count, First(k))
           /\ Return("OK")
  <2>1. intact
    BY <1>4 DEF Return
  <2>2. Table(nodes, pool, count, TRUE) /\ ChainsOK(nodes) /\ k \in Keys /\ k # NULL
    BY <1>4, <2>1, GoodTable DEF Found
  <2>3. Stored(nodes, nodes', pool', count', intact', k, NULL)
    BY <1>4, <2>2, DelRemoves
  <2>4. intact' \in BOOLEAN
    BY <1>4, Zenon
  <2>5. Good' /\ Dict!Answer("OK") /\ Became(k, NULL)
    <3>1. Return("OK") /\ "OK" \in Answers
      BY <1>4 DEF Answers
    <3> QED BY <2>3, <2>4, <3>1, WriteKeeps
  <2>6. Dict!Has(k) /\ DictOf(nodes)[k] = At(k).val
    BY <1>4, <2>2, HasIsFound
  <2>7. Dict!FreesValueOf(k)
    <3>1. CASE First(k) = 1
      <4>1. intact' = TRUE
        BY <1>4, <3>1, Zenon
      <4> QED BY <4>1, Zenon DEF Dict!FreesValueOf
    <3>2. CASE First(k) # 1
      <4>1. intact' = (At(k).val # Lost)
        BY <1>4, <3>2
      <4> QED BY <2>6, <4>1, Zenon DEF Dict!FreesValueOf
    <3> QED BY <3>1, <3>2
  <2>8. Dict!DictDel(k)
    BY <2>5, <2>6, <2>7 DEF Dict!DictDel, Became
  <2> QED BY <2>5, <2>8
<1> QED BY <1>1, <1>2, <1>3, <1>4 DEF kvs_hash_del, Strays

LEMMA GetRefines ==
    ASSUME Good, NEW k \in Keys \cup {NULL}, kvs_hash_get(k)
    PROVE  Good' /\ (Dict!DictGet(k) \/ Dict!DictCrash)
<1>1. ChainsOK(nodes)
  BY DEF Good, Table
<1>2. CASE Found(k) = {} /\ Return("NO_EXIST") /\ Unchanged
  <2>1. Good' /\ Dict!Answer("NO_EXIST") /\ Dict!Unchanged
    BY <1>2, ReturnKeeps DEF Answers
  <2>2. ~Dict!Has(k)
    <3>1. CASE k # NULL
      BY <1>1, <1>2, <3>1, HasIsFound
    <3>2. CASE k = NULL
      BY <3>2, ValuesAssumption DEF Dict!Has
    <3> QED BY <3>1, <3>2
  <2> QED BY <2>1, <2>2 DEF Dict!DictGet
<1>3. CASE Found(k) # {} /\ Return(At(k).val) /\ Unchanged
  <2>1. k # NULL /\ k \in Keys
    BY <1>3 DEF Found
  <2>2. Dict!Has(k) /\ DictOf(nodes)[k] = At(k).val /\ At(k).val \in Values \cup {Lost}
    BY <1>1, <1>3, <2>1, HasIsFound
  <2>3. Good' /\ Dict!Answer(At(k).val) /\ Dict!Unchanged
    <3>1. At(k).val \in Answers
      BY <2>2 DEF Answers
    <3> QED BY <1>3, <3>1, ReturnKeeps
  <2>4. Dict!Answer(DictOf(nodes)[k])
    BY <2>2, <2>3 DEF Dict!Answer
  <2> QED BY <2>2, <2>3, <2>4 DEF Dict!DictGet
<1>4. CASE Dies
  BY <1>4, DiesCrashes
<1> QED BY <1>2, <1>3, <1>4 DEF kvs_hash_get, Strays

LEMMA ExistRefines ==
    ASSUME Good, NEW k \in Keys \cup {NULL}, kvs_hash_exist(k)
    PROVE  Good' /\ (Dict!DictExist(k) \/ Dict!DictCrash)
<1>1. CASE Return(IF Found(k) = {} THEN "NO_EXIST" ELSE "EXIST") /\ Unchanged
  <2>1. Found(k) # {} <=> Dict!Has(k)
    <3>1. CASE k # NULL
      BY <3>1, HasIsFound DEF Good, Table
    <3>2. CASE k = NULL
      BY <3>2, ValuesAssumption DEF Found, Dict!Has
    <3> QED BY <3>1, <3>2
  <2>2. CASE Found(k) = {}
    <3>1. Good' /\ Dict!Answer("NO_EXIST") /\ Dict!Unchanged
      BY <1>1, <2>2, ReturnKeeps DEF Answers
    <3> QED BY <2>1, <2>2, <3>1 DEF Dict!DictExist
  <2>3. CASE Found(k) # {}
    <3>1. Good' /\ Dict!Answer("EXIST") /\ Dict!Unchanged
      BY <1>1, <2>3, ReturnKeeps DEF Answers
    <3> QED BY <2>1, <2>3, <3>1 DEF Dict!DictExist
  <2> QED BY <2>2, <2>3
<1>2. CASE Dies
  BY <1>2, DiesCrashes
<1> QED BY <1>1, <1>2 DEF kvs_hash_exist, Strays

LEMMA UndefinedRefines ==
    ASSUME Good, Undefined PROVE Good' /\ (Dict!DictUndefined \/ Dict!DictCrash)
<1>1. /\ nodes' = nodes /\ pool' = pool /\ count' = count /\ intact' = intact /\ wild' = wild
      /\ up /\ ~intact
  BY DEF Undefined
<1>2. CASE up' = FALSE /\ resp' = resp
  <2>1. Good'
    BY <1>1, <1>2 DEF Good
  <2>2. Dict!DictCrash
    BY <1>1, <1>2 DEF Dict!DictCrash
  <2> QED BY <2>1, <2>2
<1>3. CASE resp' = Lost /\ up' = up
  <2>1. resp' \in Answers
    BY <1>3 DEF Answers
  <2>2. Good'
    BY <1>1, <1>3, <2>1 DEF Good
  <2>3. Dict!DictUndefined
    BY <1>1, <1>3 DEF Dict!DictUndefined
  <2> QED BY <2>2, <2>3
<1> QED BY <1>2, <1>3 DEF Undefined

LEMMA CreateRefines == ASSUME Good, kvs_hash_create PROVE Good' /\ Dict!DictRestart
<1>1. nodes' = EmptyTable /\ pool' = kvs_mempool_create /\ count' = 0
  BY DEF kvs_hash_create, EmptyTable
<1>2. Table(nodes', pool', count', intact') /\ DictOf(nodes') = [k \in Keys |-> NULL]
  BY <1>1, NewTable
<1>3. /\ ~up /\ up' = TRUE /\ resp' = NULL /\ intact' = TRUE /\ wild' \subseteq WildSlots
  BY DEF kvs_hash_create
<1>4. Good'
  BY <1>2, <1>3 DEF Good, Answers
<1>5. Dict!DictRestart
  BY <1>2, <1>3 DEF Dict!DictRestart, Dict!Empty
<1> QED BY <1>4, <1>5

LEMMA InitRefines == ASSUME Init PROVE Good /\ Dict!DictInit
<1>1. nodes = EmptyTable /\ pool = kvs_mempool_create /\ count = 0
  BY DEF Init, EmptyTable
<1>2. Table(nodes, pool, count, intact) /\ DictOf(nodes) = [k \in Keys |-> NULL]
  BY <1>1, NewTable
<1>3. up = TRUE /\ resp = NULL /\ intact = TRUE /\ wild \subseteq WildSlots
  BY DEF Init
<1>4. Good
  BY <1>2, <1>3 DEF Good, Answers
<1>5. Dict!DictInit
  BY <1>2, <1>3 DEF Dict!DictInit, Dict!Empty
<1> QED BY <1>4, <1>5

LEMMA StepRefines == ASSUME Good, [Next]_vars PROVE Good' /\ [Dict!DictNext]_(Dict!dictVars)
<1>1. ASSUME NEW k \in Keys \cup {NULL}, NEW v \in Values \cup {NULL}, kvs_hash_set(k, v)
      PROVE  Good' /\ Dict!DictNext
  BY <1>1, SetRefines DEF Dict!DictNext
<1>2. ASSUME NEW k \in Keys \cup {NULL}, NEW v \in Values \cup {NULL}, kvs_hash_mod(k, v)
      PROVE  Good' /\ Dict!DictNext
  BY <1>2, ModRefines DEF Dict!DictNext
<1>3. ASSUME NEW k \in Keys \cup {NULL}, kvs_hash_get(k) PROVE Good' /\ Dict!DictNext
  BY <1>3, GetRefines DEF Dict!DictNext
<1>4. ASSUME NEW k \in Keys \cup {NULL}, kvs_hash_del(k) PROVE Good' /\ Dict!DictNext
  BY <1>4, DelRefines DEF Dict!DictNext
<1>5. ASSUME NEW k \in Keys \cup {NULL}, kvs_hash_exist(k) PROVE Good' /\ Dict!DictNext
  BY <1>5, ExistRefines DEF Dict!DictNext
<1>6. CASE kvs_hash_create
  BY <1>6, CreateRefines DEF Dict!DictNext
<1>7. CASE Undefined
  BY <1>7, UndefinedRefines DEF Dict!DictNext
<1>8. CASE UNCHANGED vars
  <2>1. UNCHANGED Dict!dictVars
    BY <1>8 DEF vars, Dict!dictVars
  <2>2. Good'
    BY <1>8 DEF vars, Good
  <2> QED BY <2>1, <2>2
<1> QED BY <1>1, <1>2, <1>3, <1>4, <1>5, <1>6, <1>7, <1>8 DEF Next

-----------------------------------------------------------------------------
\* The properties.

LEMMA AlwaysGood == Spec => []Good
<1>1. Init => Good
  BY InitRefines
<1>2. Good /\ [Next]_vars => Good'
  BY StepRefines
<1> QED BY <1>1, <1>2, PTL DEF Spec

\* Every variable of the hash engine keeps its type, for any table and pool.
THEOREM TypeCorrect == Spec => []TypeOK
<1>1. Good => TypeOK
  BY InvIsGood DEF IInv
<1> QED BY <1>1, AlwaysGood, PTL

\* count is the number of stored keys after every order of set, mod, del and
\* restart (kvs_hash.c:113-250).
THEOREM CountIsRight == Spec => []CountMatches
<1>1. ASSUME Good PROVE CountMatches
  <2>1. ChainsOK(nodes) /\ count = Cardinality(KeysOf(NodesOf(nodes)))
    BY <1>1 DEF Good, Table, Counted
  <2>2. ASSUME NEW k \in Keys
        PROVE  k \in KeysOf(NodesOf(nodes)) <=>
                 \E s \in Slots : \E i \in DOMAIN nodes[s] : nodes[s][i].key = k
    BY <2>1, NodesAreAt DEF KeysOf, IsAt
  <2>3. KeysOf(NodesOf(nodes)) =
           {k \in Keys : \E s \in Slots : \E i \in DOMAIN nodes[s] : nodes[s][i].key = k}
    <3>1. KeysOf(NodesOf(nodes)) \subseteq Keys
      BY DEF KeysOf
    <3> QED BY <2>2, <3>1
  <2> QED BY <2>1, <2>3 DEF CountMatches
<1> QED BY <1>1, AlwaysGood, PTL

\* As long as malloc served only what is larger than a chunk, and until a lost
\* value is freed again, every node, key and value fits into its block, however
\* blocks were reused (kvstore.c:21-41).
THEOREM StoredFits == Spec => []FitsItsBlock
<1>1. ASSUME Good, intact, NeverExhausted, NEW s \in Slots, NEW i \in DOMAIN nodes[s]
      PROVE  Fits(pool, nodes[s][i])
  <2>1. ChainsOK(nodes) /\ Memory(pool, NodesOf(nodes))
    BY <1>1 DEF Good, Table
  <2>2. OnlyLarge(pool)
    BY <1>1 DEF NeverExhausted, OnlyLarge
  <2>3. IsAt(nodes, s, i, nodes[s][i])
    BY DEF IsAt
  <2>4. nodes[s][i] \in NodesOf(nodes)
    BY <2>1, <2>3, NodesAreAt
  <2> QED BY <2>1, <2>2, <2>4 DEF Memory
<1>2. Good => FitsItsBlock
  BY <1>1 DEF FitsItsBlock, Fits
<1> QED BY <1>2, AlwaysGood, PTL

\* Two pointers of the table never lead to one block, none to a block of the free
\* list, and no block is on the list twice, for any order of operations and any
\* moment malloc fails, until the value a failed MOD has freed is freed once
\* more (kvstore.c:21-41, kvs_hash.c:113-250).  The second free, which the code
\* does make (kvs_hash.c:183 and 233), is the only thing that can end this.
THEOREM BlocksHaveOneOwner == Spec => []SingleOwner
<1>1. ASSUME NEW h \in Held
      PROVE  /\ h[1] \in Slots /\ h[2] \in DOMAIN nodes[h[1]]
             /\ h[3] \in Fields(nodes[h[1]][h[2]]) /\ h = <<h[1], h[2], h[3]>>
  <2>1. PICK s \in Slots, f \in {"blk", "kblk", "vblk"} :
           h \in {<<s, i, f>> : i \in {j \in DOMAIN nodes[s] : f \in Fields(nodes[s][j])}}
    BY DEF Held
  <2>2. PICK i \in DOMAIN nodes[s] : f \in Fields(nodes[s][i]) /\ h = <<s, i, f>>
    BY <2>1
  <2> QED BY <2>2
<1>2. ASSUME NEW n, NEW f \in Fields(n)
      PROVE  /\ n[f] \in Ptrs(n)
             /\ Apart(n) => \A g \in Fields(n) : n[f] = n[g] => f = g
  <2>1. f \in {"blk", "kblk"} \/ (f = "vblk" /\ n.val # Lost)
    BY DEF Fields
  <2>2. n["blk"] = n.blk /\ n["kblk"] = n.kblk /\ n["vblk"] = n.vblk
    OBVIOUS
  <2>3. n[f] \in Ptrs(n)
    BY <2>1, <2>2 DEF Ptrs
  <2>4. ASSUME Apart(n), NEW g \in Fields(n), n[f] = n[g] PROVE f = g
    <3>1. g \in {"blk", "kblk"} \/ (g = "vblk" /\ n.val # Lost)
      BY DEF Fields
    <3> QED BY <2>1, <2>2, <2>4, <3>1 DEF Apart
  <2> QED BY <2>3, <2>4
<1>3. ASSUME Good, intact PROVE OwnedOnce
  <2>1. /\ ChainsOK(nodes) /\ PoolOK(pool) /\ InUse(pool, AllPtrs(NodesOf(nodes)))
        /\ NoSharing(NodesOf(nodes))
    BY <1>3 DEF Good, Table, Memory
  <2>2. ASSUME NEW h \in Held
        PROVE  /\ IsAt(nodes, h[1], h[2], nodes[h[1]][h[2]])
               /\ nodes[h[1]][h[2]] \in NodesOf(nodes)
               /\ Pointer(h) \in Ptrs(nodes[h[1]][h[2]])
    <3>1. IsAt(nodes, h[1], h[2], nodes[h[1]][h[2]])
      BY <1>1 DEF IsAt
    <3> QED BY <1>1, <1>2, <2>1, <3>1, NodesAreAt DEF Pointer
  <2>3. ASSUME NEW g \in Held, NEW h \in Held, Pointer(g) = Pointer(h) PROVE g = h
    <3> DEFINE n == nodes[g[1]][g[2]]
               m == nodes[h[1]][h[2]]
    <3>1. /\ IsAt(nodes, g[1], g[2], n) /\ n \in NodesOf(nodes) /\ Pointer(g) \in Ptrs(n)
          /\ IsAt(nodes, h[1], h[2], m) /\ m \in NodesOf(nodes) /\ Pointer(h) \in Ptrs(m)
      BY <2>2
    <3>2. Pointer(g) = n[g[3]] /\ Pointer(h) = m[h[3]]
      BY DEF Pointer
    <3>3. g[3] \in Fields(n) /\ h[3] \in Fields(m)
      BY <1>1
    <3> HIDE DEF n, m
    <3>4. n = m
      BY <2>1, <2>3, <3>1 DEF NoSharing
    <3>5. g[1] = h[1] /\ g[2] = h[2]
      BY <2>1, <3>1, <3>4, KeyIsOnce
    <3>6. g[3] = h[3]
      <4> DEFINE e == g[3]
                 f == h[3]
      <4>1. n[e] = n[f] /\ e \in Fields(n) /\ f \in Fields(n)
        BY <2>3, <3>2, <3>3, <3>4
      <4>2. Apart(n)
        BY <2>1, <3>1 DEF NoSharing
      <4> HIDE DEF e, f
      <4>3. e = f
        BY <1>2, <4>1, <4>2
      <4> QED BY <4>3 DEF e, f
    <3> QED BY <1>1, <3>5, <3>6
  <2>4. ASSUME NEW h \in Held, NEW i \in DOMAIN pool.free_list PROVE Pointer(h) # pool.free_list[i]
    <3>1. pool.free_list[i] \in Free(pool)
      <4>1. pool.free_list \in Seq(Blocks)
        BY <2>1, PoolParts
      <4>2. pool.free_list[i] \in Blocks
        BY <4>1
      <4> QED BY <4>2 DEF Free
    <3>2. Pointer(h) \in AllPtrs(NodesOf(nodes))
      <4>1. nodes[h[1]][h[2]] \in Node
        BY <2>2, NodesSubset
      <4>2. Pointer(h) \in Blocks
        BY <2>2, <4>1, NodeFields
      <4> QED BY <2>2, <4>2 DEF AllPtrs
    <3> QED BY <2>1, <3>1, <3>2 DEF InUse
  <2>5. \A i, j \in DOMAIN pool.free_list : pool.free_list[i] = pool.free_list[j] => i = j
    BY <2>1 DEF PoolOK
  <2> QED BY <2>3, <2>4, <2>5 DEF OwnedOnce
<1>4. Good => SingleOwner
  BY <1>3 DEF SingleOwner
<1> QED BY <1>4, AlwaysGood, PTL

\* The hash engine implements the map of KvsDict: whatever chains, blocks and
\* failures of malloc there are, an answer is the one the map gives, until a
\* lost value is freed again (kvs_hash.c:113-250).
THEOREM HashIsDict == Spec => ImplementsDict
<1>1. Init => Dict!DictInit
  BY InitRefines
<1>2. Good /\ [Next]_vars => [Dict!DictNext]_(Dict!dictVars)
  BY StepRefines
<1> QED BY <1>1, <1>2, AlwaysGood, PTL DEF Spec, ImplementsDict, Dict!DictSpec

=============================================================================
