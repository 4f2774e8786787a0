# Verification of the kvstore server

TLA+ models of the key-value server in this repository, the TLC runs that check
them on small instances, and TLAPS proofs of the properties that do not depend
on the instance. `PROJECT.json` lists the components, runs, theorems, findings
and hazards and maps every definition that models code to its source lines.

## The system

`kvstore.c` starts the server: `init_kvengine` creates the engines and calls
`kvs_rdb_init`, which loads the RDB file; then the detached thread
`check_auto_save` starts, and the network layer selected at build time
(`NETWORK_SELECT`, ntyco) runs for ever on the main thread.

| component | state it keeps | operations | interacts through |
| --- | --- | --- | --- |
| array engine `kvs_array.c` | `table`, `total`, `array_mutex` | SET GET DEL MOD EXIST | dispatch; `array_mutex` with autosave |
| red-black tree `kvs_rbtree.c` | tree with sentinel `nil` | RSET RGET | dispatch; read by the saver without a lock |
| hash `kvs_hash.c` | slots with chains, `count` | HSET HGET | dispatch; read by the saver without a lock |
| sorted set `kvs_skiptable.c` | skip list ordered by score | ZADD ZREM ZRANGE | dispatch; not persisted |
| persistence `kv_RDB.c` | the file, the backups, `g_rdb_config` | save, load, verify, backup, restore | SAVE (server thread), autosave thread, start |
| dispatch `kvstore.c` | none | `kvs_tcp_protocol` | called by the network layer for each packet |
| reader `ntyco.c` | one buffer per connection | `server_reader`, `server` | recv/send, coroutine scheduler |
| `reactor.c`, `proactor.c` | connection buffers | event loops | alternatives to ntyco, chosen at build time |
| memory pool `kv_mempool.c` | free list of chunks | alloc, free | `kvs_malloc`/`kvs_free` of all engines |
| slab pool, C++ allocator | free lists | alloc, free | separate builds |

What is hard here:

- **two threads**: the server thread and the autosave thread share the array
  (under `array_mutex`), the tree and the hash (under nothing) and, when a client
  sends SAVE, the RDB file (under nothing);
- **crashes**: `kvs_rdb_save` truncates the only file before it writes the new
  one, and stdio decides when bytes leave the process;
- **pieces**: `recv` returns part of a packet, or several packets;
- **early returns** under a lock, **holes** left by DEL, allocations that fail,
  values that are freed twice, tables that are never cleared;
- **limits**: `total` against `KVS_ARRAY_SIZE`, `buffer_len` against the buffer,
  backup names that change once a second.

What makes each part correct: an engine is a map and keeps no second copy of a
key; a command gives the mutex back; a restart loads what some save wrote, whole
or not at all; the last save survives an interrupted one; every packet is
answered once, in order, however it arrives; an allocator never has two owners
for one block. Where the code falls short of this, the models do too: the exact
conditions are part of the properties, and disagreements with the repository's own
comments and documents are violated runs (see *Findings*).

## Modules

| module | models | extends / uses |
| --- | --- | --- |
| `KvsMap` | what the array engine promises: a map behind a one-request server | |
| `KvsArray` | `kvs_array.c` with the array commands of `kvs_tcp_protocol` | `INSTANCE KvsMap` |
| `KvsArrayProofs` | proofs about `KvsArray` | `KvsArray`, `TLAPS` |
| `KvsRdb` | `kv_RDB.c` with both threads, the files, stdio, the clock, crashes | |
| `KvsRdbProofs` | proofs about `KvsRdb` | `KvsRdb`, `TLAPS` |
| `NtycoReader` | `server_reader`, `parse_tcp_header`, the buffer handling of `kvs_tcp_protocol` | |
| `NtycoReaderProofs` | proofs about `NtycoReader` | `NtycoReader`, `SequenceTheorems`, `TLAPS` |
| `KvsDict` | what the tree and the hash engine promise: a map whose first value stays | |
| `KvsRbtree` | `kvs_rbtree.c`: insertion, deletion and the two fixup loops, step by step | `INSTANCE KvsDict` |
| `KvsRbtreeOrder` | lemmas: what the steps of `KvsRbtree` do to the order of the keys | `KvsRbtree`, `TLAPS` |
| `KvsRbtreeProofs` | proofs about `KvsRbtree` | `KvsRbtreeOrder` |
| `KvsMempool` | `kv_mempool.c` behind `kvs_malloc` and `kvs_free`: a pool as a value | |
| `KvsHash` | `kvs_hash.c` with its nodes, keys and values in pool memory | `KvsMempool`, `INSTANCE KvsDict` |
| `KvsHashProofs` | proofs about `KvsHash` and the pool | `KvsHash`, `TLAPS` |
| `KvsSortedSet` | what ZADD, ZREM and ZRANGE promise: a set of entries | |
| `KvsSkiptable` | `kvs_skiptable.c` with the sorted-set commands of `kvs_tcp_protocol` | `INSTANCE KvsSortedSet` |
| `KvsSkiptableProofs` | proofs about `KvsSkiptable` | `KvsSkiptable`, `TLAPS` |
| `Reactor` | `reactor.c` with several clients | |
| `ReactorProofs` | proofs about `Reactor` | `Reactor`, `TLAPS` |
| `MC...` | instances for TLC | the module of the name |

The definitions beside a definition of the code that are named for what they get
wrong (`MatchesUpToHole`, `NoBackup`, `NotMoved`, ...) are mutants: plausible bugs
at that place. They are used nowhere in the specifications; each property is
violated when one of them takes the place of the definition it stands before.

### KvsArray

`table` is `inst->table` (a slot is `NULL`, `Wild` or an item), `total` is `inst->total`,
`lock` the holder of `array_mutex`, `req` the parsed packet being served, `resp`
the text of the last answer. Each engine function is one action, because it runs
between one lock and one unlock of `array_mutex` and nothing else touches the
array without the mutex (persistence is in `KvsRdb`). Guards and results follow
the early returns: `Refused` (NULL arguments, `total == KVS_ARRAY_SIZE`), the scans
`Matches` and `ScanHitsHole` (DEL alone does not skip holes: `strcmp(NULL, ...)`
ends the process), `TotalAfterDel`, the failing `kvs_malloc`, and the mutex that GET,
DEL and MOD keep when an argument is missing (`LockAfter`). A packet's payload is its
parse: key and value split at the first space, no value without one, neither when
`data_len` is 0.

Two things are undefined in the code. The table comes from `malloc` and is never
cleared (`kvs_array.c:15`): a slot nothing was written to is `NULL` or `Wild`, in any
mixture (`Uncleared`), and since a refilled hole also counts `total` up, the scans reach
such slots (`ScanHitsWild`); they then kill the process or compare something no client
sent and go on. And a MOD without memory leaves a pointer to the value it has freed
(`Dangling`); the next MOD or DEL of that key frees it again (`kvs_array.c:172`, `:132`). Then
`intact` is `FALSE`: the free list of the pool is cyclic, two strings share one block,
and any command may answer anything or die (`Undefined`) until the process is started
again. The model does not follow the table from there.

`KvsMap` has no slots, lock or scans. What it allows beyond a perfect map: a SET may be
refused; any command may end the process (a DEL that meets a hole, any scan of a slot
never written); a DEL on an *empty* map may answer OK (the function returns the loop
index, 0); a MOD that runs out of memory loses the old value; and after a MOD or DEL of a
key whose value was lost in this way, nothing is promised until a restart.
`ImplementsMap` maps `dict` to the contents of the slots.

### KvsRdb

The engines are their contents (`arr`, `tree` with the key at its `root`, `hash`).
`kvs_rdb_save` is a sequence of steps per thread (`pc[t]`): backup, `fopen "wb"`
with the header in the stream's buffer, array, tree, one step per hash bucket,
then size and CRC, then the rewritten header and `fclose`. Between any two of them
the other thread may run, the stream may be flushed (`BufferFull`), the second may
change, or the process may die (`Crash`). A file is its header's `data_size`
(counted in records), its records and its footer. A flush writes to where the
stream stands, so that a second `fopen` of the same file in between leaves a gap,
which reads as zeros. `Verified`, `DataEnd`, `Readable` and `Engine` are
`rdb_verify_file_integrity` and `kvs_rdb_load`.

`rdb_create_backup` may fail before it opens its file, or leave any front part of the copy
(`PartsOf`; its `fwrite` is not tested, and a crash in the middle leaves the same); the
save goes on in every case, as `kv_RDB.c:150` does. A complete copy may overwrite an
earlier backup of the same second. `OpenFails` is the `fopen` that fails. A restore
(`rdb_restore_from_backup`, run by hand while the server is down, as `RDB_README.md:142`
shows) truncates the main file and may be cut short anywhere; it can then be repeated.
Three history variables record what the properties speak of: `saved`, what the last
complete save wrote; `exposed`, that a backup since then was not copied completely or
took the place of another one; `half`, that the file is what an interrupted restore
has left.

Abstractions: one record is one cell, as if all records had one length; a copy is one
step with any of its possible outcomes; `rdb_enabled` is on; the array is a map, which
is what `KvsArray` implements; slot and bucket orders are arbitrary; the CRC64 is
injective. The disk does not fill up while the save itself writes, and the saver does
not read never-written slots other than by dying of it (`Crash`). With CRC64 on, a save of any data fails in this code
(`kv_RDB.c:229` reads from a stream opened for writing only): `EndOfData` says so.
Only the root of the tree is written (`WriteTree`, marked TODO at `kv_RDB.c:96`), a
damaged file is not replaced by a backup at a restart (`Restart`, TODO at
`kv_RDB.c:347`), and a load stops at a record with an empty key (`Readable`).

### NtycoReader

One connection. A byte of the client's stream is its position, so that the
properties can say *which* byte is where; `packets` is what the client has sent,
`buffer` is `buffer[0 .. buffer_len)`, `pc` tells `recv` from the inner loop.
`HandlePacket` is the whole handling of one packet, with the NUL that
`kvs_tcp_protocol` writes one byte past the payload (`kvstore.c:494`) and the
`memmove`. `SendPacket` and the piece sizes of `recv` are the environment.
A handled packet is answered, because `build_tcp_response` returns at least the size of a
header, but not every handler returns. All connections share one thread and one
`array_mutex`: each packet says what its command does with the mutex (`Uses`: nothing,
lock and unlock, or lock and leak, as a GET, DEL or MOD without its argument does). After a
leak the next handler that locks waits for ever, and a handler may end the process
(`HandlerStops`); other connections do the same to this one (`OtherConnections`). `server`
is "running", "leaked", "blocked" or "dead". Clients may pipeline and hang up; the history
variable `waits` tells those that so far did neither. `recv` errors end the connection like a close.

### KvsRbtree

`T` is the tree: `root`, the two links of each node, `parent` and `color`. A node is
named by the key it holds and `nil` by 0. `rbtree_delete` exchanges the keys and
values of a node and its successor and cuts the successor out; with nodes named by
keys the two names change places (`Exchanged`), and the node that goes is the one
with the key. The code writes each rotation and each fixup twice, once per side;
the model has a side as parameter (`Rotate(t, x, s)`, `Turn`, `SideOf`). `kvs_rbtree_set` and
`kvs_rbtree_del` do the search and the linking in one step; then each iteration
of a fixup loop is a step of its own (`pc`, `z`), so that the invariants speak of the
tree *inside* the loops as well. As in the code, `nil` is one shared node: its
`parent` is written by a deletion and read by the fixup.

`kvs_rbtree_set` answers OK for a key that exists and stores nothing;
`kvs_rbtree_del` of an absent key deletes `nil`, whose links were never set, and ends
the process; `kvs_rbtree_del` gives the node to `free` although it may be a chunk of
the pool, which `free` answers by aborting (`FreeNode`). `Lost` is the value of a node
whose MOD found no memory: a null pointer in the tree, a freed one in the hash.
`MaxLost` bounds how many values are lost at a time; from the number of keys on it
excludes nothing.

`del`, `mod` and `exist` of the tree and of the hash are functions of the engines'
interface (`kvstore.h`); the packets of this version reach `set` and `get` only. The
models have all five, since the engines' invariants depend on them.

### KvsMempool and KvsHash

A pool is the list of free blocks, and the sizes of the blocks `malloc` provided.
Blocks are numbers, the chunks first. `kvs_free` gives *every* block to the pool, so
blocks of `malloc` end up on the free list and are never given back; `malloc` is
assumed to fail after `MaxHeap` blocks. In `KvsHash` a node has three blocks: itself,
its key, its value. `Allocated` is `_create_node` with its three allocations in
order, the blocks lost when a later one fails included; the process then
dereferences NULL. Deleting the head of a chain frees the node without its key
and value, deleting another one frees all three (`FreedByDel`). A MOD frees the old value
first; when there is no memory for the new one the node keeps a pointer to a block
of the free list (`Lost`). The next MOD of the key, or a DEL of it behind the head of its
chain, frees the block again, which then is on the list twice, and goes on; `intact` is
`FALSE` from there to the next start, and what further operations do with that list is
not followed (`Undefined`). The slots come from `malloc` and are not cleared: a chain of a
slot in `wild` ends in garbage, and a scan that gets there dies of it or takes it for the
end (`Strays`). `WildSlots` bounds which slots; the proofs allow all of them.

`SingleOwner` says that, dangling pointers aside, no block has two owners as long as
`intact` holds; the refinement shows that only an operation on a key whose value is lost
ends that.
`FitsItsBlock` is conditional as well: as long as the pool has not run out once, a block on the
free list holds at least a chunk's size. Afterwards the list may contain blocks
that `malloc` cut to the size of a short string, and the claim is false.

### KvsSkiptable

`forward[n][i]` is the pointer array of each node, `Garbage` where a node's array does
not reach or after `free`; `value`, `level` and `length` as in the code. Nodes are named
by score and key, which never change. `randomLevel` may return any height. `Update`
is the descent through the levels, with the nodes to pass as parameter: those of
smaller score or key for ZADD, those of smaller key alone for ZREM. ZRANGE collects up to `MAX_RESULTS` (100) entries
and prints them until `result` is full (`RESULT_LINES`, as if all lines had one
length). No `malloc` or `strdup` is tested: a node without memory, or without its key,
ends the process before any answer shows a difference, which is a new process to
the clients; a value without memory (`Missing`) stays in the list, and a ZRANGE that
collects it ends the process. Truncation of keys and values to 127 characters is left out, scores are
numbers, and the rwlock, which every path releases and only one thread takes, too.

`KvsSortedSet` is a set of entries (score, key, value). A key may have several
scores: `kvstore.h` says of ZADD's result 1 "已存在（分数被更新）" (exists, score updated), but
the code adds a second node for a new score and answers EXIST for a new *value* (against
`OneScorePerKey`). The abstract ZREM removes one entry of its key, and may answer NO_EXIST for a stored key
only if every entry of it is *out of place*: some larger key comes before it or some
smaller key after it in the order of scores. `kvstore.h` says of the result -1
"不存在" (does not exist); with keys and scores in the same order that is so. In other orders (against `ZremFindsEveryKey`)
ZREM stops at a larger key, or jumps over the entry on an upper level, depending on
the random heights.

### Reactor

`conn_list` and the epoll registrations are functions of the descriptor (`owner`,
`event`, `rlength`, `wlength`); `batch` is what is left of the events of the last
`epoll_wait`, handled in any order. `accept` returns the lowest free descriptor.
`recv_cb` takes what one `recv` returns for one packet: `kvs_handler` answers the
packet at its front if it is complete, ignores what follows, and otherwise returns a
negative number (`Bad`), which `send_cb` passes to `send` as a length. Clients are
*polite* (one packet that fits, in one piece, then wait for the answer) or *rude*
(anything, in any pieces, hang-ups). Both may send, and rude ones hang up, while they
still wait in the backlog. A packet of a rude client may leave `array_mutex` locked
(`ServerAfter`), after which a handler that locks stops the loop for ever; a handler may
also end the process (`handler_stops`). A client that has hung up answers with a
reset, and a later send may end the process by SIGPIPE. One listening socket stands
for the twenty; registering a connection and clearing its entry is part of
`accept_cb`. Clients read what they are sent; if they did not, `send` on a blocking
socket would stop the loop.

## Runs

| run | bounds | shows |
| --- | --- | --- |
| `array` | 4 slots, 3 keys, 2 values (symmetric), packets without arguments, failing allocations, slots never cleared | `TypeOK`, `UniqueKeys`, `LiveBelowTotal`, and that the engine implements the map |
| `array_null` | 3 slots, 2 keys, 2 values, packets without arguments | **violated** `RequestsEnd` |
| `rdb` | 2 array keys, 1 hash key, 1 value, autosave, 2 seconds, backups that may fail | `TypeOK`, `AllOrNothing`, `ArraySnapshot`, `LastSaveRecoverable` |
| `rdb_backup_fails` | 2 array keys, SAVE, 2 seconds, backups that may fail | **violated** `BackupBeforeEverySave` |
| `rdb_live` | 2 array keys, 1 tree key, 1 hash key, SAVE and autosave, CRC64 | `AutosaveUnlocks`, also when the save fails |
| `rdb_overlap` | 1 array key, 1 hash key, SAVE and autosave | **violated** `AllOrNothing` |
| `reader` | header 2, data up to 2, buffer 6, 3 packets, pipelined or not, oversized packets, hang-ups, all uses of the mutex | `TypeOK`, `RoomToReceive`, `Framed`, `InOrder`, `ValidKeepsConnection`, `EveryPacketAnswered` |
| `rbtree` | 6 keys, 1 value, failing allocations, 1 value lost at a time | `TypeOK`, `SearchTree`, `ColourRules`, `FixupEnds`, and that the tree implements the map |
| `hash` | 3 keys on 2 slots, a value that fits a chunk and one that does not, 4 chunks, 2 blocks of `malloc`, one slot that may be wild | `TypeOK`, `SingleOwner`, `FitsItsBlock`, `CountMatches`, and that the chains implement the map |
| `skiptable` | 3 keys, 2 scores, 3 levels, up to 4 nodes, 1 value or none for lack of memory, 3 results of which 2 fit | `TypeOK`, `LevelsLinked`, `CountsMatch`, and that the list implements the sorted set |
| `skiptable_doc` | the same | **violated** `AsDocumented` |
| `reactor` | 1 polite and 2 rude clients, 2 descriptors, 2 packets each of two clients, buffer of 3 | `TypeOK`, `NoStaleEvent`, `OwnAnswers`, `PoliteServed` |

Why the bounds are enough. Four slots and three keys have a hole before, between
and after items, a refilled hole that leaves `total` past the last item, and a
full table with a free slot. Two array keys and a hash key give a save that is
overtaken by commands of both kinds and a file of which a part has left the
buffer; two seconds give an interrupted save, its backup, and a retry with a new name
or the same one. A buffer of one and a half largest packets has every split of
a packet, an incomplete packet that nearly fills the buffer, and two packets at
once. The safety properties are proved without these bounds as well. Six keys give
trees of black height two with all four cases of both fixups on both sides, and
deletions that move the defect up more than one level. Six blocks hold two hash
entries: a head and a second node in one chain or one in each, with each kind of
block on the free list and memory that runs out in each of the three allocations.
Four nodes on three levels give a key two entries, keys against the order of their
scores on either side, a walk that jumps over its key, and levels that appear and
go two at a time. Three clients on two descriptors leave one in the backlog until
a descriptor is closed and used again.

`CHECK_DEADLOCK FALSE` is set where the system really stops: the array run with a
leaked mutex, a connection that is closed or has no more packets, a reactor whose
clients have nothing more to send, and both when the thread is blocked or the process
has ended.

**Fairness.** `KvsArray`: the server thread keeps running (`WF(Serve)`); clients
need not send, and nobody need start a dead server again. `KvsRdb`: each thread goes on with
a save it has begun (`WF(SaveStep(t))`); nothing obliges commands, the clock or
crashes. `NtycoReader`: the scheduler resumes a coroutine whose socket is readable,
and `recv` does not block then; a handler of a complete packet returns or stops for one of
the reasons in `HandlerStops`; clients need not send. `KvsRbtree`: the thread goes
on with the fixup it is in (`WF(Fixup)`). `Reactor`: the loop goes on (`WF(Loop)`) until a
handler stops it; clients need not act. `EveryPacketAnswered` and `PoliteServed` therefore
name the stopped thread as an exception, and `PoliteServed` also the client that waits in
the backlog for ever because no descriptor becomes free.

### Findings

Each violated run is a disagreement of the code with a comment or document of the
repository, quoted under `findings` in `PROJECT.json`:

- `rdb_overlap`: SAVE does not take the mutex the autosave takes, and two saves at once
  write a file that verifies and loads what nobody saved (`kvstore.c:686`).
- `array_null`: `kvs_array_get`, `_del` and `_mod` return on a NULL argument with the mutex
  locked (`kvs_array.c:97`); the next array command waits for ever.
- `rdb_backup_fails`: a save goes on and truncates the file when its backup has failed
  (`kv_RDB.c:150`), and a crash leaves the last save nowhere.
- `skiptable_doc`: the counterexample is a list that contradicts two statements of
  `kvstore.h` at once: ZADD with a new score has added an entry and updated none
  (`kvs_skiptable.c:49`), and ZREM does not find a key that is stored
  (`kvs_skiptable.c:76`).

Other known departures are part of the models and limit what the runs claim:

- `kvs_array_del` compares with the NULL key of a hole (`kvs_array.c:127`) and ends the
  process; `KvsMap` allows a command to do so.
- The array's and the hash's tables are not cleared (`kvs_array.c:15`, `kvs_hash.c:77`).
- A MOD after a failed one frees the old value again (`kvs_array.c:172`, `kvs_hash.c:183`);
  after that nothing is claimed of the array and the hash (`intact`).
- A save interrupted and retried within one second overwrites the good backup
  (`kv_RDB.c:778`); it is one of the two things that set `exposed`.
- The NUL after a payload lands on the magic of a packet that follows in the buffer
  (`kvstore.c:494`), and the connection is closed; `ValidKeepsConnection` is claimed of
  clients that wait for each answer. `Framed` shows that no other byte is ever wrong.

## Proofs

`KvsArrayProofs`, for every table size and all key and value sets, assuming only
that the size is positive and that `NULL`, `Dangling` and the lock values are not
keys, values or records (`SizeAssumption`, `DistinctAssumption`, `NullAssumption`):

- `TypeCorrect`, `KeysAreUnique`, `NothingStranded`, the last two while `intact` holds. The
  invariants support each other: uniqueness needs that nothing lies at or beyond
  `total`, because the duplicate check looks only below it; that in turn needs the
  bounds on `total`. The inductive invariant is their conjunction, one lemma per
  action.
- `Refinement`: `Spec => ImplementsMap`. With unique keys, `DictOf` of a table with
  one slot changed is `DictOf` with one key changed; each action is then a step of
  `KvsMap`. The slots' first contents are arbitrary, and `intact` is a variable of both
  specifications: the proof also shows that it becomes `FALSE` only by a MOD or DEL of a
  key whose value the map says is lost.

`NtycoReaderProofs`, for all header, payload and buffer sizes with
`BUFFER_SIZE >= TCP_HEADER_SIZE + MAX_DATA` (`SizesAssumption`) and any number of
packets: `TypeCorrect`, `AlwaysRoom`, `AlwaysFramed`, `AnsweredInOrder`. `InOrder` is
not inductive. The strengthening adds that the packets lie one after the other in
the stream (`Contiguous`) and that the buffer begins where the first unanswered
packet does (`AtNextPacket`); with `Framed`, the packet at the front of the buffer
can then only be that one (`HeadIsNext`), even after a NUL was written there.

`ConnectionKept` proves `ValidKeepsConnection`. `WInv` adds that of a client that waits
at most one packet is under way, so that the NUL behind its payload overwrites no byte of
another (`OneUnderWay`).

`KvsRdbProofs`, for all keys, values and times, with finitely many array keys
(`ArrayAssumption`) and a `NULL` that is no key, value or thread (`NullAssumption`):

- `TypeCorrect` and `ArrayIsSnapshot` (`ArraySnapshot`), also with both savers at once: the array
  part of a save is what the array holds, whatever else runs. `TInv` adds that a save
  begins with an empty stream, that the mutex is held as long as the autosave runs, and
  that from the array step on the stream's array part is the array as it still is.
- `WholeSaves` (`AllOrNothing`) and `CrcStoresNothing` when only one thread saves (`OneSaver`:
  autosave or SAVE but not both) and no key is empty (`KeysNotEmpty`). The run
  `rdb_overlap` shows that the first hypothesis is needed. `SInv` adds what an unfinished
  save has left in the file, a header without a size and the first records of the
  stream (`Partial`), which loads nothing, except for what a restore that was cut short
  has left (`half`).
- `LastSaveIsKept` (`LastSaveRecoverable`) under the same hypotheses, with any failures of
  backups and restores: while no backup since the last save was incomplete or
  overwrote another (`~exposed`), some backup holds the last save from `fopen` to the end
  of the next one (`GoodBackup`). The run `rdb_backup_fails` shows that this condition
  cannot be left out.

`ReactorProofs`, for any clients, descriptors, packet and buffer sizes
(`ReactorAssumption`): `TypeCorrect`, `EventsAreFresh` (`NoStaleEvent`) and `AnswersAreOwn`
(`OwnAnswers`). The invariant adds that a client is in the backlog once or behind one
descriptor but not both (`OneConnection`), that its bytes and answers are its own and in order, the
answer that waits to be sent included (`AllInOrder`), and where a polite client is in
its dialogue: quiet, asking, or about to be answered (`PoliteDialogue`).

`KvsHashProofs`, for every hash function, table, pool and string size
(`TableAssumption`, `PoolAssumption`, `ValuesAssumption`): `TypeCorrect`, `CountIsRight`, `StoredFits`,
`BlocksHaveOneOwner`, and `HashIsDict`, the refinement of `KvsDict`. The invariant sees
the chains as positions (for what `del` cuts out) and as a set of nodes (for who owns
which block). It is kept while `intact` holds and until the next start says nothing
about the memory of a process in which a value was freed twice; `intact` ends only by
a MOD or DEL of a key whose value is lost, which the refinement shows. No key is in a chain twice and each is in the chain of its hash
(`ChainsOK`), every block on the free list is there once, and the blocks of the nodes
are distinct and not on the free list, value blocks a MOD has lost aside (`Memory`).

`KvsSkiptableProofs`, for all keys, scores, heights and numbers of levels and nodes
(`SkipAssumption`, `PointerAssumption`): `TypeCorrect`, `AlwaysLinked` (`LevelsLinked`),
`CountsAreRight` (`CountsMatch`), and `Refinement`, the implementation of `KvsSortedSet`.

- The invariant `IInv` adds to `LevelsLinked` that the levels are nested, that freed nodes
  point nowhere and that `level` is the highest level in use.
- The walks are recursive functions. A level is finite and its order total, so a set
  of nodes that has a later member for every member is empty (`NoLast`). With this,
  every walk has an end (`EndExists`) and only one (`OneEnd`), the function that maps a
  node to it solves the recursion (`WalksDefined`), and every solution finds the ends
  (`WalksEnd`). The descent (`UpdateIs`) and ZRANGE (`CollectsListing`) are treated alike.
- ZADD stops behind the right node on every level (`ZaddPlace`). ZREM compares keys only:
  that it still meets the node it found on level 0 on *every* level the node is on
  (`ZremFinds`) is the heart of the proof. If it stopped on some level before another
  node *x* of a key not smaller, the walks below could not pass *x* either, and level 0
  would have led to *x* or an earlier node.

`KvsRbtreeProofs`, for any set of keys, even an infinite one, all values and every failure
of malloc that leaves at most `MaxLost` values lost at a time, for any `MaxLost` (`KeysAssumption`: keys are positive numbers, in the order of `strcmp`;
`ValuesAssumption`: `NULL` and `Lost` are different, `NULL` is no key and neither is a
value): `TypeCorrect`, `OrderKept` (`SearchTree`), `ColoursKept` (`ColourRules`) and
`TreeIsDict`, the refinement of `KvsDict`.

- The invariant `IInv` says that there are two functions the code does not keep: `U`, the
  keys under each node, and `H`, the black nodes on every way down from it, with the
  link to the node of the deletion's loop counted as one more. With `U` the tree is a
  search tree (`Good`), with `H` it is balanced (`Level`, `Heights`). The tree is `Sound` when no
  loop runs; inside the insertion's loop it is `Climbing` (only its node may have a red
  parent), inside the deletion's `Falling` (the ways through its node are one black node
  short). A key has a value if and only if it is in `U[T.root]`.
- A rotation, a linked node and a deletion change `U` at a few nodes only, and the new
  `U` is written down for each (`RotateGood`, `LinkGood`, `DeleteGood` in `KvsRbtreeOrder`). The
  deletion is proved in two steps: the node is cut out, then two names change places.
- The order cannot be proved without the colours. The deletion's loop rotates around
  the sibling of its node, and were that `nil`, the rotation would write the links of
  `nil`. It is not: the ways through the loop's node count one black node more than the
  node has, so those through the sibling meet at least one (`Sibling`).
- Each branch of the loops has its lemma: `RecoloredClimbs`, `StraightMended`,
  `RootBlackened`, `SiblingBlack`, `SiblingReddened`, `RepaidSound`, `LastBlackened`. They are
  stated with the side as parameter and so cover both halves of the code.
- The search loops are recursive functions. A set of nodes has a lowest one (`Lowest`, by
  the number of keys under it), so they have one solution, and the search finds a key
  if and only if it is in `U[T.root]` (`SearchFinds`). In the same way `U` and `H` are the
  functions `Under` and `BlackNodes` of the properties (`UnderIs`, `BlackNodesIs`).

Only model-checked are the liveness properties (`RequestsEnd`, `AutosaveUnlocks`,
`EveryPacketAnswered`, `FixupEnds`, `PoliteServed`), because fairness and ENABLED are beyond
the prover.

## Not modelled, and why

- Configuration (`kvs.conf`, the setters, the argument of `main`): text processing;
  its values are constants. (`kvs_rdb_init` reads `kvs.conf` after `main` has set the
  path of its argument, so a path in the file wins.)
- The NtyCo scheduler is not in this repository, and with it the accept loop of
  `ntyco.c`: when a new coroutine first reads `cli_fd` is the scheduler's decision.
- The proactor: an alternative at build time; the order of completions is the
  kernel's.
- The slab pool and the C++ allocator: separate builds that the server does not link.
- The final save, `dest_kvengine` and the `destory` functions after the network loop:
  the loop does not return.
- `hash.c`, clients, test programs: not parts of the server.

## Plan

1. (done) `KvsMap`, `KvsArray`, its refinement and proofs; `KvsRdb`; `NtycoReader`
   and its proofs.
2. (done) `KvsMempool`, `KvsHash`, `KvsRbtree`, `KvsSkiptable`, `Reactor` with their
   abstract specifications.
3. (done) Proofs about `Reactor`, `KvsRdb`, `KvsHash`, `KvsSkiptable`, and the rest of
   `NtycoReader`.
4. (done) Proofs about `KvsRbtree`. With them every safety property the runs check is
   proved, under the hypotheses named above; the liveness properties stay with TLC.
