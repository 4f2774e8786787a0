------------------------------ MODULE KvsArray ------------------------------
(***************************************************************************)
(* The array engine (kvs_array.c) as the server thread drives it: the      *)
(* commands SET, GET, DEL, MOD and EXIST of kvs_tcp_protocol (kvstore.c).  *)
(*                                                                         *)
(* Each engine function runs between one lock and one unlock of            *)
(* array_mutex, so it is one action, enabled only while the mutex is free. *)
(* An early return that forgets the unlock leaves the mutex with the       *)
(* server thread.  The mutex is a default, non-recursive one, so the next  *)
(* command then blocks for ever.                                           *)
(*                                                                         *)
(* Two things are undefined in the code and are nondeterministic here.     *)
(* The table comes from malloc and is never cleared: a slot nothing was    *)
(* written to is NULL or Wild, and a scan that meets a Wild slot (a refill *)
(* of a hole counts total up past one) kills the process or compares       *)
(* something no client ever sent.  And a MOD without memory leaves a       *)
(* pointer to the value it has freed; the next MOD or DEL of that key      *)
(* frees it again, which ruins the free list of the pool: intact is then   *)
(* FALSE, and what later commands do is no longer followed.                *)
(***************************************************************************)
EXTENDS Integers

CONSTANTS Keys,            \* key strings
          Values,          \* value strings
          KVS_ARRAY_SIZE,  \* slots of the table (1024 in kvstore.h)
          NULL,            \* the null pointer; also "no request", "no answer"
          Dangling,        \* a pointer to freed memory
          Wild,            \* a slot nothing was ever written to, not zero
          Free, Server,    \* who holds array_mutex
          NullArgs,        \* clients may send packets without key or value
          MallocMayFail    \* kvs_malloc may return NULL

ASSUME SizeAssumption == KVS_ARRAY_SIZE \in Nat \ {0}
ASSUME FlagAssumption == NullArgs \in BOOLEAN /\ MallocMayFail \in BOOLEAN
ASSUME DistinctAssumption ==
    /\ NULL \notin Keys \cup Values \cup {Dangling, Free, Server, Wild}
    /\ Dangling \notin Values
    /\ Free # Server
\* NULL and Wild are not items, and NULL is not a request.
ASSUME NullAssumption ==
    /\ {NULL, Wild} \cap [key : Keys, value : Values \cup {Dangling}] = {}
    /\ NULL \notin [op : {"SET", "GET", "DEL", "MOD", "EXIST"},
                    key : Keys \cup {NULL}, value : Values \cup {NULL}]

VARIABLES table,   \* the slots: NULL, Wild, or an item with key and value
          total,   \* inst->total, the number of slots ever scanned
          intact,  \* no block has been freed twice in this process
          lock,    \* the holder of array_mutex
          up,      \* the process is running
          req,     \* the request being served, NULL when there is none
          resp     \* the text of the last answer

vars == <<table, total, intact, lock, up, req, resp>>

Slots == 0..(KVS_ARRAY_SIZE - 1)
Item == [key : Keys, value : Values \cup {Dangling}]

\* What the packets of a client parse to: key and value split at the first
\* space, value NULL without a space, both NULL when data_len is 0.
Requests == [op : {"SET", "MOD"}, key : Keys, value : Values]
            \cup [op : {"GET", "DEL", "EXIST"}, key : Keys, value : {NULL}]
            \cup IF NullArgs
                   THEN [op : {"SET", "MOD"}, key : Keys, value : {NULL}] \cup
                        [op : {"SET", "GET", "DEL", "MOD", "EXIST"},
                         key : {NULL}, value : {NULL}]
                   ELSE {}

Replies == {"OK", "ERROR", "EXIST", "NO EXIST"} \cup Values \cup {Dangling}

-----------------------------------------------------------------------------
\* The scans over the first n slots of a table t.

Used(t, n)  == {i \in 0..(n - 1) : t[i] \notin {NULL, Wild}}
Holes(t, n) == {i \in 0..(n - 1) : t[i] = NULL}

\* A scan that gives up at the first hole.
MatchesUpToHole(t, n, k) ==
    {i \in Used(t, n) : t[i].key = k /\ \A j \in Holes(t, n) : i < j}

\* A scan that stops one slot early.
MatchesButLast(t, n, k) == {i \in Used(t, n - 1) : t[i].key = k}

\* The slots that hold k: what the scans of set, get, mod and exist find.
Matches(t, n, k) == {i \in Used(t, n) : t[i].key = k}

\* The slot set fills: the first hole, or the end when there is none.
FreeSlot(t, n, i) ==
    \/ i \in Holes(t, n) /\ \A j \in Holes(t, n) : i <= j
    \/ i = n /\ Holes(t, n) = {}

\* del compares every slot up to the match and does not skip holes.
ScanHitsHole(t, n, k) ==
    \E h \in Holes(t, n) : \A i \in Matches(t, n, k) : h < i

\* A scan for k passes a slot that holds no string: strcmp reads anything.
ScanHitsWild(t, n, k) ==
    \E w \in 0..(n - 1) : t[w] = Wild /\ \A i \in Matches(t, n, k) : w < i

\* A del that always shrinks the scanned prefix.
AlwaysShrink(n, i) == n - 1

\* del gives a slot back only when it is the last one.
TotalAfterDel(n, i) == IF n - 1 = i THEN n - 1 ELSE n

\* kvs_malloc's outcomes.
Malloc == IF MallocMayFail THEN BOOLEAN ELSE {TRUE}

-----------------------------------------------------------------------------
\* What malloc gives for the table.
Uncleared == [Slots -> {NULL, Wild}]

Init == /\ table \in Uncleared
        /\ total = 0
        /\ intact = TRUE
        /\ lock = Free
        /\ up = TRUE
        /\ req = NULL
        /\ resp = NULL

\* A complete packet has arrived and its payload is parsed.
Receive == /\ up /\ req = NULL
           /\ req' \in Requests
           /\ UNCHANGED <<table, total, intact, lock, up, resp>>

\* The dispatch of kvs_tcp_protocol; the function's first statement locks.
Serving(op) == up /\ intact /\ req # NULL /\ req.op = op /\ lock = Free

\* get, del and mod give the mutex back except on their early return for a
\* missing argument.
LockAfter(r) == IF \/ r.op \in {"GET", "DEL", "MOD"} /\ r.key = NULL
                   \/ r.op = "MOD" /\ r.value = NULL
                THEN Server ELSE Free

\* The engine function returns, having unlocked or not, and the answer is sent.
Return(r) == /\ lock' = LockAfter(req)
             /\ resp' = r /\ req' = NULL /\ UNCHANGED up

Unchanged == UNCHANGED <<table, total, intact>>

\* The process dies under the command it serves.
Dies == up' = FALSE /\ req' = NULL /\ UNCHANGED <<table, total, intact, lock, resp>>

\* A set that does not look at the capacity.
RefusedWithoutLimit(k, v, n) == k = NULL \/ v = NULL

\* set refuses NULL arguments, and any key once total has reached the size,
\* free slots or not.
Refused(k, v, n) == k = NULL \/ v = NULL \/ n = KVS_ARRAY_SIZE

kvs_array_set ==
    /\ Serving("SET")
    /\ \/ /\ Refused(req.key, req.value, total)
          /\ Return("ERROR") /\ Unchanged
       \/ /\ ~Refused(req.key, req.value, total)
          /\ ScanHitsWild(table, total, req.key) /\ Dies
       \/ /\ ~Refused(req.key, req.value, total)
          /\ Matches(table, total, req.key) # {}
          /\ Return("EXIST") /\ Unchanged
       \/ /\ ~Refused(req.key, req.value, total)
          /\ Matches(table, total, req.key) = {}
          /\ \/ /\ FALSE \in Malloc
                /\ Return("ERROR") /\ Unchanged
             \/ \E i \in Slots :
                  /\ FreeSlot(table, total, i)
                  /\ table' = [table EXCEPT ![i] = [key |-> req.key,
                                                    value |-> req.value]]
                  /\ total' = total + 1 /\ UNCHANGED intact
                  /\ Return("OK")

kvs_array_get ==
    /\ Serving("GET")
    /\ \/ /\ req.key # NULL
          /\ ScanHitsWild(table, total, req.key) /\ Dies
       \/ /\ Matches(table, total, req.key) = {}
          /\ Return("NO EXIST") /\ Unchanged
       \/ \E i \in Matches(table, total, req.key) :
             Return(table[i].value) /\ Unchanged

\* mod and del free the old value of the item, which a failed mod has already
\* freed.
FreesValueOf(item) == intact' = (item.value # Dangling)

kvs_array_del ==
    /\ Serving("DEL")
    /\ \/ /\ req.key = NULL
          /\ Return("ERROR") /\ Unchanged
       \/ \* strcmp(NULL, key): the process dies
          /\ req.key # NULL
          /\ \/ ScanHitsHole(table, total, req.key)
             \/ ScanHitsWild(table, total, req.key)
          /\ Dies
       \/ /\ req.key # NULL /\ ~ScanHitsHole(table, total, req.key)
          /\ \E i \in Matches(table, total, req.key) :
                /\ FreesValueOf(table[i])
                /\ table' = [table EXCEPT ![i] = NULL]
                /\ total' = TotalAfterDel(total, i)
                /\ Return("OK")
       \/ \* not found: returns i, which is total
          /\ req.key # NULL /\ ~ScanHitsHole(table, total, req.key)
          /\ Matches(table, total, req.key) = {}
          /\ Return(IF total = 0 THEN "OK" ELSE "NO EXIST")
          /\ Unchanged

kvs_array_mod ==
    /\ Serving("MOD")
    /\ \/ /\ req.key = NULL \/ req.value = NULL
          /\ Return("ERROR") /\ Unchanged
       \/ /\ req.key # NULL /\ req.value # NULL
          /\ ScanHitsWild(table, total, req.key) /\ Dies
       \/ /\ req.key # NULL /\ req.value # NULL
          /\ Matches(table, total, req.key) = {}
          /\ Return("NO EXIST") /\ Unchanged
       \/ /\ req.key # NULL /\ req.value # NULL
          /\ \E i \in Matches(table, total, req.key), ok \in Malloc :
                /\ FreesValueOf(table[i])
                /\ table' = [table EXCEPT ![i].value =
                                IF ok THEN req.value ELSE Dangling]
                /\ Return(IF ok THEN "OK" ELSE "ERROR")
          /\ UNCHANGED total

kvs_array_exist ==
    /\ Serving("EXIST")
    /\ \/ /\ req.key # NULL
          /\ ScanHitsWild(table, total, req.key) /\ Dies
       \/ /\ Return(IF req.key # NULL /\ Matches(table, total, req.key) # {}
                      THEN "EXIST" ELSE "NO EXIST")
          /\ Unchanged

\* After a second free the pool hands one block to two owners: strings change
\* under the table, and any command may answer anything or die.  The model
\* does not follow the table from here.
Undefined == /\ ~intact /\ up /\ req # NULL /\ lock = Free
             /\ Dies \/ \E r \in Replies : Return(r) /\ Unchanged

\* The process is started again: kvs_array_create on a fresh table.  (What a
\* file then brings back is the subject of KvsRdb.)
kvs_array_create ==
    /\ ~up /\ up' = TRUE
    /\ table' \in Uncleared /\ total' = 0 /\ intact' = TRUE
    /\ lock' = Free /\ resp' = NULL /\ UNCHANGED req

Serve == \/ kvs_array_set \/ kvs_array_get \/ kvs_array_del
         \/ kvs_array_mod \/ kvs_array_exist \/ Undefined

Next == Receive \/ Serve \/ kvs_array_create

Spec == Init /\ [][Next]_vars

\* The server thread keeps running; clients need not send anything, and nobody
\* need start a dead server again.
FairSpec == Spec /\ WF_vars(Serve)
-----------------------------------------------------------------------------
\* Types: total never leaves 0..KVS_ARRAY_SIZE although a refill of a hole
\* also counts it up (kvs_array_set, kvs_array.c:78).
TypeOK == /\ table \in [Slots -> Item \cup {NULL, Wild}]
          /\ total \in 0..KVS_ARRAY_SIZE
          /\ intact \in BOOLEAN
          /\ lock \in {Free, Server}
          /\ up \in BOOLEAN
          /\ req \in Requests \cup {NULL}
          /\ resp \in Replies \cup {NULL}

\* The slots that hold an item.
Stored(t) == {i \in Slots : t[i] \notin {NULL, Wild}}

\* No key sits in two slots, whatever holes DEL has left for SET to refill:
\* get, mod and del stop at the first match, so a second copy would come
\* back to life when the first is deleted.
UniqueKeys ==
    intact => \A i, j \in Stored(table) : table[i].key = table[j].key => i = j

\* Every stored item lies below total, where the scans of all five commands
\* and of kvs_rdb_save look: no SET or DEL strands an item behind total.
LiveBelowTotal == intact => \A i \in Stored(table) : i < total

\* The map the slots of a table t stand for.
DictOf(t) == [k \in Keys |->
                IF \E i \in Stored(t) : t[i].key = k
                  THEN t[CHOOSE i \in Stored(t) : t[i].key = k].value
                  ELSE NULL]

Map == INSTANCE KvsMap WITH dict <- DictOf(table)

\* The engine implements the map: until a value is freed twice, answers and
\* contents are those of KvsMap, for every order of commands, across holes,
\* slots never written, refusals, lost values and restarts.  A value is freed
\* twice only by a MOD or DEL of a key whose last MOD found no memory.
ImplementsMap == Map!MapSpec

\* Every request is answered, or lost with the process: the server thread is
\* never left waiting for a mutex nobody will release.  kvs_array.c:51 states
\* the intent of never locking twice.  It fails: see LockAfter.
RequestsEnd == (req # NULL) ~> (req = NULL)
=============================================================================
