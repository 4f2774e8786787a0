------------------------------- MODULE KvsRdb -------------------------------
(***************************************************************************)
(* RDB persistence (kv_RDB.c) with the two threads that run it: the server *)
(* thread, which changes the engines and executes SAVE, and the detached   *)
(* thread check_auto_save.  kvs_rdb_save is a sequence of steps, so that   *)
(* the other thread, the clock and a crash come between any two of them.   *)
(*                                                                         *)
(* The array engine is the map that KvsArray implements (KvsMap).  The     *)
(* hash engine only grows, because HDEL and HMOD are not dispatched; the   *)
(* tree is its set of pairs and the key at its root.  A record of the file *)
(* is one cell, as when all keys, and all values, have one length; then    *)
(* two writers of one file overwrite each other cell by cell.              *)
(***************************************************************************)
EXTENDS Integers, Sequences, FiniteSets

CONSTANTS ArrayKeys, TreeKeys, HashKeys,  \* keys used with each engine
          Values,
          EmptyKey,        \* the empty string, a key of length 0
          NULL,
          rdb_crc64, rdb_backup,  \* switches of kvs.conf
          SaveCommand,     \* clients send SAVE
          AutoSave,        \* save_interval elapses
          BackupMayFail,   \* no directory, no file descriptor, no space
          MaxTime          \* bound: the clock stops here

Server == "server"
Saver == "autosave"
Threads == {Server, Saver}
Times == 0..MaxTime

ASSUME TimeAssumption == MaxTime \in Nat
ASSUME SwitchAssumption == {rdb_crc64, rdb_backup, SaveCommand, AutoSave,
                            BackupMayFail}
                             \subseteq BOOLEAN
ASSUME NullAssumption == NULL \notin Values \cup ArrayKeys \cup TreeKeys
                                       \cup HashKeys \cup Threads
ASSUME ArrayAssumption == IsFiniteSet(ArrayKeys)

VARIABLES arr, tree, hash,  \* the engines: key -> value, NULL when absent
          root,     \* the key at the root of the tree, NULL when empty
          lock,     \* who holds array_mutex, NULL when nobody
          up,       \* the process is running
          disk,     \* the file g_rdb_config.rdb_file
          backups,  \* backup_dir: one file name per second
          now,      \* time(NULL)
          pc,       \* each thread's position in kvs_rdb_save
          out,      \* the records each thread's save has written so far
          flushed,  \* how many of them, the header counted as one, left stdio
          todo,     \* the hash buckets a save has still to visit
          saved,    \* history: the records of the last save that returned 0,
                    \* or of the backup that replaced it
          exposed,  \* history: since then a backup was not copied completely, or
                    \* took the place of another one
          half      \* history: disk is what an interrupted restore has left

memory == <<arr, tree, hash, root>>
thread == <<pc, out, flushed, todo>>
history == <<saved, exposed, half>>
vars == <<memory, lock, up, disk, backups, now, thread, history>>

Record == [type : {0}, key : ArrayKeys, value : Values]
          \cup [type : {1}, key : TreeKeys, value : Values]
          \cup [type : {2}, key : HashKeys, value : Values]

\* A gap in a file, which reads as zero bytes.
Zero == [type |-> 0, key |-> EmptyKey, value |-> NULL]

\* A file.  hdr is what its first bytes hold: NoHeader when it is shorter than
\* a header, ZeroHeader for a gap, else the header's data_size, in cells.  A
\* footer's CRC64 is taken to identify the data it was computed from.
NoHeader == -1
ZeroHeader == -2
NoFile == [exists |-> FALSE, hdr |-> NoHeader, cells |-> <<>>, footer |-> {}]
Truncated == [NoFile EXCEPT !.exists = TRUE]

-----------------------------------------------------------------------------
\* rdb_verify_file_integrity: with CRC64 off any header will do.
Verified(f) ==
    /\ f.exists
    /\ f.hdr \notin {NoHeader, ZeroHeader}
    /\ rdb_crc64 => /\ Len(f.cells) >= f.hdr
                    /\ f.footer = {SubSeq(f.cells, 1, f.hdr)}

\* A load that trusts the end of the file and not data_size.
DataEndIgnoresHeader(f) == Len(f.cells)

\* Where kvs_rdb_load stops at the latest: after data_size, or at end of file.
DataEnd(f) == IF f.hdr < Len(f.cells) THEN f.hdr ELSE Len(f.cells)

\* The records kvs_rdb_load reads: it gives up at a key of length 0.
Readable(f) == {i \in 1..DataEnd(f) : \A j \in 1..i : f.cells[j].key # EmptyKey}

LoadedFrom(f) == IF Verified(f) THEN {f.cells[i] : i \in Readable(f)} ELSE {}

\* What an engine of the given type holds afterwards.  kvs_array_set,
\* kvs_rbtree_set and kvs_hash_set all keep the first value of a key.
Engine(f, type, keys) ==
    [k \in keys |->
       LET at == {i \in Readable(f) : f.cells[i].type = type /\ f.cells[i].key = k}
       IN  IF ~Verified(f) \/ at = {} THEN NULL
           ELSE f.cells[CHOOSE i \in at : \A j \in at : i <= j].value]

Nothing(keys) == [k \in keys |-> NULL]
Stored(m) == {k \in DOMAIN m : m[k] # NULL}

-----------------------------------------------------------------------------
Init == /\ arr = Nothing(ArrayKeys) /\ tree = Nothing(TreeKeys)
        /\ hash = Nothing(HashKeys) /\ root = NULL
        /\ lock = NULL /\ up = TRUE
        /\ disk = NoFile /\ backups = [s \in Times |-> NoFile] /\ now = 0
        /\ pc = [t \in Threads |-> "idle"]
        /\ out = [t \in Threads |-> <<>>]
        /\ flushed = [t \in Threads |-> 0]
        /\ todo = [t \in Threads |-> {}]
        /\ saved = {} /\ exposed = FALSE /\ half = FALSE

\* The server thread is free to take a command.
ServerIdle == up /\ pc[Server] = "idle"

\* SET, MOD or DEL: one section under array_mutex (see KvsArray).
ArrayCommand ==
    /\ ServerIdle /\ lock = NULL
    /\ \E k \in ArrayKeys, v \in Values \cup {NULL} :
          /\ arr[k] # v
          /\ arr' = [arr EXCEPT ![k] = v]
    /\ UNCHANGED <<tree, hash, root, lock, up, disk, backups, now, thread, history>>

\* HSET of a new key, without a lock; an existing key is left alone.
kvs_hash_set ==
    /\ ServerIdle
    /\ \E k \in HashKeys, v \in Values :
          hash[k] = NULL /\ hash' = [hash EXCEPT ![k] = v]
    /\ UNCHANGED <<arr, tree, root, lock, up, disk, backups, now, thread, history>>

\* RSET of a new key, without a lock; rebalancing may put any key at the root.
kvs_rbtree_set ==
    /\ ServerIdle
    /\ \E k \in TreeKeys, v \in Values :
          tree[k] = NULL /\ tree' = [tree EXCEPT ![k] = v]
    /\ root' \in Stored(tree')
    /\ UNCHANGED <<arr, hash, lock, up, disk, backups, now, thread, history>>

Tick == /\ now < MaxTime /\ now' = now + 1
        /\ UNCHANGED <<memory, lock, up, disk, backups, thread, history>>

-----------------------------------------------------------------------------
\* kvs_rdb_save, in steps.

Goto(t, l) == pc' = [pc EXCEPT ![t] = l]
Write(t, recs) == out' = [out EXCEPT ![t] = @ \o recs]
At(t, l) == up /\ pc[t] = l
NoOtherChange == UNCHANGED <<memory, up, now, backups>>

\* CMD_SAVE calls kvs_rdb_save without taking array_mutex.
StartSaveCommand ==
    /\ SaveCommand /\ At(Server, "idle") /\ Goto(Server, "backup")
    /\ NoOtherChange /\ UNCHANGED <<lock, disk, out, flushed, todo, history>>

\* An autosave that forgets to lock.
StartUnlocked ==
    /\ AutoSave /\ At(Saver, "idle") /\ Goto(Saver, "backup")
    /\ NoOtherChange /\ UNCHANGED <<lock, disk, out, flushed, todo, history>>

\* check_auto_save wakes up and locks array_mutex.
StartAutoSave ==
    /\ AutoSave /\ At(Saver, "idle") /\ Goto(Saver, "backup")
    /\ lock = NULL /\ lock' = Saver
    /\ NoOtherChange /\ UNCHANGED <<disk, out, flushed, todo, history>>

\* A save that skips the backup.
NoBackup(t) ==
    /\ At(t, "backup") /\ Goto(t, "open")
    /\ UNCHANGED <<memory, up, now, backups, lock, disk, out, flushed, todo, history>>

\* What a copy of the file f may leave that is cut short: an empty file, or the
\* header and some of the cells, without the footer.
PartsOf(f) == {Truncated} \cup
              {[f EXCEPT !.cells = SubSeq(@, 1, n), !.footer = {}] : n \in 0..Len(f.cells)}

\* rdb_create_backup: copies the file, unverified, to the name of this second.
\* It may return -1 before it has opened that name, and an fwrite that fails is
\* not noticed; kvs_rdb_save goes on in any case.
rdb_create_backup(t) ==
    /\ At(t, "backup") /\ Goto(t, "open")
    /\ \/ /\ ~rdb_backup \/ ~disk.exists
          /\ UNCHANGED <<backups, exposed>>
       \/ /\ rdb_backup /\ disk.exists
          /\ backups' = [backups EXCEPT ![now] = disk]
          /\ exposed' = (exposed \/ backups[now].exists)
       \/ /\ rdb_backup /\ disk.exists /\ BackupMayFail
          /\ \/ UNCHANGED backups
             \/ \E f \in PartsOf(disk) : backups' = [backups EXCEPT ![now] = f]
          /\ exposed' = TRUE
    /\ UNCHANGED <<memory, up, now, lock, disk, out, flushed, todo, saved, half>>

\* fopen(filename, "wb") and the first header, with data_size 0, in the buffer.
Open(t) ==
    /\ At(t, "open") /\ Goto(t, "array")
    /\ disk' = Truncated /\ half' = FALSE
    /\ NoOtherChange /\ UNCHANGED <<lock, out, flushed, todo, saved, exposed>>

\* The array in slot order; the slots are in no particular order of keys.
SlotOrders(m) == {s \in [1..Cardinality(Stored(m)) -> Stored(m)] :
                    \A k \in Stored(m) : \E i \in DOMAIN s : s[i] = k}

WriteArray(t) ==
    /\ At(t, "array") /\ Goto(t, "tree")
    /\ \E s \in SlotOrders(arr) :
          Write(t, [i \in DOMAIN s |->
                      [type |-> 0, key |-> s[i], value |-> arr[s[i]]]])
    /\ NoOtherChange /\ UNCHANGED <<lock, disk, flushed, todo, history>>

\* kvs_rbtree_traverse: the root, and nothing below it.
WriteTree(t) ==
    /\ At(t, "tree") /\ Goto(t, "hash")
    /\ Write(t, IF root = NULL THEN <<>>
                ELSE <<[type |-> 1, key |-> root, value |-> tree[root]]>>)
    /\ todo' = [todo EXCEPT ![t] = HashKeys]
    /\ NoOtherChange /\ UNCHANGED <<lock, disk, flushed, history>>

\* kvs_hash_traverse, one bucket; the bucket order is unrelated to the keys.
WriteBucket(t) ==
    /\ At(t, "hash") /\ UNCHANGED pc
    /\ \E k \in todo[t] :
          /\ Write(t, IF hash[k] = NULL THEN <<>>
                      ELSE <<[type |-> 2, key |-> k, value |-> hash[k]]>>)
          /\ todo' = [todo EXCEPT ![t] = @ \ {k}]
    /\ NoOtherChange /\ UNCHANGED <<lock, disk, flushed, history>>

\* stdio writes what it holds to where this stream stands in the file: cells
\* flushed..Len(recs), with the first header if it is still in the buffer.
\* What lies before and was cut off by another fopen reads as zeros.
Flush(f, n, recs) ==
    LET size == IF Len(f.cells) > Len(recs) THEN Len(f.cells) ELSE Len(recs)
    IN  IF n > Len(recs) THEN f ELSE
        [f EXCEPT
           !.hdr = IF n = 0 THEN 0 ELSE IF @ = NoHeader THEN ZeroHeader ELSE @,
           !.cells = [i \in 1..size |->
                        IF i >= n /\ i <= Len(recs) THEN recs[i]
                        ELSE IF i <= Len(f.cells) THEN f.cells[i] ELSE Zero]]

FlushOut(t) == /\ disk' = Flush(disk, flushed[t], out[t])
               /\ flushed' = [flushed EXCEPT ![t] = Len(out[t]) + 1]

\* The stream's buffer fills up between two records.
BufferFull(t) ==
    /\ up /\ pc[t] \in {"tree", "hash"} /\ flushed[t] <= Len(out[t])
    /\ FlushOut(t)
    /\ NoOtherChange /\ UNCHANGED <<lock, pc, out, todo, history>>

\* Without CRC64 the save goes on to its end.  With CRC64 fseek flushes the
\* data, fread on a stream opened "wb" returns 0, and the save fails unless
\* there is no data; then the footer with the CRC of nothing follows.
EndOfData(t) ==
    /\ At(t, "hash") /\ todo[t] = {}
    /\ IF rdb_crc64
         THEN /\ flushed' = [flushed EXCEPT ![t] = Len(out[t]) + 1]
              /\ disk' = IF out[t] = <<>>
                           THEN [Flush(disk, flushed[t], <<>>)
                                   EXCEPT !.footer = {<<>>}]
                           ELSE Flush(disk, flushed[t], out[t])
              /\ Goto(t, IF out[t] = <<>> THEN "close" ELSE "failed")
         ELSE FlushOut(t) /\ Goto(t, "close")
    /\ NoOtherChange /\ UNCHANGED <<lock, out, todo, history>>

\* An autosave that never unlocks.
UnlockNever(t) == lock' = lock

\* check_auto_save unlocks after the save; CMD_SAVE has nothing to unlock.
Unlock(t) == lock' = IF t = Saver THEN NULL ELSE lock

\* A stream whose position survives into the next save.
KeepPosition(t) == out' = [out EXCEPT ![t] = <<>>] /\ UNCHANGED flushed

\* fclose: the next save of this thread starts with a new stream.
EndStream(t) == /\ out' = [out EXCEPT ![t] = <<>>]
                /\ flushed' = [flushed EXCEPT ![t] = 0]

\* fclose and return -1; check_auto_save unlocks.
Fail(t) ==
    /\ At(t, "failed") /\ Goto(t, "idle") /\ Unlock(t) /\ EndStream(t)
    /\ NoOtherChange /\ UNCHANGED <<disk, todo, history>>

\* fopen fails and the save returns -1, the file untouched; check_auto_save
\* unlocks.
OpenFails(t) ==
    /\ At(t, "open") /\ Goto(t, "idle") /\ Unlock(t) /\ EndStream(t)
    /\ NoOtherChange /\ UNCHANGED <<disk, todo, history>>

\* The header is written again, now with data_size, and the file is closed.
Close(t) ==
    /\ At(t, "close") /\ Goto(t, "idle") /\ Unlock(t) /\ EndStream(t)
    /\ disk' = [disk EXCEPT !.hdr = Len(out[t])]
    /\ saved' = {out[t][i] : i \in DOMAIN out[t]} /\ exposed' = FALSE
    /\ NoOtherChange /\ UNCHANGED <<todo, half>>

SaveStep(t) == \/ rdb_create_backup(t) \/ Open(t) \/ OpenFails(t) \/ WriteArray(t)
               \/ WriteTree(t) \/ WriteBucket(t) \/ EndOfData(t)
               \/ Fail(t) \/ Close(t)

-----------------------------------------------------------------------------
\* The process dies, for instance in kvs_array_del (see KvsArray): memory and
\* stdio buffers are gone, the files are as they are.
Crash ==
    /\ up /\ up' = FALSE
    /\ arr' = Nothing(ArrayKeys) /\ tree' = Nothing(TreeKeys)
    /\ hash' = Nothing(HashKeys) /\ root' = NULL
    /\ lock' = NULL
    /\ pc' = [t \in Threads |-> "idle"] /\ out' = [t \in Threads |-> <<>>]
    /\ flushed' = [t \in Threads |-> 0] /\ todo' = [t \in Threads |-> {}]
    /\ UNCHANGED <<disk, backups, now, history>>

\* rdb_restore_from_backup, called by hand as RDB_README.md:142-154 shows it,
\* when the file does not verify, or again when the last restore was cut short.
\* It truncates the file and copies the backup into it piece by piece.
rdb_restore_from_backup ==
    /\ ~up
    /\ ~Verified(disk) \/ half
    /\ \E s \in Times :
          /\ Verified(backups[s])
          /\ \/ disk' = backups[s] /\ half' = FALSE
             \/ disk' \in PartsOf(backups[s]) /\ half' = TRUE
          /\ saved' = LoadedFrom(backups[s])
    /\ exposed' = FALSE
    /\ UNCHANGED <<memory, lock, up, backups, now, thread>>

\* main and kvs_rdb_init: load the file if it verifies, else start empty.
Restart ==
    /\ ~up /\ up' = TRUE
    /\ arr' = Engine(disk, 0, ArrayKeys)
    /\ tree' = Engine(disk, 1, TreeKeys)
    /\ hash' = Engine(disk, 2, HashKeys)
    /\ root' \in IF Stored(tree') = {} THEN {NULL} ELSE Stored(tree')
    /\ UNCHANGED <<lock, disk, backups, now, thread, history>>

Next == \/ ArrayCommand \/ kvs_hash_set \/ kvs_rbtree_set \/ Tick
        \/ StartSaveCommand \/ StartAutoSave
        \/ \E t \in Threads : SaveStep(t) \/ BufferFull(t)
        \/ Crash \/ rdb_restore_from_backup \/ Restart

Spec == Init /\ [][Next]_vars

\* Both threads keep running; commands, the clock and crashes need not come.
FairSpec == Spec /\ \A t \in Threads : WF_vars(SaveStep(t))

-----------------------------------------------------------------------------
Map(keys) == [keys -> Values \cup {NULL}]
File(f) == /\ f.exists \in BOOLEAN
           /\ f.hdr \in {NoHeader, ZeroHeader} \cup Nat
           /\ \A i \in DOMAIN f.cells : f.cells[i] \in Record \cup {Zero}

\* Types: in particular no stream stands past what its save has written.
TypeOK == /\ arr \in Map(ArrayKeys) /\ tree \in Map(TreeKeys)
          /\ hash \in Map(HashKeys) /\ root \in Stored(tree) \cup {NULL}
          /\ lock \in Threads \cup {NULL} /\ up \in BOOLEAN
          /\ File(disk) /\ \A s \in Times : File(backups[s])
          /\ now \in Times
          /\ \A t \in Threads :
                /\ pc[t] \in {"idle", "backup", "open", "array", "tree", "hash",
                              "failed", "close"}
                /\ \A i \in DOMAIN out[t] : out[t][i] \in Record
                /\ flushed[t] \in 0..(Len(out[t]) + 1)
                /\ todo[t] \subseteq HashKeys
          /\ saved \subseteq Record /\ exposed \in BOOLEAN /\ half \in BOOLEAN

\* Wherever a save is interrupted, a restart loads nothing or exactly what the
\* last complete save wrote, never a part: until Close the header on disk says
\* data_size 0 (kvs_rdb_save, kv_RDB.c:158-167 and 270-272).  Only a restore
\* that was cut short, which copies the full header first, may leave a part.
AllOrNothing == half \/ LoadedFrom(disk) \in {{}, saved}

\* The last complete save is in the file or in a backup.
InFileOrBackup ==
    \/ LoadedFrom(disk) = saved
    \/ \E s \in Times : LoadedFrom(backups[s]) = saved

\* Although fopen "wb" destroys the file before the new one is complete, the
\* last complete save is at every moment in the file or in a backup
\* (rdb_create_backup at kv_RDB.c:149-151), across crashes and restarts, saves
\* that fail and restores that are cut short, as long as every backup since
\* that save was copied completely and to a name not yet in use.
LastSaveRecoverable ==
    rdb_backup /\ saved # {} /\ ~exposed => InFileOrBackup

\* What RDB_README.md:91 promises without a condition: with backups switched on
\* every save first makes one, so the last complete save is never lost.
BackupBeforeEverySave == rdb_backup /\ saved # {} => InFileOrBackup

\* The array part of a finished save is the array as it is when the save
\* returns: no SET, MOD or DEL gets in while a save is under way
\* (kv_RDB.c:299 "ensure data consistency").
ArraySnapshot ==
    [][\A t \in Threads : Close(t) =>
          {r \in saved' : r.type = 0}
            = {[type |-> 0, key |-> k, value |-> arr[k]] : k \in Stored(arr)}
      ]_vars

\* check_auto_save gives array_mutex back, also after a save that failed: the
\* server thread does not wait for it for ever (kv_RDB.c:300-326).
AutosaveUnlocks == (lock = Saver) ~> (lock # Saver)
=============================================================================
