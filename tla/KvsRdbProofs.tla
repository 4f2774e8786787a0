---------------------------- MODULE KvsRdbProofs ----------------------------
(***************************************************************************)
(* Proofs about KvsRdb for all sets of keys and values, all settings of    *)
(* the switches and any length of time.                                    *)
(*                                                                         *)
(* Two invariants, one on top of the other.  The first holds whoever saves *)
(* and gives the types and the snapshot of the array.  The second is about *)
(* the file and needs that only one thread saves: what is on disk is then  *)
(* what the save in progress has flushed, so a header with data_size 0     *)
(* stands in front of it until the save is complete; and unless a backup   *)
(* went wrong since, there is a backup of the last complete save whenever  *)
(* the file may be destroyed.                                              *)
(***************************************************************************)
EXTENDS KvsRdb, FiniteSetTheorems, SequenceTheorems, NaturalsInduction,
        WellFoundedInduction, TLAPS

Cell == Record \cup {Zero}
Label == {"idle", "backup", "open", "array", "tree", "hash", "failed", "close"}
FileType == [exists : BOOLEAN, hdr : {NoHeader, ZeroHeader} \cup Nat,
             cells : Seq(Cell), footer : SUBSET {<<>>}]

DataTypes == /\ disk \in FileType /\ backups \in [Times -> FileType]
             /\ pc \in [Threads -> Label] /\ out \in [Threads -> Seq(Record)]
             /\ flushed \in [Threads -> Nat] /\ todo \in [Threads -> SUBSET HashKeys]

\* A dead process does nothing.
Down == ~up => \A t \in Threads : pc[t] = "idle"

\* The lock is held as long as the autosave runs.
Locked == pc[Saver] # "idle" => lock = Saver

\* A save starts with an empty stream.
Fresh(t) == pc[t] \in {"idle", "backup", "open", "array"} => out[t] = <<>> /\ flushed[t] = 0

ArrayPart(recs) == {r \in {recs[i] : i \in DOMAIN recs} : r.type = 0}
ArrayNow == {[type |-> 0, key |-> k, value |-> arr[k]] : k \in Stored(arr)}

\* Once the array is written, the save holds the array as it still is.
Snapshot(t) == pc[t] \in {"tree", "hash", "failed", "close"} => ArrayPart(out[t]) = ArrayNow

TInv == /\ TypeOK /\ DataTypes /\ Down /\ Locked
        /\ \A t \in Threads : Fresh(t) /\ Snapshot(t)

\* Only one of the two threads ever saves.
OneSaver == ~(SaveCommand /\ AutoSave)

\* No key has length 0.
KeysNotEmpty == EmptyKey \notin ArrayKeys \cup TreeKeys \cup HashKeys

Saving(t) == pc[t] # "idle"

OneAtATime == /\ Saving(Server) => SaveCommand
              /\ Saving(Saver) => AutoSave

\* What a save that has written recs, n - 1 of them to the file, has left there.
Partial(f, n, recs) ==
    /\ f.exists
    /\ IF n = 0 THEN f.hdr = NoHeader /\ f.cells = <<>>
       ELSE f.hdr = 0 /\ Len(f.cells) = n - 1 /\ \A i \in 1..(n - 1) : f.cells[i] = recs[i]

InProgress(t) ==
    /\ pc[t] \in {"array", "tree", "hash", "failed", "close"} => Partial(disk, flushed[t], out[t])
    /\ pc[t] = "close" => flushed[t] = Len(out[t]) + 1

\* With CRC64 on, only empty saves succeed; with CRC64 off, none fails.
CrcSavesNothing ==
    /\ rdb_crc64 => /\ disk.hdr <= 0 /\ \A s \in Times : backups[s].hdr <= 0
                    /\ saved = {} /\ \A t \in Threads : pc[t] = "close" => out[t] = <<>>
    /\ ~rdb_crc64 => \A t \in Threads : pc[t] # "failed"

\* The backup of second s holds the last save.
GoodBackup(s) == LoadedFrom(backups[s]) = saved

Recoverable ==
    rdb_backup /\ saved # {} /\ ~exposed =>
       /\ LoadedFrom(disk) = saved \/ \E s \in Times : GoodBackup(s)
       /\ \A t \in Threads : pc[t] = "open" => \E s \in Times : GoodBackup(s)

SInv == /\ OneAtATime /\ \A t \in Threads : InProgress(t)
        /\ AllOrNothing /\ CrcSavesNothing
        /\ Recoverable
-----------------------------------------------------------------------------
\* The operators of the model, without the system around them.

\* The first position of a set of positions is one of them.
LEMMA FirstIsOne ==
    ASSUME NEW S \in SUBSET Nat, S # {}
    PROVE  (CHOOSE i \in S : \A j \in S : i <= j) \in S
<1>1. \E x \in S : \A y \in S : ~(<<y, x>> \in OpToRel(<, Nat))
  BY NatLessThanWellFounded, WFMin
<1>2. PICK x \in S : \A y \in S : ~(<<y, x>> \in OpToRel(<, Nat))
  BY <1>1
<1>3. \A y \in S : ~(y < x)
  BY <1>2, Zenon DEF OpToRel
<1>4. \A y \in S : x <= y
  BY <1>3
<1> QED BY <1>4

LEMMA FileTypeIsFile == ASSUME NEW f \in FileType PROVE File(f)
  BY DEF FileType, File, Cell

LEMMA SpecialFiles ==
    /\ NoFile \in FileType /\ NoFile.hdr = NoHeader
    /\ Truncated \in FileType /\ Truncated.exists
    /\ Truncated.hdr = NoHeader /\ Truncated.cells = <<>>
<1>1. /\ NoFile \in FileType /\ NoFile.hdr = NoHeader /\ NoFile.cells = <<>>
      /\ TRUE \in BOOLEAN
  BY DEF NoFile, FileType
<1> QED BY <1>1 DEF Truncated, FileType

\* A copy that is cut short is a file, and claims no more data than its source.
LEMMA PartType ==
    ASSUME NEW f \in FileType, NEW g \in PartsOf(f)
    PROVE  g \in FileType /\ (f.hdr <= 0 => g.hdr <= 0)
<1>1. CASE g = Truncated
  BY <1>1, SpecialFiles DEF NoHeader
<1>2. CASE g # Truncated
  <2>1. PICK n \in 0..Len(f.cells) : g = [f EXCEPT !.cells = SubSeq(f.cells, 1, n), !.footer = {}]
    BY <1>2 DEF PartsOf
  <2>2. f.cells \in Seq(Cell) /\ n \in Nat /\ n <= Len(f.cells) /\ Len(f.cells) \in Nat
    BY DEF FileType
  <2>3. SubSeq(f.cells, 1, n) \in Seq(Cell)
    <3>1. \A i \in 1..n : f.cells[i] \in Cell
      BY <2>2
    <3> QED BY <2>2, <3>1, SubSeqProperties
  <2> QED BY <2>1, <2>3 DEF FileType
<1> QED BY <1>1, <1>2

\* A load reads cells that are in the file, and no gap.
LEMMA ReadableCells ==
    ASSUME NEW f \in FileType, NEW i \in Readable(f)
    PROVE  i \in Nat /\ i \in DOMAIN f.cells /\ f.cells[i] \in Record
<1>1. f.cells \in Seq(Cell) /\ f.hdr \in {NoHeader, ZeroHeader} \cup Nat
  BY DEF FileType
<1>2. f.hdr \in Int
  BY <1>1 DEF NoHeader, ZeroHeader
<1>3. i \in 1..DataEnd(f) /\ f.cells[i].key # EmptyKey
  BY <1>1, <1>2 DEF Readable, DataEnd
<1>4. i \in 1..Len(f.cells)
  BY <1>1, <1>2, <1>3 DEF DataEnd
<1>5. f.cells[i] \in Cell
  BY <1>1, <1>4
<1> QED BY <1>1, <1>3, <1>4, <1>5 DEF Cell, Zero

LEMMA LoadedRecords == ASSUME NEW f \in FileType PROVE LoadedFrom(f) \subseteq Record
  BY ReadableCells DEF LoadedFrom

\* A file without data loads as nothing.
LEMMA NothingLoaded ==
    ASSUME NEW f \in FileType, f.hdr <= 0 PROVE LoadedFrom(f) = {}
<1>1. f.cells \in Seq(Cell) /\ f.hdr \in {NoHeader, ZeroHeader} \cup Nat
  BY DEF FileType
<1>2. f.hdr \in Int /\ Len(f.cells) \in Nat
  BY <1>1 DEF NoHeader, ZeroHeader
<1>3. DataEnd(f) \in Int /\ DataEnd(f) <= 0
  BY <1>2 DEF DataEnd
<1>4. Readable(f) = {}
  BY <1>3 DEF Readable
<1> QED BY <1>4 DEF LoadedFrom

\* What a restart finds in an engine are values of the file, or nothing.
LEMMA EngineType ==
    ASSUME NEW f \in FileType, NEW type, NEW keys PROVE Engine(f, type, keys) \in Map(keys)
<1> DEFINE at(k) == {i \in Readable(f) : f.cells[i].type = type /\ f.cells[i].key = k}
           v(k) == IF ~Verified(f) \/ at(k) = {} THEN NULL
                   ELSE f.cells[CHOOSE i \in at(k) : \A j \in at(k) : i <= j].value
<1>1. ASSUME NEW k \in keys PROVE v(k) \in Values \cup {NULL}
  <2>1. CASE ~Verified(f) \/ at(k) = {}
    BY <2>1
  <2>2. CASE ~(~Verified(f) \/ at(k) = {})
    <3>1. at(k) \subseteq Nat
      BY ReadableCells
    <3> DEFINE i == CHOOSE i \in at(k) : \A j \in at(k) : i <= j
    <3>2. i \in at(k)
      <4> HIDE DEF at
      <4> QED BY <2>2, <3>1, FirstIsOne
    <3>3. f.cells[i] \in Record
      BY <3>2, ReadableCells
    <3>4. f.cells[i].value \in Values
      <4> HIDE DEF i
      <4> QED BY <3>3 DEF Record
    <3> QED BY <2>2, <3>4
  <2> QED BY <2>1, <2>2
<1>2. Engine(f, type, keys) = [k \in keys |-> v(k)]
  BY DEF Engine
<1> HIDE DEF v
<1> QED BY <1>1, <1>2 DEF Map

\* stdio writes records: the file stays a file.
LEMMA FlushType ==
    ASSUME NEW f \in FileType, NEW n \in Nat, NEW recs \in Seq(Record)
    PROVE  Flush(f, n, recs) \in FileType
<1> DEFINE size == IF Len(f.cells) > Len(recs) THEN Len(f.cells) ELSE Len(recs)
           c(i) == IF i >= n /\ i <= Len(recs) THEN recs[i]
                   ELSE IF i <= Len(f.cells) THEN f.cells[i] ELSE Zero
           cs == [i \in 1..size |-> c(i)]
           h == IF n = 0 THEN 0 ELSE IF f.hdr = NoHeader THEN ZeroHeader ELSE f.hdr
<1>1. f.cells \in Seq(Cell) /\ f.hdr \in {NoHeader, ZeroHeader} \cup Nat
  BY DEF FileType
<1>2. size \in Nat
  BY <1>1
<1>3. ASSUME NEW i \in 1..size PROVE c(i) \in Cell
  <2>1. i \in 1..Len(recs) => recs[i] \in Record
    OBVIOUS
  <2>2. i \in 1..Len(f.cells) => f.cells[i] \in Cell
    BY <1>1
  <2>3. i \in Nat /\ i >= 1 /\ Len(recs) \in Nat /\ Len(f.cells) \in Nat
    BY <1>1, <1>2
  <2> QED BY <2>1, <2>2, <2>3 DEF Cell
<1>4. cs \in Seq(Cell)
  <2> HIDE DEF c, size
  <2> QED BY <1>2, <1>3
<1>5. h \in {NoHeader, ZeroHeader} \cup Nat
  BY <1>1
<1>6. Flush(f, n, recs) = IF n > Len(recs) THEN f ELSE [f EXCEPT !.hdr = h, !.cells = cs]
  BY DEF Flush
<1> HIDE DEF h, cs
<1> QED BY <1>4, <1>5, <1>6 DEF FileType

\* Writing records of another engine leaves the array part alone.
LEMMA OtherRecord ==
    ASSUME NEW s \in Seq(Record), NEW r \in Seq(Record),
           \A i \in DOMAIN r : r[i].type # 0
    PROVE  /\ s \o r \in Seq(Record) /\ Len(s) <= Len(s \o r)
           /\ \A i \in 1..Len(s) : (s \o r)[i] = s[i]
           /\ ArrayPart(s \o r) = ArrayPart(s)
<1> DEFINE t == s \o r
<1>1. /\ t \in Seq(Record) /\ Len(t) = Len(s) + Len(r)
      /\ \A i \in 1..(Len(s) + Len(r)) : t[i] = IF i <= Len(s) THEN s[i] ELSE r[i - Len(s)]
  BY ConcatProperties
<1>2. /\ DOMAIN s = 1..Len(s) /\ DOMAIN r = 1..Len(r) /\ DOMAIN t = 1..Len(t)
      /\ Len(s) \in Nat /\ Len(r) \in Nat
  BY <1>1
<1> HIDE DEF t
<1>3. \A i \in DOMAIN s : i \in DOMAIN t /\ t[i] = s[i]
  BY <1>1, <1>2
<1>4. \A i \in DOMAIN t : i \notin DOMAIN s => t[i].type # 0
  <2> SUFFICES ASSUME NEW i \in DOMAIN t, i \notin DOMAIN s PROVE t[i].type # 0
    OBVIOUS
  <2>1. i - Len(s) \in DOMAIN r /\ t[i] = r[i - Len(s)]
    BY <1>1, <1>2
  <2> QED BY <2>1
<1>5. ArrayPart(t) = ArrayPart(s)
  BY <1>3, <1>4 DEF ArrayPart
<1>7. Len(s) <= Len(t)
  BY <1>1, <1>2
<1>8. \A i \in 1..Len(s) : t[i] = s[i]
  BY <1>2, <1>3
<1> QED BY <1>1, <1>5, <1>7, <1>8 DEF t

\* The records of the array in the order of the slots.
LEMMA ArrayRecords ==
    ASSUME TypeOK, NEW s \in SlotOrders(arr)
    PROVE  LET recs == [i \in DOMAIN s |-> [type |-> 0, key |-> s[i], value |-> arr[s[i]]]]
           IN <<>> \o recs = recs /\ recs \in Seq(Record) /\ ArrayPart(recs) = ArrayNow
<1> DEFINE n == Cardinality(Stored(arr))
           b(k) == [type |-> 0, key |-> k, value |-> arr[k]]
           e(i) == b(s[i])
           recs == [i \in DOMAIN s |-> e(i)]
<1>1. Stored(arr) \subseteq ArrayKeys /\ arr \in [ArrayKeys -> Values \cup {NULL}]
  BY DEF TypeOK, Map, Stored
<1>2. n \in Nat
  BY <1>1, ArrayAssumption, FS_Subset, FS_CardinalityType
<1>3. s \in [1..n -> Stored(arr)] /\ \A k \in Stored(arr) : \E i \in DOMAIN s : s[i] = k
  BY DEF SlotOrders
<1>4. \A k \in Stored(arr) : b(k) \in Record
  BY <1>1 DEF Stored, Record
<1>5. \A k \in Stored(arr) : b(k).type = 0
  OBVIOUS
<1>6. ArrayNow = {b(k) : k \in Stored(arr)}
  BY DEF ArrayNow
<1> HIDE DEF n, b
<1>7. /\ DOMAIN s = 1..n /\ recs = [i \in 1..n |-> e(i)]
      /\ \A i \in 1..n : e(i) \in Record
  BY <1>3, <1>4
<1>8. recs \in Seq(Record) /\ DOMAIN recs = 1..n /\ \A i \in 1..n : recs[i] = b(s[i])
  <2> HIDE DEF e
  <2>1. recs \in Seq(Record) /\ DOMAIN recs = 1..n /\ \A i \in 1..n : recs[i] = e(i)
    BY <1>2, <1>7
  <2> QED BY <2>1 DEF e
<1> HIDE DEF recs
<1>9. ArrayPart(recs) = ArrayNow
  <2>1. {recs[i] : i \in DOMAIN recs} = {b(k) : k \in Stored(arr)}
    BY <1>3, <1>8
  <2> QED BY <2>1, <1>5, <1>6 DEF ArrayPart
<1>10. <<>> \o recs = recs
  BY <1>8, ConcatEmptySeq
<1> QED BY <1>8, <1>9, <1>10 DEF recs, e, b

\* A flush brings the file up to what the save has written.
LEMMA FlushPartial ==
    ASSUME NEW f \in FileType, NEW recs \in Seq(Record), NEW n \in 0..(Len(recs) + 1),
           Partial(f, n, recs)
    PROVE  Partial(Flush(f, n, recs), Len(recs) + 1, recs)
<1> DEFINE size == IF Len(f.cells) > Len(recs) THEN Len(f.cells) ELSE Len(recs)
           c(i) == IF i >= n /\ i <= Len(recs) THEN recs[i]
                   ELSE IF i <= Len(f.cells) THEN f.cells[i] ELSE Zero
           h == IF n = 0 THEN 0 ELSE IF f.hdr = NoHeader THEN ZeroHeader ELSE f.hdr
<1>1. f.cells \in Seq(Cell) /\ Len(f.cells) \in Nat /\ Len(recs) \in Nat
  BY DEF FileType
<1>2. CASE n > Len(recs)
  <2>1. Flush(f, n, recs) = f /\ n = Len(recs) + 1
    BY <1>1, <1>2 DEF Flush
  <2> QED BY <2>1
<1>3. CASE ~(n > Len(recs))
  <2>1. Len(f.cells) <= Len(recs) /\ h = 0 /\ f.exists
    BY <1>1, <1>3 DEF Partial, NoHeader
  <2>2. size = Len(recs)
    BY <1>1, <2>1
  <2>3. \A i \in 1..Len(recs) : c(i) = recs[i]
    <3>1. \A i \in 1..Len(recs) : ~(i >= n) => i <= Len(f.cells) /\ f.cells[i] = recs[i]
      BY <1>1 DEF Partial
    <3> QED BY <3>1, <1>1
  <2>4. Flush(f, n, recs) = [f EXCEPT !.hdr = h, !.cells = [i \in 1..size |-> c(i)]]
    BY <1>3 DEF Flush
  <2> HIDE DEF c, h, size
  <2>5. /\ Flush(f, n, recs).hdr = 0 /\ Flush(f, n, recs).exists
        /\ Flush(f, n, recs).cells = [i \in 1..Len(recs) |-> c(i)]
    BY <2>1, <2>2, <2>4 DEF FileType
  <2>6. Len([i \in 1..Len(recs) |-> c(i)]) = Len(recs)
    BY <1>1
  <2> QED BY <1>1, <2>3, <2>5, <2>6 DEF Partial
<1> QED BY <1>2, <1>3

\* Records that are still in the buffer do not show in the file.
LEMMA WritePartial ==
    ASSUME NEW f, NEW n \in Nat, NEW s \in Seq(Record), NEW t \in Seq(Record),
           n <= Len(s) + 1, \A i \in 1..Len(s) : t[i] = s[i], Partial(f, n, s)
    PROVE  Partial(f, n, t)
  BY DEF Partial

-----------------------------------------------------------------------------
\* The first invariant, whoever saves.

LEMMA TwoThreads ==
    /\ Server \in Threads /\ Saver \in Threads /\ Server # Saver
    /\ \A t \in Threads : t = Server \/ t = Saver
    /\ NULL # Saver
<1>1. Server # Saver
  BY DEF Server, Saver
<1> QED BY <1>1, NullAssumption DEF Threads

LEMMA FlushedBound == ASSUME TInv, NEW u \in Threads PROVE flushed[u] <= Len(out[u]) + 1
<1>1. out[u] \in Seq(Record) /\ flushed[u] \in 0..(Len(out[u]) + 1)
  BY DEF TInv, TypeOK, DataTypes
<1>2. Len(out[u]) \in Nat
  BY <1>1
<1> QED BY <1>1, <1>2

LEMMA InitT == Init => TInv
<1> SUFFICES ASSUME Init PROVE TInv
  OBVIOUS
<1>1. 0 \in Times /\ now = 0
  BY TimeAssumption DEF Init, Times
<1>2. DataTypes
  BY SpecialFiles DEF Init, DataTypes, Label
<1>3. File(disk) /\ \A s \in Times : File(backups[s])
  BY <1>2, FileTypeIsFile DEF DataTypes
<1>4. TypeOK
  <2>1. /\ arr \in Map(ArrayKeys) /\ tree \in Map(TreeKeys) /\ hash \in Map(HashKeys)
        /\ root \in Stored(tree) \cup {NULL}
    BY DEF Init, Map, Nothing
  <2>2. \A t \in Threads : /\ pc[t] = "idle" /\ out[t] = <<>> /\ flushed[t] = 0 /\ todo[t] = {}
    BY DEF Init
  <2>3. lock = NULL /\ up = TRUE /\ saved = {} /\ exposed = FALSE /\ half = FALSE
    BY DEF Init
  <2>4. up \in BOOLEAN /\ exposed \in BOOLEAN /\ half \in BOOLEAN
    BY <2>3, Zenon
  <2>5. lock \in Threads \cup {NULL} /\ saved \subseteq Record
    BY <2>3
  <2>6. \A t \in Threads :
           /\ pc[t] \in {"idle", "backup", "open", "array", "tree", "hash", "failed", "close"}
           /\ \A i \in DOMAIN out[t] : out[t][i] \in Record
           /\ flushed[t] \in 0..(Len(out[t]) + 1)
           /\ todo[t] \subseteq HashKeys
    BY <2>2
  <2> QED BY <1>1, <1>3, <2>1, <2>4, <2>5, <2>6, Zenon DEF TypeOK
<1>5. Down /\ Locked /\ \A t \in Threads : Fresh(t) /\ Snapshot(t)
  BY TwoThreads DEF Init, Down, Locked, Fresh, Snapshot
<1> QED BY <1>2, <1>4, <1>5 DEF TInv

\* The steps of one thread's save, in common.
LEMMA SaveFrame ==
    ASSUME TInv, NEW t \in Threads, up, UNCHANGED <<memory, up, now>>,
           disk' \in FileType, backups' \in [Times -> FileType], saved' \subseteq Record,
           exposed' \in BOOLEAN, half' \in BOOLEAN, pc' \in [Threads -> Label], out' \in [Threads -> Seq(Record)],
           flushed' \in [Threads -> Nat], todo' \in [Threads -> SUBSET HashKeys],
           \A u \in Threads \ {t} : pc'[u] = pc[u] /\ out'[u] = out[u] /\ flushed'[u] = flushed[u],
           flushed'[t] <= Len(out'[t]) + 1, Fresh(t)', Snapshot(t)',
           lock' \in Threads \cup {NULL}, Locked'
    PROVE  TInv'
<1> USE DEF TInv
<1>1. DataTypes'
  BY DEF DataTypes
<1>2. File(disk)' /\ \A s \in Times : File(backups'[s])
  BY FileTypeIsFile
<1>3. ASSUME NEW u \in Threads
      PROVE  /\ pc'[u] \in Label /\ out'[u] \in Seq(Record)
             /\ flushed'[u] \in 0..(Len(out'[u]) + 1) /\ todo'[u] \subseteq HashKeys
  <2>1. flushed'[u] <= Len(out'[u]) + 1
    BY FlushedBound
  <2>2. out'[u] \in Seq(Record) /\ flushed'[u] \in Nat
    OBVIOUS
  <2> QED BY <2>1, <2>2
<1>4. ASSUME NEW u \in Threads PROVE \A i \in DOMAIN out'[u] : out'[u][i] \in Record
  BY <1>3
<1>5. TypeOK'
  BY <1>2, <1>3, <1>4 DEF TypeOK, memory, Label
<1>6. Down'
  BY DEF Down
<1>7. \A u \in Threads \ {t} : Fresh(u)' /\ Snapshot(u)'
  BY DEF Fresh, Snapshot, memory, ArrayNow
<1> QED BY <1>1, <1>5, <1>6, <1>7

\* Commands and the clock: no save moves, and the array changes only when no
\* save is under way.
LEMMA CommandFrame ==
    ASSUME TInv, TypeOK', UNCHANGED <<up, disk, backups, thread, lock>>,
           arr' # arr => \A t \in Threads : pc[t] = "idle"
    PROVE  TInv'
<1> USE DEF TInv, thread
<1>1. DataTypes' /\ Down' /\ Locked'
  BY DEF DataTypes, Down, Locked
<1>2. \A t \in Threads : Fresh(t)' /\ Snapshot(t)'
  BY DEF Fresh, Snapshot, ArrayNow
<1> QED BY <1>1, <1>2

LEMMA CommandKeepsT ==
    ASSUME TInv, ArrayCommand \/ kvs_hash_set \/ kvs_rbtree_set \/ Tick PROVE TInv'
<1>1. CASE ArrayCommand
  <2>1. \A t \in Threads : pc[t] = "idle"
    BY <1>1, TwoThreads DEF ArrayCommand, ServerIdle, TInv, Locked
  <2>2. TypeOK'
    BY <1>1 DEF ArrayCommand, TInv, TypeOK, Map, thread, history
  <2> QED BY <1>1, <2>1, <2>2, CommandFrame DEF ArrayCommand
<1>2. CASE kvs_hash_set
  <2>1. TypeOK'
    BY <1>2 DEF kvs_hash_set, TInv, TypeOK, Map, thread, history
  <2> QED BY <1>2, <2>1, CommandFrame DEF kvs_hash_set
<1>3. CASE kvs_rbtree_set
  <2>1. TypeOK'
    BY <1>3 DEF kvs_rbtree_set, TInv, TypeOK, Map, thread, history
  <2> QED BY <1>3, <2>1, CommandFrame DEF kvs_rbtree_set
<1>4. CASE Tick
  <2>1. now' \in Times
    BY <1>4, TimeAssumption DEF Tick, TInv, TypeOK, Times
  <2>2. TypeOK'
    BY <1>4, <2>1 DEF Tick, TInv, TypeOK, thread, memory, history
  <2> QED BY <1>4, <2>2, CommandFrame DEF Tick, memory
<1> QED BY <1>1, <1>2, <1>3, <1>4

LEMMA StartKeepsT == ASSUME TInv, StartSaveCommand \/ StartAutoSave PROVE TInv'
<1> USE DEF TInv, NoOtherChange, history
<1>1. CASE StartSaveCommand
  <2>1. /\ Server \in Threads /\ up /\ UNCHANGED <<memory, up, now, backups, lock, disk, saved, exposed, half>>
        /\ pc[Server] = "idle" /\ pc' = [pc EXCEPT ![Server] = "backup"]
        /\ UNCHANGED <<out, flushed, todo>>
    BY <1>1, TwoThreads DEF StartSaveCommand, At, Goto
  <2>2. pc' \in [Threads -> Label] /\ \A u \in Threads \ {Server} : pc'[u] = pc[u]
    BY <2>1 DEF DataTypes, Label
  <2>3. Fresh(Server)' /\ Snapshot(Server)' /\ Locked'
    BY <2>1, TwoThreads DEF DataTypes, Fresh, Snapshot, Locked
  <2>4. flushed'[Server] <= Len(out'[Server]) + 1
    BY <2>1, FlushedBound
  <2> QED BY <2>1, <2>2, <2>3, <2>4, SaveFrame DEF DataTypes, TypeOK
<1>2. CASE StartAutoSave
  <2>1. /\ Saver \in Threads /\ up /\ UNCHANGED <<memory, up, now, backups, disk, saved, exposed, half>>
        /\ pc[Saver] = "idle" /\ pc' = [pc EXCEPT ![Saver] = "backup"] /\ lock' = Saver
        /\ UNCHANGED <<out, flushed, todo>>
    BY <1>2, TwoThreads DEF StartAutoSave, At, Goto
  <2>2. pc' \in [Threads -> Label] /\ \A u \in Threads \ {Saver} : pc'[u] = pc[u]
    BY <2>1 DEF DataTypes, Label
  <2>3. Fresh(Saver)' /\ Snapshot(Saver)' /\ Locked'
    BY <2>1 DEF DataTypes, Fresh, Snapshot, Locked
  <2>4. flushed'[Saver] <= Len(out'[Saver]) + 1
    BY <2>1, FlushedBound
  <2> QED BY <2>1, <2>2, <2>3, <2>4, SaveFrame DEF DataTypes, TypeOK
<1> QED BY <1>1, <1>2

LEMMA BackupStep ==
    ASSUME TInv, NEW t \in Threads, rdb_create_backup(t)
    PROVE  /\ up /\ UNCHANGED <<memory, up, now, lock, disk, out, flushed, todo, saved, half>>
           /\ pc[t] = "backup" /\ pc' = [pc EXCEPT ![t] = "open"]
           /\ backups' \in [Times -> FileType] /\ exposed' \in BOOLEAN
           /\ \A s \in Times : backups'[s] # backups[s] =>
                 backups'[s] = disk \/ backups'[s] \in PartsOf(disk)
           /\ ~exposed' /\ rdb_backup /\ disk.exists =>
                 /\ ~exposed /\ backups'[now] = disk /\ ~backups[now].exists
                 /\ \A s \in Times \ {now} : backups'[s] = backups[s]
           /\ ~(rdb_backup /\ disk.exists) => UNCHANGED <<backups, exposed>>
<1>1. /\ up /\ UNCHANGED <<memory, up, now, lock, disk, out, flushed, todo, saved, half>>
      /\ pc[t] = "backup" /\ pc' = [pc EXCEPT ![t] = "open"]
  BY DEF rdb_create_backup, At, Goto
<1>2. /\ now \in Times /\ backups \in [Times -> FileType] /\ disk \in FileType
      /\ exposed \in BOOLEAN /\ \A s \in Times : backups[s].exists \in BOOLEAN
  BY DEF TInv, DataTypes, TypeOK, FileType
<1>3. CASE (~rdb_backup \/ ~disk.exists) /\ UNCHANGED <<backups, exposed>>
  BY <1>1, <1>2, <1>3
<1>4. CASE /\ rdb_backup /\ disk.exists /\ backups' = [backups EXCEPT ![now] = disk]
           /\ exposed' = (exposed \/ backups[now].exists)
  <2>1. backups' \in [Times -> FileType] /\ exposed' \in BOOLEAN
    BY <1>2, <1>4
  <2> QED BY <1>1, <1>2, <1>4, <2>1
<1>5. CASE rdb_backup /\ disk.exists /\ UNCHANGED backups /\ exposed' = TRUE
  BY <1>1, <1>2, <1>5
<1>6. ASSUME rdb_backup, disk.exists, exposed' = TRUE,
             NEW f \in PartsOf(disk), backups' = [backups EXCEPT ![now] = f]
      PROVE  /\ backups' \in [Times -> FileType]
             /\ \A s \in Times : backups'[s] # backups[s] => backups'[s] \in PartsOf(disk)
  <2>1. f \in FileType
    BY <1>2, PartType
  <2> QED BY <1>2, <1>6, <2>1
<1> QED BY <1>1, <1>3, <1>4, <1>5, <1>6 DEF rdb_create_backup

LEMMA BackupKeepsT == ASSUME TInv, NEW t \in Threads, rdb_create_backup(t) PROVE TInv'
<1> USE DEF TInv
<1>1. /\ up /\ UNCHANGED <<memory, up, now, lock, disk, out, flushed, todo, saved, half>>
      /\ pc[t] = "backup" /\ pc' = [pc EXCEPT ![t] = "open"]
      /\ backups' \in [Times -> FileType] /\ exposed' \in BOOLEAN
  BY BackupStep
<1>2. pc' \in [Threads -> Label] /\ \A u \in Threads \ {t} : pc'[u] = pc[u]
  BY <1>1 DEF DataTypes, Label
<1>4. Fresh(t)' /\ Snapshot(t)' /\ Locked'
  BY <1>1, TwoThreads DEF DataTypes, Fresh, Snapshot, Locked
<1> QED BY <1>1, <1>2, <1>4, SaveFrame, FlushedBound DEF DataTypes, TypeOK

LEMMA OpenKeepsT == ASSUME TInv, NEW t \in Threads, Open(t) PROVE TInv'
<1> USE DEF TInv
<1>1. /\ up /\ UNCHANGED <<memory, up, now, backups, lock, out, flushed, todo, saved, exposed>>
      /\ pc[t] = "open" /\ pc' = [pc EXCEPT ![t] = "array"] /\ disk' \in FileType
      /\ half' \in BOOLEAN
  BY SpecialFiles DEF Open, At, Goto, NoOtherChange, history
<1>2. pc' \in [Threads -> Label] /\ \A u \in Threads \ {t} : pc'[u] = pc[u]
  BY <1>1 DEF DataTypes, Label
<1>3. Fresh(t)' /\ Snapshot(t)' /\ Locked'
  BY <1>1, TwoThreads DEF DataTypes, Fresh, Snapshot, Locked
<1> QED BY <1>1, <1>2, <1>3, SaveFrame, FlushedBound DEF DataTypes, TypeOK

\* The three steps that write records.
LEMMA WriteFrame ==
    ASSUME TInv, NEW t \in Threads, up, NEW o \in Seq(Record), NEW l \in {"tree", "hash"},
           UNCHANGED <<memory, up, now, backups, lock, disk, flushed, saved, exposed, half>>,
           pc[t] \in {"array", "tree", "hash"}, pc' = [pc EXCEPT ![t] = l],
           out' = [out EXCEPT ![t] = o], todo' \in [Threads -> SUBSET HashKeys],
           Len(out[t]) <= Len(o), ArrayPart(o) = ArrayNow
    PROVE  TInv'
<1> USE DEF TInv
<1>1. pc' \in [Threads -> Label] /\ \A u \in Threads \ {t} : pc'[u] = pc[u] /\ out'[u] = out[u]
  BY DEF DataTypes, Label
<1>2. pc'[t] = l /\ out'[t] = o /\ out' \in [Threads -> Seq(Record)]
  BY DEF DataTypes
<1>3. Fresh(t)' /\ Snapshot(t)' /\ Locked'
  BY <1>2, <1>1, TwoThreads DEF Fresh, Snapshot, Locked, memory, ArrayNow
<1>4. flushed'[t] <= Len(out'[t]) + 1
  <2>1. Len(out[t]) \in Nat /\ Len(o) \in Nat /\ flushed[t] \in Nat
    BY DEF DataTypes
  <2> QED BY <1>2, <2>1, FlushedBound
<1> QED BY <1>1, <1>2, <1>3, <1>4, SaveFrame DEF DataTypes, TypeOK

LEMMA WriteArrayKeepsT ==
    ASSUME TInv, NEW t \in Threads, WriteArray(t)
    PROVE  TInv' /\ out[t] = <<>> /\ out'[t] \in Seq(Record)
<1> USE DEF TInv
<1>1. /\ up /\ UNCHANGED <<memory, up, now, backups, lock, disk, flushed, todo, saved, exposed, half>>
      /\ pc[t] = "array" /\ pc' = [pc EXCEPT ![t] = "tree"]
  BY DEF WriteArray, At, Goto, NoOtherChange, history
<1>2. out[t] = <<>> /\ out \in [Threads -> Seq(Record)]
  BY <1>1 DEF Fresh, DataTypes
<1>3. PICK s \in SlotOrders(arr) :
         out' = [out EXCEPT ![t] = @ \o [i \in DOMAIN s |->
                   [type |-> 0, key |-> s[i], value |-> arr[s[i]]]]]
  BY DEF WriteArray, Write
<1> DEFINE recs == [i \in DOMAIN s |-> [type |-> 0, key |-> s[i], value |-> arr[s[i]]]]
<1>4. <<>> \o recs = recs /\ recs \in Seq(Record) /\ ArrayPart(recs) = ArrayNow
  BY ArrayRecords
<1>5. out' = [out EXCEPT ![t] = out[t] \o recs]
  BY <1>3
<1> HIDE DEF recs
<1>6. out' = [out EXCEPT ![t] = recs] /\ out'[t] = recs
  BY <1>2, <1>4, <1>5
<1>7. Len(out[t]) <= Len(recs)
  BY <1>2, <1>4
<1> QED BY <1>1, <1>2, <1>4, <1>6, <1>7, WriteFrame DEF DataTypes

LEMMA WriteTreeKeepsT ==
    ASSUME TInv, NEW t \in Threads, WriteTree(t)
    PROVE  /\ TInv' /\ out'[t] \in Seq(Record) /\ Len(out[t]) <= Len(out'[t])
           /\ \A i \in 1..Len(out[t]) : out'[t][i] = out[t][i]
<1> USE DEF TInv
<1> DEFINE r == IF root = NULL THEN <<>>
                ELSE <<[type |-> 1, key |-> root, value |-> tree[root]]>>
<1>1. /\ up /\ UNCHANGED <<memory, up, now, backups, lock, disk, flushed, saved, exposed, half>>
      /\ pc[t] = "tree" /\ pc' = [pc EXCEPT ![t] = "hash"]
      /\ todo' = [todo EXCEPT ![t] = HashKeys] /\ out' = [out EXCEPT ![t] = out[t] \o r]
  BY DEF WriteTree, At, Goto, NoOtherChange, history, Write
<1>2. /\ out[t] \in Seq(Record) /\ out \in [Threads -> Seq(Record)]
      /\ ArrayPart(out[t]) = ArrayNow /\ todo' \in [Threads -> SUBSET HashKeys]
  BY <1>1 DEF Snapshot, DataTypes
<1>3. r \in Seq(Record) /\ \A i \in DOMAIN r : r[i].type # 0
  <2>1. CASE root = NULL
    BY <2>1
  <2>2. CASE root # NULL
    <3>1. root \in TreeKeys /\ tree[root] \in Values
      BY <2>2 DEF TypeOK, Stored, Map
    <3>2. [type |-> 1, key |-> root, value |-> tree[root]] \in Record
      BY <3>1 DEF Record
    <3> QED BY <2>2, <3>2
  <2> QED BY <2>1, <2>2
<1> HIDE DEF r
<1>4. /\ out[t] \o r \in Seq(Record) /\ Len(out[t]) <= Len(out[t] \o r)
      /\ \A i \in 1..Len(out[t]) : (out[t] \o r)[i] = out[t][i]
      /\ ArrayPart(out[t] \o r) = ArrayPart(out[t])
  BY <1>2, <1>3, OtherRecord
<1>5. out'[t] = out[t] \o r
  BY <1>1, <1>2
<1> QED BY <1>1, <1>2, <1>4, <1>5, WriteFrame

LEMMA WriteBucketKeepsT ==
    ASSUME TInv, NEW t \in Threads, WriteBucket(t)
    PROVE  /\ TInv' /\ out'[t] \in Seq(Record) /\ Len(out[t]) <= Len(out'[t])
           /\ \A i \in 1..Len(out[t]) : out'[t][i] = out[t][i]
           /\ \A u \in Threads \ {t} : out'[u] = out[u]
<1> USE DEF TInv
<1>1. PICK k \in todo[t] :
         /\ out' = [out EXCEPT ![t] = @ \o (IF hash[k] = NULL THEN <<>>
                      ELSE <<[type |-> 2, key |-> k, value |-> hash[k]]>>)]
         /\ todo' = [todo EXCEPT ![t] = @ \ {k}]
  BY DEF WriteBucket, Write
<1> DEFINE r == IF hash[k] = NULL THEN <<>>
                ELSE <<[type |-> 2, key |-> k, value |-> hash[k]]>>
<1>2. /\ up /\ UNCHANGED <<memory, up, now, backups, lock, disk, flushed, saved, exposed, half, pc>>
      /\ pc[t] = "hash" /\ out' = [out EXCEPT ![t] = out[t] \o r]
  BY <1>1 DEF WriteBucket, At, NoOtherChange, history
<1>3. /\ out[t] \in Seq(Record) /\ out \in [Threads -> Seq(Record)] /\ k \in HashKeys
      /\ ArrayPart(out[t]) = ArrayNow /\ todo' \in [Threads -> SUBSET HashKeys]
      /\ pc' = [pc EXCEPT ![t] = "hash"]
  BY <1>1, <1>2 DEF Snapshot, DataTypes
<1>4. r \in Seq(Record) /\ \A i \in DOMAIN r : r[i].type # 0
  <2>1. CASE hash[k] = NULL
    BY <2>1
  <2>2. CASE hash[k] # NULL
    <3>1. hash[k] \in Values
      BY <1>3, <2>2 DEF TypeOK, Map
    <3>2. [type |-> 2, key |-> k, value |-> hash[k]] \in Record
      BY <1>3, <3>1 DEF Record
    <3> QED BY <2>2, <3>2
  <2> QED BY <2>1, <2>2
<1> HIDE DEF r
<1>5. /\ out[t] \o r \in Seq(Record) /\ Len(out[t]) <= Len(out[t] \o r)
      /\ \A i \in 1..Len(out[t]) : (out[t] \o r)[i] = out[t][i]
      /\ ArrayPart(out[t] \o r) = ArrayPart(out[t])
  BY <1>3, <1>4, OtherRecord
<1>6. out'[t] = out[t] \o r /\ \A u \in Threads \ {t} : out'[u] = out[u]
  BY <1>2, <1>3
<1> QED BY <1>2, <1>3, <1>5, <1>6, WriteFrame

\* The steps that write to the file and not to the stream.
LEMMA FlushFrame ==
    ASSUME TInv, NEW t \in Threads, up, NEW l \in {"tree", "hash", "failed", "close"},
           UNCHANGED <<memory, up, now, backups, lock, out, todo, saved, exposed, half>>,
           pc[t] \in {"tree", "hash"}, pc' = [pc EXCEPT ![t] = l],
           flushed' = [flushed EXCEPT ![t] = Len(out[t]) + 1], disk' \in FileType
    PROVE  TInv'
<1> USE DEF TInv
<1>1. /\ pc' \in [Threads -> Label]
      /\ \A u \in Threads \ {t} : pc'[u] = pc[u] /\ flushed'[u] = flushed[u]
  BY DEF DataTypes, Label
<1>2. out[t] \in Seq(Record) /\ Len(out[t]) + 1 \in Nat
  BY DEF DataTypes
<1>3. pc'[t] = l /\ flushed'[t] = Len(out[t]) + 1 /\ flushed' \in [Threads -> Nat]
  BY <1>2 DEF DataTypes
<1>4. Fresh(t)' /\ Snapshot(t)' /\ Locked'
  BY <1>1, <1>3, TwoThreads DEF Fresh, Snapshot, Locked, memory, ArrayNow
<1>5. flushed'[t] <= Len(out'[t]) + 1
  BY <1>2, <1>3
<1> QED BY <1>1, <1>3, <1>4, <1>5, SaveFrame DEF DataTypes, TypeOK

LEMMA BufferFullKeepsT == ASSUME TInv, NEW t \in Threads, BufferFull(t) PROVE TInv'
<1>1. /\ up /\ UNCHANGED <<memory, up, now, backups, lock, pc, out, todo, saved, exposed, half>>
      /\ pc[t] \in {"tree", "hash"} /\ disk' = Flush(disk, flushed[t], out[t])
      /\ flushed' = [flushed EXCEPT ![t] = Len(out[t]) + 1]
  BY DEF BufferFull, FlushOut, NoOtherChange, history
<1>2. pc' = [pc EXCEPT ![t] = pc[t]]
  BY <1>1 DEF TInv, DataTypes
<1>3. disk' \in FileType
  BY <1>1, FlushType DEF TInv, DataTypes
<1> QED BY <1>1, <1>2, <1>3, FlushFrame

\* The end of the data: what becomes of the file and of the save.
LEMMA EndOfDataStep ==
    ASSUME TInv, NEW t \in Threads, EndOfData(t)
    PROVE  /\ up /\ UNCHANGED <<memory, up, now, backups, lock, out, todo, saved, exposed, half>>
           /\ pc[t] = "hash" /\ flushed' = [flushed EXCEPT ![t] = Len(out[t]) + 1]
           /\ \E l \in {"failed", "close"} : pc' = [pc EXCEPT ![t] = l]
           /\ pc'[t] = "failed" => rdb_crc64
           /\ pc'[t] = "close" /\ rdb_crc64 => out[t] = <<>>
           /\ \/ disk' = Flush(disk, flushed[t], out[t])
              \/ disk' = [Flush(disk, flushed[t], out[t]) EXCEPT !.footer = {<<>>}]
<1>1. /\ up /\ UNCHANGED <<memory, up, now, backups, lock, out, todo, saved, exposed, half>> /\ pc[t] = "hash"
      /\ pc \in [Threads -> Label]
  BY DEF EndOfData, At, NoOtherChange, history, TInv, DataTypes
<1>2. CASE rdb_crc64
  <2>1. /\ flushed' = [flushed EXCEPT ![t] = Len(out[t]) + 1]
        /\ pc' = [pc EXCEPT ![t] = IF out[t] = <<>> THEN "close" ELSE "failed"]
    BY <1>2 DEF EndOfData, Goto
  <2>2. CASE out[t] = <<>>
    BY <1>1, <1>2, <2>1, <2>2 DEF EndOfData
  <2>3. CASE out[t] # <<>>
    BY <1>1, <1>2, <2>1, <2>3 DEF EndOfData
  <2> QED BY <2>2, <2>3
<1>3. CASE ~rdb_crc64
  BY <1>1, <1>3 DEF EndOfData, FlushOut, Goto
<1> QED BY <1>2, <1>3

LEMMA EndOfDataKeepsT == ASSUME TInv, NEW t \in Threads, EndOfData(t) PROVE TInv'
<1>1. Flush(disk, flushed[t], out[t]) \in FileType
  BY FlushType DEF TInv, DataTypes
<1>2. disk' \in FileType
  <2>1. [Flush(disk, flushed[t], out[t]) EXCEPT !.footer = {<<>>}] \in FileType
    BY <1>1 DEF FileType
  <2> QED BY <1>1, <2>1, EndOfDataStep
<1>3. PICK l \in {"failed", "close"} : pc' = [pc EXCEPT ![t] = l]
  BY EndOfDataStep
<1> QED BY <1>2, <1>3, EndOfDataStep, FlushFrame

\* The end of a save, complete or not.
LEMMA EndFrame ==
    ASSUME TInv, NEW t \in Threads, up, UNCHANGED <<memory, up, now, backups, todo>>,
           pc[t] # "idle", pc' = [pc EXCEPT ![t] = "idle"], Unlock(t),
           EndStream(t), disk' \in FileType, saved' \subseteq Record,
           exposed' \in BOOLEAN, half' \in BOOLEAN
    PROVE  TInv'
<1> USE DEF TInv
<1>1. /\ pc' \in [Threads -> Label] /\ out' \in [Threads -> Seq(Record)]
      /\ flushed' \in [Threads -> Nat] /\ pc'[t] = "idle" /\ out'[t] = <<>> /\ flushed'[t] = 0
      /\ \A u \in Threads \ {t} : pc'[u] = pc[u] /\ out'[u] = out[u] /\ flushed'[u] = flushed[u]
  BY DEF DataTypes, Label, EndStream
<1>2. Fresh(t)' /\ Snapshot(t)' /\ flushed'[t] <= Len(out'[t]) + 1
  BY <1>1 DEF Fresh, Snapshot
<1>3. lock' \in Threads \cup {NULL} /\ Locked'
  BY <1>1, TwoThreads DEF Unlock, Locked, TypeOK
<1> QED BY <1>1, <1>2, <1>3, SaveFrame DEF DataTypes

LEMMA FailKeepsT ==
    ASSUME TInv, NEW t \in Threads, Fail(t) \/ OpenFails(t) PROVE TInv'
<1>1. /\ up /\ UNCHANGED <<memory, up, now, backups, todo, disk, saved, exposed, half>>
      /\ pc[t] # "idle" /\ pc' = [pc EXCEPT ![t] = "idle"] /\ Unlock(t) /\ EndStream(t)
  BY DEF Fail, OpenFails, At, Goto, NoOtherChange, history
<1> QED BY <1>1, EndFrame DEF TInv, DataTypes, TypeOK

LEMMA CloseKeepsT ==
    ASSUME TInv, NEW t \in Threads, Close(t)
    PROVE  TInv' /\ ArrayPart(out[t]) = ArrayNow
<1>1. /\ up /\ UNCHANGED <<memory, up, now, backups, todo, half>> /\ pc[t] = "close"
      /\ pc' = [pc EXCEPT ![t] = "idle"] /\ Unlock(t) /\ EndStream(t) /\ exposed' = FALSE
      /\ disk' = [disk EXCEPT !.hdr = Len(out[t])]
      /\ saved' = {out[t][i] : i \in DOMAIN out[t]}
  BY DEF Close, At, Goto, NoOtherChange, history
<1>2. out[t] \in Seq(Record) /\ disk \in FileType
  BY DEF TInv, DataTypes
<1>3. Len(out[t]) \in Nat /\ \A i \in DOMAIN out[t] : out[t][i] \in Record
  BY <1>2
<1>4. disk' \in FileType
  BY <1>1, <1>2, <1>3 DEF FileType
<1>5. saved' \subseteq Record
  BY <1>1, <1>3
<1>6. ArrayPart(out[t]) = ArrayNow
  BY <1>1 DEF TInv, Snapshot
<1>7. exposed' \in BOOLEAN /\ half' \in BOOLEAN
  BY <1>1 DEF TInv, TypeOK
<1> QED BY <1>1, <1>4, <1>5, <1>6, <1>7, EndFrame

LEMMA CrashKeepsT == ASSUME TInv, Crash PROVE TInv'
<1> USE DEF TInv, Crash, history
<1>1. DataTypes' /\ File(disk)' /\ \A s \in Times : File(backups'[s])
  BY FileTypeIsFile DEF DataTypes, Label
<1>2. TypeOK'
  <2>1. /\ arr' \in Map(ArrayKeys) /\ tree' \in Map(TreeKeys) /\ hash' \in Map(HashKeys)
        /\ root' \in Stored(tree') \cup {NULL}
    BY DEF Map, Nothing
  <2>2. \A t \in Threads : /\ pc'[t] = "idle" /\ out'[t] = <<>> /\ flushed'[t] = 0
                           /\ todo'[t] = {}
    OBVIOUS
  <2>3. /\ lock' = NULL /\ up' = FALSE /\ now' \in Times /\ saved' \subseteq Record
        /\ exposed' \in BOOLEAN /\ half' \in BOOLEAN
    BY DEF TypeOK
  <2>4. \A t \in Threads : /\ pc'[t] \in Label /\ \A i \in DOMAIN out'[t] : out'[t][i] \in Record
                           /\ flushed'[t] \in 0..(Len(out'[t]) + 1) /\ todo'[t] \subseteq HashKeys
    BY <2>2 DEF Label
  <2> HIDE DEF Crash, TInv
  <2> QED BY <1>1, <2>1, <2>3, <2>4 DEF TypeOK, Label
<1>3. Down' /\ Locked' /\ \A t \in Threads : Fresh(t)' /\ Snapshot(t)'
  BY TwoThreads DEF Down, Locked, Fresh, Snapshot
<1> QED BY <1>1, <1>2, <1>3

LEMMA RestoreKeepsT == ASSUME TInv, rdb_restore_from_backup PROVE TInv'
<1> USE DEF TInv
<1>1. /\ UNCHANGED <<memory, lock, up, backups, now, thread>>
      /\ \E s \in Times :
            /\ \/ disk' = backups[s]
               \/ disk' \in PartsOf(backups[s])
            /\ saved' = LoadedFrom(backups[s])
      /\ exposed' = FALSE /\ half' \in BOOLEAN
  BY DEF rdb_restore_from_backup
<1>2. disk' \in FileType /\ saved' \subseteq Record
  BY <1>1, LoadedRecords, PartType DEF DataTypes
<1>3. DataTypes'
  BY <1>1, <1>2 DEF DataTypes, thread
<1>4. TypeOK'
  <2>1. File(disk)' /\ UNCHANGED <<arr, tree, hash, root, lock, up, backups, now, pc, out, flushed, todo>>
    BY <1>1, <1>2, FileTypeIsFile DEF memory, thread
  <2>2. TypeOK
    OBVIOUS
  <2> QED BY <2>1, <2>2, <1>1, <1>2 DEF TypeOK
<1>5. Down' /\ Locked' /\ \A t \in Threads : Fresh(t)' /\ Snapshot(t)'
  BY <1>1 DEF Down, Locked, Fresh, Snapshot, memory, thread, ArrayNow
<1> QED BY <1>3, <1>4, <1>5

LEMMA RestartKeepsT == ASSUME TInv, Restart PROVE TInv'
<1> USE DEF TInv
<1>1. /\ ~up /\ up' = TRUE
      /\ UNCHANGED <<lock, disk, backups, now, thread, saved, exposed, half>>
      /\ root' \in IF Stored(tree') = {} THEN {NULL} ELSE Stored(tree')
  BY DEF Restart, history
<1>2. arr' \in Map(ArrayKeys) /\ tree' \in Map(TreeKeys) /\ hash' \in Map(HashKeys)
  BY EngineType DEF Restart, DataTypes
<1>4. DataTypes' /\ TypeOK'
  BY <1>1, <1>2 DEF DataTypes, TypeOK, thread
<1>5. Down' /\ Locked' /\ \A t \in Threads : Fresh(t)' /\ Snapshot(t)'
  BY <1>1 DEF Down, Locked, Fresh, Snapshot, thread
<1> QED BY <1>4, <1>5

LEMMA InductionT == TInv /\ [Next]_vars => TInv'
<1> SUFFICES ASSUME TInv, [Next]_vars PROVE TInv'
  OBVIOUS
<1>1. CASE UNCHANGED vars
  <2>1. TypeOK'
    BY <1>1 DEF vars, memory, thread, history, TInv, TypeOK
  <2> QED BY <1>1, <2>1, CommandFrame DEF vars, memory
<1>2. CASE Next
  BY <1>2, CommandKeepsT, StartKeepsT, BackupKeepsT, OpenKeepsT, WriteArrayKeepsT,
     WriteTreeKeepsT, WriteBucketKeepsT, EndOfDataKeepsT, FailKeepsT, CloseKeepsT,
     BufferFullKeepsT, CrashKeepsT, RestoreKeepsT, RestartKeepsT DEF Next, SaveStep
<1> QED BY <1>1, <1>2

LEMMA AlwaysT == Spec => []TInv
  BY InitT, InductionT, PTL DEF Spec

\* Types: no stream stands past what its save has written, files hold records
\* and gaps, and what counts as saved are records, whoever saves and whenever the
\* process dies (kvs_rdb_save, kvs_rdb_load).
THEOREM TypeCorrect == Spec => []TypeOK
<1>1. TInv => TypeOK
  BY DEF TInv
<1> QED BY <1>1, AlwaysT, PTL

\* A save that returns has stored the array as it is at that moment, also when
\* SAVE and the autosave run at the same time: commands wait for the lock of
\* the one and for the other to return (kv_RDB.c:299-326).
THEOREM ArrayIsSnapshot == Spec => ArraySnapshot
<1> DEFINE A == \A t \in Threads : Close(t) =>
                   {r \in saved' : r.type = 0}
                     = {[type |-> 0, key |-> k, value |-> arr[k]] : k \in Stored(arr)}
<1>1. TInv => A
  <2> SUFFICES ASSUME TInv, NEW t \in Threads, Close(t)
               PROVE  {r \in saved' : r.type = 0}
                        = {[type |-> 0, key |-> k, value |-> arr[k]] : k \in Stored(arr)}
    OBVIOUS
  <2>1. ArrayPart(out[t]) = ArrayNow
    BY CloseKeepsT
  <2>2. saved' = {out[t][i] : i \in DOMAIN out[t]}
    BY DEF Close
  <2> QED BY <2>1, <2>2 DEF ArrayPart, ArrayNow
<1>2. TInv => [A]_vars
  BY <1>1
<1> QED BY <1>2, AlwaysT, PTL DEF ArraySnapshot

-----------------------------------------------------------------------------
\* The second invariant, for one saver.

Single == OneSaver /\ KeysNotEmpty

LEMMA RecordKeys ==
    ASSUME KeysNotEmpty, NEW r \in Record PROVE r.key # EmptyKey
  BY DEF KeysNotEmpty, Record

\* A complete file loads as what was written to it.
LEMMA CompleteFile ==
    ASSUME KeysNotEmpty, NEW f \in FileType, NEW recs \in Seq(Record), f.exists,
           f.hdr = Len(recs), Len(f.cells) = Len(recs),
           \A i \in 1..Len(recs) : f.cells[i] = recs[i]
    PROVE  /\ LoadedFrom(f) \in {{}, {recs[i] : i \in DOMAIN recs}}
           /\ ~rdb_crc64 => LoadedFrom(f) = {recs[i] : i \in DOMAIN recs}
<1>1. Len(recs) \in Nat /\ DOMAIN recs = 1..Len(recs) /\ DataEnd(f) = Len(recs)
  BY DEF DataEnd
<1>2. \A i \in 1..Len(recs) : recs[i] \in Record
  OBVIOUS
<1>3. \A i \in 1..Len(recs) : f.cells[i].key # EmptyKey
  BY <1>2, RecordKeys
<1>4. Readable(f) = 1..Len(recs)
  BY <1>1, <1>3 DEF Readable
<1>5. {f.cells[i] : i \in Readable(f)} = {recs[i] : i \in DOMAIN recs}
  BY <1>1, <1>4
<1>6. ~rdb_crc64 => Verified(f)
  BY <1>1 DEF Verified, NoHeader, ZeroHeader
<1> QED BY <1>5, <1>6 DEF LoadedFrom

\* What a save in progress leaves on disk loads as nothing.
LEMMA PartialLoadsNothing ==
    ASSUME NEW f \in FileType, NEW n, NEW recs, Partial(f, n, recs)
    PROVE  f.hdr <= 0 /\ LoadedFrom(f) = {}
<1>1. f.hdr <= 0
  BY DEF Partial, NoHeader
<1> QED BY <1>1, NothingLoaded

LEMMA InitS == Init => SInv
<1> SUFFICES ASSUME Init PROVE SInv
  OBVIOUS
<1>1. OneAtATime /\ \A t \in Threads : InProgress(t)
  BY TwoThreads DEF Init, OneAtATime, Saving, InProgress
<1>2. disk.hdr <= 0 /\ (\A s \in Times : backups[s].hdr <= 0) /\ saved = {}
  BY SpecialFiles DEF Init, NoHeader
<1>3. AllOrNothing
  BY NothingLoaded, SpecialFiles, <1>2 DEF Init, AllOrNothing
<1>4. CrcSavesNothing
  BY <1>2 DEF Init, CrcSavesNothing
<1>5. Recoverable
  BY <1>2 DEF Recoverable
<1> QED BY <1>1, <1>3, <1>4, <1>5 DEF SInv

LEMMA OthersIdle ==
    ASSUME OneSaver, SInv, NEW t \in Threads, pc[t] # "idle"
    PROVE  \A u \in Threads \ {t} : pc[u] = "idle"
  BY TwoThreads DEF OneSaver, SInv, OneAtATime, Saving

\* The steps of the one save.
LEMMA StepFrameS ==
    ASSUME Single, SInv, NEW t \in Threads, pc[t] # "idle",
           \A u \in Threads \ {t} : pc'[u] = pc[u],
           InProgress(t)', AllOrNothing', CrcSavesNothing', Recoverable'
    PROVE  SInv'
<1>1. \A u \in Threads \ {t} : pc'[u] = "idle"
  BY OthersIdle DEF Single
<1>2. OneAtATime'
  BY <1>1, TwoThreads DEF SInv, OneAtATime, Saving
<1>3. \A u \in Threads : InProgress(u)'
  BY <1>1 DEF InProgress
<1> QED BY <1>2, <1>3 DEF SInv

\* A good backup stays good while the save goes on.
LEMMA BackupStays ==
    ASSUME NEW s \in Times, GoodBackup(s), UNCHANGED <<backups, saved>>
    PROVE  GoodBackup(s)'
  BY DEF GoodBackup

\* In the middle of a save the backup holds the last one.
LEMMA MidSave ==
    ASSUME Single, TInv, SInv, NEW t \in Threads,
           UNCHANGED <<backups, saved, exposed>>,
           pc[t] \in {"open", "array", "tree", "hash"},
           \A u \in Threads \ {t} : pc'[u] = pc[u],
           pc'[t] \in {"array", "tree", "hash", "failed", "close"},
           pc'[t] = "failed" => rdb_crc64,
           pc'[t] = "close" => (rdb_crc64 => out'[t] = <<>>) /\ flushed'[t] = Len(out'[t]) + 1,
           disk' \in FileType, Partial(disk', flushed'[t], out'[t])
    PROVE  SInv'
<1>1. \A u \in Threads \ {t} : pc[u] = "idle" /\ pc'[u] = "idle"
  BY OthersIdle DEF Single
<1>2. disk'.hdr <= 0 /\ LoadedFrom(disk') = {}
  BY PartialLoadsNothing
<1>3. InProgress(t)'
  BY DEF InProgress
<1>4. AllOrNothing'
  BY <1>2 DEF AllOrNothing
<1>5. CrcSavesNothing'
  <2>1. rdb_crc64 \in BOOLEAN
    BY SwitchAssumption
  <2> QED BY <1>1, <1>2, <2>1 DEF SInv, CrcSavesNothing
<1>6. Recoverable'
  <2> SUFFICES ASSUME rdb_backup, saved' # {}, ~exposed'
               PROVE  \E s \in Times : GoodBackup(s)'
    BY DEF Recoverable
  <2>1. Recoverable /\ saved # {} /\ ~exposed
    BY DEF SInv
  <2>3. \E s \in Times : GoodBackup(s)
    <3>1. CASE pc[t] = "open"
      BY <2>1, <3>1 DEF Recoverable
    <3>2. CASE pc[t] # "open"
      <4>1. LoadedFrom(disk) = {}
        BY <3>2, PartialLoadsNothing DEF SInv, InProgress, TInv, DataTypes
      <4> QED BY <2>1, <4>1 DEF Recoverable
    <3> QED BY <3>1, <3>2
  <2> QED BY <2>3, BackupStays
<1> QED BY <1>3, <1>4, <1>5, <1>6, StepFrameS

LEMMA CommandKeepsS ==
    ASSUME TInv, SInv, UNCHANGED <<disk, backups, thread, saved, exposed, half>>
    PROVE  SInv'
<1> USE DEF SInv, thread
<1>1. OneAtATime' /\ AllOrNothing' /\ CrcSavesNothing' /\ \A t \in Threads : InProgress(t)'
  BY DEF OneAtATime, Saving, AllOrNothing, CrcSavesNothing, InProgress
<1>2. \A s \in Times : GoodBackup(s) => GoodBackup(s)'
  BY DEF GoodBackup
<1>3. Recoverable => Recoverable'
  BY <1>2 DEF Recoverable
<1> QED BY <1>1, <1>3

LEMMA StartKeepsS ==
    ASSUME Single, TInv, SInv, NEW t \in Threads, pc[t] = "idle", up,
           t = Server => SaveCommand, t = Saver => AutoSave,
           pc' = [pc EXCEPT ![t] = "backup"],
           UNCHANGED <<up, disk, backups, now, out, flushed, todo, saved, exposed, half>>
    PROVE  SInv'
<1> USE DEF SInv
<1>1. pc'[t] = "backup" /\ \A u \in Threads \ {t} : pc'[u] = pc[u]
  BY DEF TInv, DataTypes
<1>2. OneAtATime'
  BY <1>1, TwoThreads DEF OneAtATime, Saving
<1>3. \A u \in Threads \ {t} : pc[u] = "idle"
  BY <1>1, <1>2, TwoThreads DEF Single, OneSaver, OneAtATime, Saving
<1>4. AllOrNothing' /\ \A u \in Threads : InProgress(u)'
  BY <1>1, <1>3 DEF AllOrNothing, InProgress
<1>5. CrcSavesNothing'
  BY <1>1, <1>3 DEF CrcSavesNothing
<1>6. \A s \in Times : GoodBackup(s) => GoodBackup(s)'
  BY DEF GoodBackup
<1>7. Recoverable => Recoverable'
  BY <1>1, <1>3, <1>6 DEF Recoverable
<1> QED BY <1>2, <1>4, <1>5, <1>7

LEMMA BackupKeepsS ==
    ASSUME Single, TInv, SInv, NEW t \in Threads, rdb_create_backup(t) PROVE SInv'
<1>1. /\ up /\ UNCHANGED <<memory, up, now, lock, disk, out, flushed, todo, saved, half>>
      /\ pc[t] = "backup" /\ pc' = [pc EXCEPT ![t] = "open"]
      /\ \A s \in Times : backups'[s] # backups[s] =>
            backups'[s] = disk \/ backups'[s] \in PartsOf(disk)
      /\ ~exposed' /\ rdb_backup /\ disk.exists =>
            /\ ~exposed /\ backups'[now] = disk /\ ~backups[now].exists
            /\ \A s \in Times \ {now} : backups'[s] = backups[s]
      /\ ~(rdb_backup /\ disk.exists) => UNCHANGED <<backups, exposed>>
  BY BackupStep
<1>2. /\ pc'[t] = "open" /\ \A u \in Threads \ {t} : pc'[u] = pc[u] /\ pc[u] = "idle"
      /\ now \in Times /\ disk \in FileType
  BY <1>1, OthersIdle DEF Single, TInv, DataTypes, TypeOK
<1>4. InProgress(t)' /\ AllOrNothing'
  BY <1>1, <1>2 DEF InProgress, AllOrNothing, SInv
<1>5. CrcSavesNothing'
  <2>1. rdb_crc64 => disk.hdr <= 0 /\ \A f \in PartsOf(disk) : f.hdr <= 0
    BY <1>2, PartType DEF SInv, CrcSavesNothing
  <2>2. rdb_crc64 => \A s \in Times : backups'[s].hdr <= 0
    BY <1>1, <2>1 DEF SInv, CrcSavesNothing
  <2> QED BY <1>1, <1>2, <2>2 DEF SInv, CrcSavesNothing
<1>6. Recoverable'
  <2> SUFFICES ASSUME rdb_backup, saved' # {}, ~exposed' PROVE \E s \in Times : GoodBackup(s)'
    BY DEF Recoverable
  <2>1. Recoverable /\ saved # {} /\ ~exposed
    BY <1>1 DEF SInv
  <2>2. CASE LoadedFrom(disk) = saved
    <3>1. disk.exists
      BY <2>1, <2>2 DEF LoadedFrom, Verified
    <3>2. GoodBackup(now)'
      BY <1>1, <2>2, <3>1 DEF GoodBackup
    <3> QED BY <1>2, <3>2, <1>1
  <2>3. CASE \E s \in Times : GoodBackup(s)
    <3>1. PICK s \in Times : GoodBackup(s)
      BY <2>3
    <3>2. backups[s].exists
      BY <2>1, <3>1 DEF GoodBackup, LoadedFrom, Verified
    <3>3. backups'[s] = backups[s]
      BY <1>1, <3>2
    <3> QED BY <1>1, <3>1, <3>3 DEF GoodBackup
  <2> QED BY <2>1, <2>2, <2>3 DEF Recoverable
<1> QED BY <1>1, <1>2, <1>4, <1>5, <1>6, StepFrameS

LEMMA OpenKeepsS == ASSUME Single, TInv, SInv, NEW t \in Threads, Open(t) PROVE SInv'
<1>1. /\ up /\ UNCHANGED <<memory, up, now, backups, lock, out, flushed, todo, saved, exposed>>
      /\ pc[t] = "open" /\ pc' = [pc EXCEPT ![t] = "array"] /\ disk' = Truncated
  BY DEF Open, At, Goto, NoOtherChange, history
<1>2. pc'[t] = "array" /\ \A u \in Threads \ {t} : pc'[u] = pc[u]
  BY <1>1 DEF TInv, DataTypes
<1>3. flushed'[t] = 0
  BY <1>1 DEF TInv, Fresh
<1>4. Partial(disk', flushed'[t], out'[t])
  BY <1>1, <1>3, SpecialFiles DEF Partial
<1> QED BY <1>1, <1>2, <1>4, SpecialFiles, MidSave

LEMMA WriteKeepsS ==
    ASSUME Single, TInv, SInv, NEW t \in Threads, WriteArray(t) \/ WriteTree(t) \/ WriteBucket(t)
    PROVE  SInv'
<1>1. /\ UNCHANGED <<up, now, backups, disk, flushed, saved, exposed, half>>
      /\ pc[t] \in {"array", "tree", "hash"}
      /\ pc' = [pc EXCEPT ![t] = "tree"] \/ pc' = [pc EXCEPT ![t] = "hash"] \/ pc' = pc
      /\ pc'[t] \in {"tree", "hash"}
  BY DEF WriteArray, WriteTree, WriteBucket, At, Goto, NoOtherChange, history, TInv, DataTypes
<1>2. \A u \in Threads \ {t} : pc'[u] = pc[u]
  BY <1>1 DEF TInv, DataTypes
<1>3. /\ out'[t] \in Seq(Record) /\ out[t] \in Seq(Record)
      /\ \A i \in 1..Len(out[t]) : out'[t][i] = out[t][i]
  BY WriteArrayKeepsT, WriteTreeKeepsT, WriteBucketKeepsT DEF TInv, DataTypes
<1>4. Partial(disk, flushed[t], out[t]) /\ flushed[t] \in Nat /\ flushed[t] <= Len(out[t]) + 1
  BY <1>1, FlushedBound DEF SInv, InProgress, TInv, DataTypes
<1>5. Partial(disk, flushed[t], out'[t])
  BY <1>3, <1>4, WritePartial
<1> QED BY <1>1, <1>2, <1>5, MidSave DEF TInv, DataTypes

LEMMA FlushedPartial ==
    ASSUME TInv, SInv, NEW t \in Threads, pc[t] \in {"tree", "hash"}
    PROVE  /\ Flush(disk, flushed[t], out[t]) \in FileType
           /\ Partial(Flush(disk, flushed[t], out[t]), Len(out[t]) + 1, out[t])
<1>1. /\ disk \in FileType /\ out[t] \in Seq(Record) /\ flushed[t] \in 0..(Len(out[t]) + 1)
      /\ flushed[t] \in Nat
  BY DEF TInv, TypeOK, DataTypes
<1>2. Partial(disk, flushed[t], out[t])
  BY DEF SInv, InProgress
<1> QED BY <1>1, <1>2, FlushPartial, FlushType

LEMMA BufferFullKeepsS ==
    ASSUME Single, TInv, SInv, NEW t \in Threads, BufferFull(t) PROVE SInv'
<1>1. /\ UNCHANGED <<memory, up, now, backups, lock, pc, out, todo, saved, exposed, half>>
      /\ pc[t] \in {"tree", "hash"} /\ disk' = Flush(disk, flushed[t], out[t])
      /\ flushed' = [flushed EXCEPT ![t] = Len(out[t]) + 1]
  BY DEF BufferFull, FlushOut, NoOtherChange, history
<1>2. flushed'[t] = Len(out[t]) + 1
  BY <1>1 DEF TInv, DataTypes
<1> QED BY <1>1, <1>2, FlushedPartial, MidSave

LEMMA EndOfDataKeepsS ==
    ASSUME Single, TInv, SInv, NEW t \in Threads, EndOfData(t) PROVE SInv'
<1>1. /\ UNCHANGED <<memory, up, now, backups, lock, out, todo, saved, exposed, half>>
      /\ pc[t] = "hash" /\ flushed' = [flushed EXCEPT ![t] = Len(out[t]) + 1]
      /\ \E l \in {"failed", "close"} : pc' = [pc EXCEPT ![t] = l]
      /\ pc'[t] = "failed" => rdb_crc64
      /\ pc'[t] = "close" /\ rdb_crc64 => out[t] = <<>>
      /\ \/ disk' = Flush(disk, flushed[t], out[t])
         \/ disk' = [Flush(disk, flushed[t], out[t]) EXCEPT !.footer = {<<>>}]
  BY EndOfDataStep
<1>2. /\ flushed'[t] = Len(out[t]) + 1 /\ pc'[t] \in {"failed", "close"}
      /\ \A u \in Threads \ {t} : pc'[u] = pc[u]
  BY <1>1 DEF TInv, DataTypes
<1> DEFINE F == Flush(disk, flushed[t], out[t])
           G == [F EXCEPT !.footer = {<<>>}]
<1>3. F \in FileType /\ Partial(F, Len(out[t]) + 1, out[t])
  BY <1>1, FlushedPartial
<1> HIDE DEF F
<1>4. G \in FileType /\ G.exists = F.exists /\ G.hdr = F.hdr /\ G.cells = F.cells
  BY <1>3 DEF FileType
<1>5. disk' \in FileType /\ Partial(disk', Len(out[t]) + 1, out[t])
  <2>1. disk' = F \/ disk' = G
    BY <1>1 DEF F
  <2> HIDE DEF G
  <2>2. Partial(G, Len(out[t]) + 1, out[t])
    BY <1>3, <1>4 DEF Partial
  <2> QED BY <1>3, <1>4, <2>1, <2>2
<1> QED BY <1>1, <1>2, <1>5, MidSave

LEMMA FailKeepsS ==
    ASSUME Single, TInv, SInv, NEW t \in Threads, Fail(t) \/ OpenFails(t) PROVE SInv'
<1>1. /\ UNCHANGED <<memory, up, now, backups, todo, disk, saved, exposed, half>>
      /\ pc[t] # "idle" /\ pc' = [pc EXCEPT ![t] = "idle"]
      /\ \A u \in Threads \ {t} : out'[u] = out[u]
  BY DEF Fail, OpenFails, EndStream, At, Goto, NoOtherChange, history, TInv, DataTypes
<1>2. /\ pc'[t] = "idle" /\ \A u \in Threads \ {t} : pc'[u] = pc[u] /\ pc[u] = "idle"
  BY <1>1, OthersIdle DEF Single, TInv, DataTypes
<1>3. \A s \in Times : GoodBackup(s) => GoodBackup(s)'
  BY <1>1 DEF GoodBackup
<1>4. InProgress(t)' /\ AllOrNothing' /\ Recoverable'
  BY <1>1, <1>2, <1>3 DEF InProgress, AllOrNothing, Recoverable, SInv
<1>5. CrcSavesNothing'
  BY <1>1, <1>2 DEF CrcSavesNothing, SInv
<1> QED BY <1>1, <1>2, <1>4, <1>5, StepFrameS

LEMMA CloseKeepsS == ASSUME Single, TInv, SInv, NEW t \in Threads, Close(t) PROVE SInv'
<1>1. /\ UNCHANGED <<memory, up, now, backups, todo>> /\ pc[t] = "close"
      /\ pc' = [pc EXCEPT ![t] = "idle"] /\ disk' = [disk EXCEPT !.hdr = Len(out[t])]
      /\ saved' = {out[t][i] : i \in DOMAIN out[t]}
  BY DEF Close, At, Goto, NoOtherChange, history
<1>2. /\ pc'[t] = "idle" /\ \A u \in Threads \ {t} : pc'[u] = pc[u] /\ pc[u] = "idle"
      /\ rdb_crc64 \in BOOLEAN
  BY <1>1, OthersIdle, SwitchAssumption DEF Single, TInv, DataTypes
<1>3. /\ out[t] \in Seq(Record) /\ disk \in FileType /\ Len(out[t]) \in Nat
      /\ Partial(disk, flushed[t], out[t]) /\ flushed[t] = Len(out[t]) + 1
  BY <1>1 DEF TInv, DataTypes, SInv, InProgress
<1>4. disk.exists /\ Len(disk.cells) = Len(out[t]) /\ \A i \in 1..Len(out[t]) : disk.cells[i] = out[t][i]
  BY <1>3 DEF Partial
<1>5. /\ disk' \in FileType /\ disk'.exists /\ disk'.cells = disk.cells
      /\ disk'.hdr = Len(out[t])
  BY <1>1, <1>3, <1>4 DEF FileType
<1>6. LoadedFrom(disk') \in {{}, saved'} /\ (~rdb_crc64 => LoadedFrom(disk') = saved')
  BY <1>1, <1>3, <1>4, <1>5, CompleteFile DEF Single
<1>7. InProgress(t)' /\ AllOrNothing'
  BY <1>2, <1>6 DEF InProgress, AllOrNothing
<1>8. rdb_crc64 => disk'.hdr <= 0 /\ saved' = {}
  <2>1. rdb_crc64 => out[t] = <<>>
    BY <1>1 DEF SInv, CrcSavesNothing
  <2> QED BY <1>1, <1>5, <2>1
<1>9. CrcSavesNothing'
  BY <1>1, <1>2, <1>8 DEF CrcSavesNothing, SInv
<1>10. Recoverable'
  BY <1>2, <1>6, <1>8 DEF Recoverable
<1> QED BY <1>1, <1>2, <1>7, <1>9, <1>10, StepFrameS

LEMMA CrashKeepsS == ASSUME TInv, SInv, Crash PROVE SInv'
<1>1. /\ up' = FALSE /\ UNCHANGED <<disk, backups, now, saved, exposed, half>>
      /\ \A t \in Threads : pc'[t] = "idle"
  BY DEF Crash, history
<1>2. OneAtATime' /\ AllOrNothing' /\ CrcSavesNothing' /\ \A t \in Threads : InProgress(t)'
  BY <1>1, TwoThreads DEF SInv, OneAtATime, Saving, AllOrNothing, CrcSavesNothing, InProgress
<1>3. \A s \in Times : GoodBackup(s) => GoodBackup(s)'
  BY <1>1 DEF GoodBackup
<1>4. Recoverable => Recoverable'
  BY <1>1, <1>3 DEF Recoverable
<1> QED BY <1>2, <1>4 DEF SInv

LEMMA RestoreKeepsS == ASSUME TInv, SInv, rdb_restore_from_backup PROVE SInv'
<1>1. PICK s \in Times : /\ disk' = backups[s] \/ (disk' \in PartsOf(backups[s]) /\ half' = TRUE)
                         /\ saved' = LoadedFrom(backups[s])
  BY DEF rdb_restore_from_backup
<1>2. /\ ~up /\ UNCHANGED <<backups, now, pc, out, flushed>> /\ backups[s] \in FileType
      /\ \A t \in Threads : pc[t] = "idle"
  BY DEF rdb_restore_from_backup, thread, TInv, DataTypes, Down
<1>3. OneAtATime' /\ AllOrNothing' /\ \A t \in Threads : InProgress(t)'
  BY <1>1, <1>2, TwoThreads DEF OneAtATime, Saving, AllOrNothing, InProgress
<1>4. rdb_crc64 => disk'.hdr <= 0 /\ saved' = {}
  BY <1>1, <1>2, NothingLoaded, PartType DEF SInv, CrcSavesNothing
<1>5. CrcSavesNothing'
  BY <1>2, <1>4 DEF SInv, CrcSavesNothing
<1>6. GoodBackup(s)'
  BY <1>1, <1>2 DEF GoodBackup
<1>7. Recoverable'
  BY <1>6 DEF Recoverable
<1> QED BY <1>3, <1>5, <1>7 DEF SInv

LEMMA InductionS == ASSUME Single PROVE TInv /\ SInv /\ [Next]_vars => SInv'
<1> SUFFICES ASSUME TInv, SInv, [Next]_vars PROVE SInv'
  OBVIOUS
<1>2. CASE UNCHANGED vars
  BY <1>2, CommandKeepsS DEF vars, history
<1>3. CASE ArrayCommand \/ kvs_hash_set \/ kvs_rbtree_set \/ Tick \/ Restart
  BY <1>3, CommandKeepsS
     DEF ArrayCommand, kvs_hash_set, kvs_rbtree_set, Tick, Restart, history
<1>4. CASE StartSaveCommand
  <2>1. /\ SaveCommand /\ up /\ pc[Server] = "idle" /\ pc' = [pc EXCEPT ![Server] = "backup"]
        /\ UNCHANGED <<up, disk, backups, now, out, flushed, todo, saved, exposed, half>>
    BY <1>4 DEF StartSaveCommand, At, Goto, NoOtherChange, history
  <2> QED BY <2>1, TwoThreads, StartKeepsS
<1>5. CASE StartAutoSave
  <2>1. /\ AutoSave /\ up /\ pc[Saver] = "idle" /\ pc' = [pc EXCEPT ![Saver] = "backup"]
        /\ UNCHANGED <<up, disk, backups, now, out, flushed, todo, saved, exposed, half>>
    BY <1>5 DEF StartAutoSave, At, Goto, NoOtherChange, history
  <2> QED BY <2>1, TwoThreads, StartKeepsS
<1>6. CASE \E t \in Threads : SaveStep(t) \/ BufferFull(t)
  BY <1>6, BackupKeepsS, OpenKeepsS, WriteKeepsS, EndOfDataKeepsS, FailKeepsS,
     CloseKeepsS, BufferFullKeepsS DEF SaveStep
<1>7. CASE Crash \/ rdb_restore_from_backup
  BY <1>7, CrashKeepsS, RestoreKeepsS
<1> QED BY <1>2, <1>3, <1>4, <1>5, <1>6, <1>7 DEF Next

LEMMA AlwaysS == ASSUME Single PROVE Spec => []SInv
<1>1. TInv /\ SInv /\ [Next]_vars => SInv'
  BY InductionS
<1> QED BY <1>1, InitS, AlwaysT, PTL DEF Spec

\* When one thread saves and no key is empty, a restart loads the last complete
\* save or nothing, wherever the save after it was interrupted (kvs_rdb_save,
\* kv_RDB.c:158-167 and 270-272), unless the file is what a restore that was cut
\* short has left.
THEOREM WholeSaves ==
    ASSUME OneSaver, KeysNotEmpty PROVE Spec => []AllOrNothing
<1>1. Spec => []SInv
  BY AlwaysS DEF Single
<1>2. SInv => AllOrNothing
  BY DEF SInv
<1> QED BY <1>1, <1>2, PTL

\* When one thread saves and no key is empty, the last complete save is in the
\* file or in a backup, as long as every backup made since was copied completely
\* and to a name not in use: however often saves fail or the process dies, and
\* whether or not it starts again in the same second (rdb_create_backup, called
\* at kv_RDB.c:149-151).
THEOREM LastSaveIsKept ==
    ASSUME OneSaver, KeysNotEmpty PROVE Spec => []LastSaveRecoverable
<1>1. Spec => []SInv
  BY AlwaysS DEF Single
<1>2. SInv => LastSaveRecoverable
  BY DEF SInv, Recoverable, GoodBackup, LastSaveRecoverable, InFileOrBackup
<1> QED BY <1>1, <1>2, PTL

\* With CRC64 switched on a save of one thread never stores anything: it fails,
\* or there was nothing to store (kv_RDB.c:214-268).
THEOREM CrcStoresNothing ==
    ASSUME OneSaver, KeysNotEmpty, rdb_crc64 PROVE Spec => [](saved = {} /\ LoadedFrom(disk) = {})
<1>1. Spec => []SInv
  BY AlwaysS DEF Single
<1>2. SInv /\ TInv => saved = {} /\ LoadedFrom(disk) = {}
  BY NothingLoaded DEF SInv, CrcSavesNothing, TInv, DataTypes
<1> QED BY <1>1, <1>2, AlwaysT, PTL

=============================================================================
