--------------------------- MODULE KvsArrayProofs ---------------------------
(***************************************************************************)
(* Proofs about KvsArray for every table size, key set and value set.      *)
(* The inductive invariant is IInv: types, uniqueness of keys and "nothing *)
(* stored at or above total" need each other.  A SET looks for its key     *)
(* only below total, so uniqueness needs LiveBelowTotal; that the slot it  *)
(* appends to exists and holds nothing needs the types and LiveBelowTotal. *)
(***************************************************************************)
EXTENDS KvsArray, TLAPS

IInv == TypeOK /\ UniqueKeys /\ LiveBelowTotal

\* What a parsed request carries (kvs_tcp_protocol).
LEMMA RequestFields ==
    ASSUME NEW r \in Requests
    PROVE  /\ r.op \in {"SET", "GET", "DEL", "MOD", "EXIST"}
           /\ r.key \in Keys \cup {NULL}
           /\ r.value \in Values \cup {NULL}
           /\ ~NullArgs => r.key \in Keys
           /\ ~NullArgs /\ r.op \in {"SET", "MOD"} => r.value \in Values
  BY DEF Requests

\* Scans return slots of the table that hold the key.
LEMMA MatchesAreSlots ==
    ASSUME TypeOK, NEW k, NEW i \in Matches(table, total, k)
    PROVE  i \in Stored(table) /\ i \in Slots /\ i < total /\ table[i].key = k
           /\ table[i] \in Item
  BY SizeAssumption DEF TypeOK, Matches, Used, Slots, Stored

\* With everything stored below total, an empty scan means an absent key.
LEMMA NoMatchMeansAbsent ==
    ASSUME TypeOK, LiveBelowTotal, intact, NEW k, Matches(table, total, k) = {}
    PROVE  \A i \in Stored(table) : table[i].key # k
  BY SizeAssumption DEF TypeOK, LiveBelowTotal, Matches, Used, Slots, Stored

\* Whatever the request, array_mutex ends up free or with the server thread.
LEMMA LockType == ASSUME NEW r PROVE LockAfter(r) \in {Free, Server}
  BY DEF LockAfter

\* A command that changes nothing but the answer, or kills the process, keeps
\* the invariant.
LEMMA QuietKeeps ==
    ASSUME IInv, Unchanged,
           \/ \E r \in Replies : Return(r)
           \/ Dies
    PROVE  IInv'
<1>1. /\ UNCHANGED <<table, total, intact>> /\ lock' \in {Free, Server}
      /\ up' \in BOOLEAN /\ req' = NULL /\ resp' \in Replies \cup {NULL}
  BY LockType DEF Unchanged, Return, Dies, IInv, TypeOK
<1> QED BY <1>1 DEF IInv, TypeOK, UniqueKeys, LiveBelowTotal, Stored

\* A step of SET keeps the invariant.
LEMMA SetKeeps == IInv /\ kvs_array_set => IInv'
<1> SUFFICES ASSUME IInv, kvs_array_set PROVE IInv'
  OBVIOUS
<1> USE SizeAssumption, DistinctAssumption, NullAssumption
<1>1. CASE Unchanged /\ ((\E r \in {"ERROR", "EXIST"} : Return(r)) \/ Dies)
  BY <1>1, QuietKeeps DEF Replies
<1>2. ASSUME NEW i \in Slots, FreeSlot(table, total, i),
             ~Refused(req.key, req.value, total),
             Matches(table, total, req.key) = {},
             table' = [table EXCEPT ![i] = [key |-> req.key,
                                            value |-> req.value]],
             total' = total + 1, UNCHANGED intact, Return("OK")
      PROVE  IInv'
  <2>0. intact
    BY DEF kvs_array_set, Serving
  <2>1. req \in Requests
    BY DEF kvs_array_set, Serving, IInv, TypeOK
  <2>2. req.key \in Keys /\ req.value \in Values
    BY <1>2, <2>1, RequestFields DEF Refused
  <2>3. TypeOK'
    <3>1. [key |-> req.key, value |-> req.value] \in Item
      BY <2>2 DEF Item
    <3>2. table' \in [Slots -> Item \cup {NULL, Wild}]
      BY <1>2, <3>1 DEF IInv, TypeOK
    <3>3. total' \in 0..KVS_ARRAY_SIZE
      BY <1>2 DEF IInv, TypeOK, Refused
    <3>4. /\ lock' \in {Free, Server} /\ up' \in BOOLEAN /\ req' = NULL
          /\ resp' \in Replies /\ intact' \in BOOLEAN
      BY <1>2, LockType DEF IInv, TypeOK, Return, Replies
    <3> QED BY <3>2, <3>3, <3>4 DEF TypeOK
  <2>4. \A j \in Stored(table) : table[j].key # req.key
    BY <1>2, <2>0, NoMatchMeansAbsent DEF IInv
  <2>5. UniqueKeys'
    <3>1. \A j \in Stored(table)' : j # i => j \in Stored(table) /\ table'[j] = table[j]
      BY <1>2 DEF IInv, TypeOK, Stored
    <3>2. table'[i].key = req.key
      BY <1>2 DEF IInv, TypeOK
    <3> QED BY <2>0, <2>4, <3>1, <3>2 DEF IInv, UniqueKeys
  <2>6. i <= total
    BY <1>2 DEF FreeSlot, Holes, IInv, TypeOK
  <2>7. LiveBelowTotal'
    BY <1>2, <2>0, <2>6 DEF IInv, TypeOK, LiveBelowTotal, Stored, Slots
  <2> QED BY <2>3, <2>5, <2>7 DEF IInv
<1> QED BY <1>1, <1>2 DEF kvs_array_set, Dies, Unchanged

\* A step of DEL keeps the invariant: the slot it empties is the only one it
\* touches, and total shrinks only past that slot.
LEMMA DelKeeps == IInv /\ kvs_array_del => IInv'
<1> SUFFICES ASSUME IInv, kvs_array_del PROVE IInv'
  OBVIOUS
<1> USE SizeAssumption, DistinctAssumption, NullAssumption
<1>1. CASE Unchanged /\ ((\E r \in {"ERROR", "OK", "NO EXIST"} : Return(r)) \/ Dies)
  BY <1>1, QuietKeeps DEF Replies
<1>3. ASSUME NEW i \in Matches(table, total, req.key),
             table' = [table EXCEPT ![i] = NULL],
             total' = TotalAfterDel(total, i), Return("OK"),
             FreesValueOf(table[i])
      PROVE  IInv'
  <2>0. intact
    BY DEF kvs_array_del, Serving
  <2>1. i \in Slots /\ i < total
    BY MatchesAreSlots DEF IInv
  <2>2. TypeOK'
    <3>1. table' \in [Slots -> Item \cup {NULL, Wild}]
      BY <1>3, <2>1 DEF IInv, TypeOK
    <3>2. total' \in 0..KVS_ARRAY_SIZE
      BY <1>3, <2>1 DEF IInv, TypeOK, TotalAfterDel, Slots
    <3>3. /\ lock' \in {Free, Server} /\ up' \in BOOLEAN /\ req' = NULL
          /\ resp' \in Replies /\ intact' \in BOOLEAN
      BY <1>3, LockType DEF IInv, TypeOK, Return, Replies, FreesValueOf
    <3> QED BY <3>1, <3>2, <3>3 DEF TypeOK
  <2>5. \A j \in Stored(table)' : /\ j # i /\ j \in Stored(table)
                                  /\ j \in Slots /\ table'[j] = table[j]
    BY <1>3, <2>1 DEF IInv, TypeOK, Stored
  <2>3. UniqueKeys'
    BY <2>0, <2>5 DEF IInv, UniqueKeys
  <2>4. LiveBelowTotal'
    BY <1>3, <2>0, <2>1, <2>5 DEF IInv, TypeOK, LiveBelowTotal, TotalAfterDel, Slots
  <2> QED BY <2>2, <2>3, <2>4 DEF IInv
<1> QED BY <1>1, <1>3 DEF kvs_array_del, Dies, Unchanged

\* A step of MOD keeps the invariant: keys and total stay as they are.
LEMMA ModKeeps == IInv /\ kvs_array_mod => IInv'
<1> SUFFICES ASSUME IInv, kvs_array_mod PROVE IInv'
  OBVIOUS
<1> USE SizeAssumption, DistinctAssumption, NullAssumption
<1>1. CASE Unchanged /\ ((\E r \in {"ERROR", "NO EXIST"} : Return(r)) \/ Dies)
  BY <1>1, QuietKeeps DEF Replies
<1>2. ASSUME NEW i \in Matches(table, total, req.key), NEW ok \in Malloc,
             req.value # NULL, UNCHANGED total,
             table' = [table EXCEPT ![i].value =
                          IF ok THEN req.value ELSE Dangling],
             Return(IF ok THEN "OK" ELSE "ERROR"), FreesValueOf(table[i])
      PROVE  IInv'
  <2>0. intact
    BY DEF kvs_array_mod, Serving
  <2>1. i \in Slots /\ i \in Stored(table) /\ table[i] \in Item
    BY MatchesAreSlots DEF IInv
  <2>2. req \in Requests
    BY DEF kvs_array_mod, Serving, IInv, TypeOK
  <2>3. req.value \in Values
    BY <1>2, <2>2, RequestFields
  <2>4. /\ table'[i] \in Item /\ table'[i].key = table[i].key
        /\ \A j \in Slots \ {i} : table'[j] = table[j]
        /\ table' \in [Slots -> Item \cup {NULL, Wild}]
    BY <1>2, <2>1, <2>3 DEF IInv, TypeOK, Item
  <2>5. TypeOK'
    BY <1>2, <2>4, LockType DEF IInv, TypeOK, Return, Replies, FreesValueOf
  <2>8. \A j \in Stored(table)' : /\ j \in Stored(table)
                                  /\ table'[j].key = table[j].key
    BY <2>1, <2>4 DEF Stored
  <2>6. UniqueKeys'
    BY <2>0, <2>8 DEF IInv, UniqueKeys
  <2>7. LiveBelowTotal'
    BY <1>2, <2>0, <2>8 DEF IInv, LiveBelowTotal
  <2> QED BY <2>5, <2>6, <2>7 DEF IInv
<1> QED BY <1>1, <1>2 DEF kvs_array_mod, Dies, Unchanged

\* The invariant is inductive.
LEMMA Induction == IInv /\ [Next]_vars => IInv'
<1> SUFFICES ASSUME IInv, [Next]_vars PROVE IInv'
  OBVIOUS
<1> USE SizeAssumption, DistinctAssumption, NullAssumption
<1>1. CASE Receive
  BY <1>1 DEF Receive, IInv, TypeOK, UniqueKeys, LiveBelowTotal, Stored
<1>2. CASE kvs_array_get
  <2>1. \A i \in Matches(table, total, req.key) : table[i].value \in Replies
    BY MatchesAreSlots DEF IInv, Item, Replies
  <2>2. "NO EXIST" \in Replies
    BY DEF Replies
  <2> QED
    BY <1>2, <2>1, <2>2, QuietKeeps DEF kvs_array_get, Dies, Unchanged
<1>3. CASE kvs_array_exist \/ Undefined
  <2>1. "EXIST" \in Replies /\ "NO EXIST" \in Replies
    BY DEF Replies
  <2> QED BY <1>3, <2>1, QuietKeeps DEF kvs_array_exist, Undefined, Dies, Unchanged
<1>4. CASE kvs_array_create
  BY <1>4 DEF kvs_array_create, Uncleared, IInv, TypeOK, UniqueKeys, LiveBelowTotal,
              Stored
<1>5. CASE UNCHANGED vars
  BY <1>5 DEF vars, IInv, TypeOK, UniqueKeys, LiveBelowTotal, Stored
<1> QED
  BY <1>1, <1>2, <1>3, <1>4, <1>5, SetKeeps, DelKeeps, ModKeeps
     DEF Next, Serve

\* The invariant holds at the start.
LEMMA InitInv == Init => IInv
  BY SizeAssumption
     DEF Init, Uncleared, IInv, TypeOK, UniqueKeys, LiveBelowTotal, Stored, Slots

\* Type correctness of the array engine, for every size and every set of keys
\* and values: in particular total stays within the table (kvs_array_set,
\* kvs_array_del).
THEOREM TypeCorrect == Spec => []TypeOK
<1>1. IInv => TypeOK
  BY DEF IInv
<1> QED BY <1>1, InitInv, Induction, PTL DEF Spec

\* No key is ever stored twice by kvs_array_set.
THEOREM KeysAreUnique == Spec => []UniqueKeys
<1>1. IInv => UniqueKeys
  BY DEF IInv
<1> QED BY <1>1, InitInv, Induction, PTL DEF Spec

\* No item is ever stranded above total by kvs_array_set or kvs_array_del.
THEOREM NothingStranded == Spec => []LiveBelowTotal
<1>1. IInv => LiveBelowTotal
  BY DEF IInv
<1> QED BY <1>1, InitInv, Induction, PTL DEF Spec

-----------------------------------------------------------------------------
(***************************************************************************)
(* The engine implements the abstract map.  The three lemmas after the     *)
(* first two say what filling, emptying and overwriting a slot does to the *)
(* map the table stands for.                                               *)
(***************************************************************************)
Tables == [Slots -> Item \cup {NULL, Wild}]

Unique(t) == \A i, j \in Stored(t) : t[i].key = t[j].key => i = j

Absent(t, k) == \A i \in Stored(t) : t[i].key # k

\* A stored item is what the map shows for its key.
LEMMA DictAt ==
    ASSUME NEW t \in Tables, Unique(t), NEW i \in Stored(t)
    PROVE  t[i].key \in Keys /\ DictOf(t)[t[i].key] = t[i].value
<1>1. t[i].key \in Keys
  BY DEF Tables, Item, Stored
<1> DEFINE k == t[i].key
           c == CHOOSE j \in Stored(t) : t[j].key = k
<1>2. c \in Stored(t) /\ t[c].key = k
  OBVIOUS
<1>3. c = i
  BY <1>2 DEF Unique
<1> QED BY <1>1, <1>3 DEF DictOf

\* The map shows NULL for a key no slot holds.
LEMMA DictAbsent ==
    ASSUME NEW t, NEW k \in Keys, Absent(t, k)
    PROVE  DictOf(t)[k] = NULL
  BY DEF DictOf, Absent

\* Filling a free slot with a new key adds that key to the map.
LEMMA DictFill ==
    ASSUME NEW t \in Tables, Unique(t), NEW i \in Slots \ Stored(t),
           NEW k \in Keys, NEW v \in Values, Absent(t, k)
    PROVE  DictOf([t EXCEPT ![i] = [key |-> k, value |-> v]])
             = [DictOf(t) EXCEPT ![k] = v]
<1> DEFINE u == [t EXCEPT ![i] = [key |-> k, value |-> v]]
<1>1. u \in Tables /\ u[i] = [key |-> k, value |-> v]
      /\ Stored(u) = Stored(t) \cup {i}
      /\ \A j \in Stored(t) : u[j] = t[j]
  <2>1. [key |-> k, value |-> v] \in Item
    BY DEF Item
  <2>2. [key |-> k, value |-> v] \notin {NULL, Wild}
    BY <2>1, NullAssumption DEF Item
  <2> QED BY <2>1, <2>2 DEF Tables, Stored
<1> HIDE DEF u
<1>6. u[i].key = k /\ u[i].value = v
  BY <1>1
<1>2. Unique(u)
  BY <1>1, <1>6 DEF Unique, Absent
<1>3. ASSUME NEW x \in Keys
      PROVE  DictOf(u)[x] = IF x = k THEN v ELSE DictOf(t)[x]
  <2>1. CASE x = k
    BY <1>1, <1>2, <1>6, <2>1, DictAt
  <2>2. CASE x # k /\ Absent(t, x)
    <3>1. Absent(u, x)
      BY <1>1, <1>6, <2>2 DEF Absent
    <3> QED BY <2>2, <3>1, DictAbsent
  <2>3. CASE x # k /\ ~Absent(t, x)
    <3>1. PICK j \in Stored(t) : t[j].key = x
      BY <2>3 DEF Absent
    <3>2. u[j] = t[j]
      BY <1>1, <3>1
    <3>3. DictOf(t)[x] = t[j].value
      BY <3>1, DictAt
    <3>4. DictOf(u)[x] = u[j].value
      BY <1>1, <1>2, <3>1, <3>2, DictAt
    <3> QED BY <2>3, <3>2, <3>3, <3>4
  <2> QED BY <2>1, <2>2, <2>3
<1>4. /\ DictOf(u) = [x \in Keys |-> DictOf(u)[x]]
      /\ DictOf(t) = [x \in Keys |-> DictOf(t)[x]]
  BY DEF DictOf
<1>5. DictOf(u) = [DictOf(t) EXCEPT ![k] = v]
  BY <1>3, <1>4
<1> QED BY <1>5 DEF u

\* Emptying a slot removes its key from the map.
LEMMA DictEmptied ==
    ASSUME NEW t \in Tables, Unique(t), NEW i \in Stored(t)
    PROVE  DictOf([t EXCEPT ![i] = NULL])
             = [DictOf(t) EXCEPT ![t[i].key] = NULL]
<1> DEFINE u == [t EXCEPT ![i] = NULL]
           k == t[i].key
<1>1. u \in Tables /\ Stored(u) = Stored(t) \ {i}
      /\ \A j \in Stored(u) : u[j] = t[j]
  BY DEF Tables, Stored
<1> HIDE DEF u
<1>2. Unique(u)
  BY <1>1 DEF Unique
<1>3. ASSUME NEW x \in Keys
      PROVE  DictOf(u)[x] = IF x = k THEN NULL ELSE DictOf(t)[x]
  <2>1. CASE Absent(u, x)
    <3>1. x # k => Absent(t, x)
      BY <1>1, <2>1 DEF Absent
    <3> QED BY <2>1, <3>1, DictAbsent
  <2>2. CASE ~Absent(u, x)
    <3>1. PICK j \in Stored(u) : u[j].key = x
      BY <2>2 DEF Absent
    <3>2. j # i /\ u[j] = t[j] /\ j \in Stored(t)
      BY <1>1, <3>1
    <3>3. x # k
      BY <3>1, <3>2 DEF Unique
    <3>4. DictOf(t)[x] = t[j].value
      BY <3>1, <3>2, DictAt
    <3>5. DictOf(u)[x] = u[j].value
      BY <1>1, <1>2, <3>1, DictAt
    <3> QED BY <3>2, <3>3, <3>4, <3>5
  <2> QED BY <2>1, <2>2
<1>4. /\ DictOf(u) = [x \in Keys |-> DictOf(u)[x]]
      /\ DictOf(t) = [x \in Keys |-> DictOf(t)[x]]
  BY DEF DictOf
<1>5. DictOf(u) = [DictOf(t) EXCEPT ![k] = NULL]
  BY <1>3, <1>4
<1> QED BY <1>5 DEF u

\* Overwriting a stored value changes the map at that key only.
LEMMA DictOverwritten ==
    ASSUME NEW t \in Tables, Unique(t), NEW i \in Stored(t),
           NEW v \in Values \cup {Dangling}
    PROVE  DictOf([t EXCEPT ![i].value = v])
             = [DictOf(t) EXCEPT ![t[i].key] = v]
<1> DEFINE u == [t EXCEPT ![i].value = v]
           k == t[i].key
<1>1. t[i] \in Item
  BY DEF Tables, Stored
<1>2. /\ u \in Tables /\ u[i] \in Item /\ u[i].key = k /\ u[i].value = v
      /\ \A j \in Slots \ {i} : u[j] = t[j]
  BY <1>1 DEF Tables, Item, Stored
<1>3. Stored(u) = Stored(t)
  <2>1. u[i] \notin {NULL, Wild}
    BY <1>2, NullAssumption DEF Item
  <2> QED BY <1>2, <2>1 DEF Stored
<1>4. Unique(u)
  BY <1>2, <1>3 DEF Unique, Stored
<1>5. ASSUME NEW x \in Keys
      PROVE  DictOf(u)[x] = IF x = k THEN v ELSE DictOf(t)[x]
  <2>1. CASE x = k
    BY <1>2, <1>3, <1>4, <2>1, DictAt
  <2>2. CASE x # k /\ Absent(t, x)
    <3>1. Absent(u, x)
      BY <1>2, <1>3, <2>2 DEF Absent, Stored
    <3> QED BY <2>2, <3>1, DictAbsent
  <2>3. CASE x # k /\ ~Absent(t, x)
    <3>1. PICK j \in Stored(t) : t[j].key = x
      BY <2>3 DEF Absent
    <3>2. u[j] = t[j]
      BY <1>2, <2>3, <3>1 DEF Stored
    <3>3. DictOf(t)[x] = t[j].value
      BY <3>1, DictAt
    <3>4. DictOf(u)[x] = u[j].value
      BY <1>2, <1>3, <1>4, <3>1, <3>2, DictAt
    <3> QED BY <2>3, <3>2, <3>3, <3>4
  <2> QED BY <2>1, <2>2, <2>3
<1> HIDE DEF u
<1>6. /\ DictOf(u) = [x \in Keys |-> DictOf(u)[x]]
      /\ DictOf(t) = [x \in Keys |-> DictOf(t)[x]]
  BY DEF DictOf
<1>7. DictOf(u) = [DictOf(t) EXCEPT ![k] = v]
  BY <1>5, <1>6
<1> QED BY <1>7 DEF u

\* The map a good state stands for: a scan that finds the key finds the map's
\* value, a scan that finds nothing means the map has no such key.
LEMMA ScanReadsMap ==
    ASSUME IInv, intact
    PROVE  /\ table \in Tables /\ Unique(table)
           /\ \A k \in Keys : Matches(table, total, k) = {}
                 => Absent(table, k) /\ DictOf(table)[k] = NULL
           /\ \A k : \A i \in Matches(table, total, k) :
                 /\ k \in Keys /\ i \in Stored(table) /\ table[i].key = k
                 /\ DictOf(table)[k] = table[i].value /\ DictOf(table)[k] # NULL
           /\ total = 0 => DictOf(table) = Map!Empty
<1>1. table \in Tables /\ Unique(table)
  BY DEF IInv, TypeOK, UniqueKeys, Tables, Unique
<1>2. ASSUME NEW k \in Keys, Matches(table, total, k) = {}
      PROVE  Absent(table, k) /\ DictOf(table)[k] = NULL
  BY <1>2, NoMatchMeansAbsent, DictAbsent DEF IInv, Absent
<1>3. ASSUME NEW k, NEW i \in Matches(table, total, k)
      PROVE  /\ k \in Keys /\ i \in Stored(table)
             /\ table[i].key = k
             /\ DictOf(table)[k] = table[i].value /\ DictOf(table)[k] # NULL
  <2>1. i \in Stored(table) /\ table[i].key = k /\ table[i] \in Item
    BY MatchesAreSlots DEF IInv
  <2>2. k \in Keys /\ DictOf(table)[k] = table[i].value
    BY <1>1, <2>1, DictAt
  <2> QED BY <2>1, <2>2, DistinctAssumption DEF Item
<1>4. ASSUME total = 0
      PROVE  DictOf(table) = Map!Empty
  <2>1. \A k \in Keys : Matches(table, total, k) = {}
    BY <1>4 DEF Matches, Used
  <2>2. \A k \in Keys : DictOf(table)[k] = NULL
    BY <1>2, <2>1
  <2> QED BY <2>2 DEF DictOf, Map!Empty
<1> QED BY <1>1, <1>2, <1>3, <1>4

\* Every step of the engine is a step of the map.
LEMMA StepSimulation == IInv /\ [Next]_vars => [Map!MapNext]_(Map!mapVars)
<1> SUFFICES ASSUME IInv, [Next]_vars PROVE [Map!MapNext]_(Map!mapVars)
  OBVIOUS
<1> USE DistinctAssumption
<1>9. ASSUME Dies, req # NULL, up
      PROVE  Map!MapNext
  BY <1>9 DEF Dies, Map!MapCrash, Map!MapNext
<1>0. req # NULL => /\ req.key \in Keys \cup {NULL}
                    /\ req.value \in Values \cup {NULL}
  BY RequestFields DEF IInv, TypeOK
<1>1. CASE Receive
  <2>1. Map!Requests = Requests
    BY DEF Map!Requests, Requests
  <2>2. Map!MapReceive
    BY <1>1, <2>1 DEF Receive, Map!MapReceive
  <2> QED BY <2>2 DEF Map!MapNext
<1>2. CASE kvs_array_set
  <2>1. Map!Serving("SET") /\ req # NULL /\ up /\ intact
    BY <1>2 DEF kvs_array_set, Serving, Map!Serving
  <2>2. CASE Unchanged /\ Return("ERROR")
    BY <2>1, <2>2 DEF Unchanged, Return, Map!Unchanged, Map!MapSet, Map!Answer, Map!MapNext
  <2>3. CASE /\ Matches(table, total, req.key) # {}
             /\ Unchanged /\ Return("EXIST")
    <3>1. Map!Has(req.key)
      BY <2>1, <2>3, ScanReadsMap DEF Map!Has
    <3> QED BY <2>1, <2>3, <3>1
               DEF Unchanged, Return, Map!Unchanged, Map!MapSet, Map!Answer, Map!MapNext
  <2>4. ASSUME NEW i \in Slots, FreeSlot(table, total, i),
               ~Refused(req.key, req.value, total),
               Matches(table, total, req.key) = {},
               table' = [table EXCEPT ![i] = [key |-> req.key,
                                              value |-> req.value]],
               UNCHANGED intact, Return("OK")
        PROVE  Map!MapSet
    <3>1. req.key \in Keys /\ req.value \in Values
      BY <1>0, <1>2, <2>4 DEF kvs_array_set, Serving, Refused
    <3>2. i \notin Stored(table)
      BY <2>1, <2>4, SizeAssumption
         DEF FreeSlot, Holes, IInv, TypeOK, LiveBelowTotal, Stored, Slots
    <3>3. Absent(table, req.key) /\ DictOf(table)[req.key] = NULL
      BY <2>1, <2>4, <3>1, ScanReadsMap
    <3>4. DictOf(table') = [DictOf(table) EXCEPT ![req.key] = req.value]
      <4>1. table \in Tables /\ Unique(table)
        BY <2>1, ScanReadsMap
      <4>2. DictOf([table EXCEPT ![i] = [key |-> req.key,
                                         value |-> req.value]])
              = [DictOf(table) EXCEPT ![req.key] = req.value]
        BY <3>1, <3>2, <3>3, <4>1, DictFill
      <4> QED BY <2>4, <4>2
    <3> QED BY <2>1, <2>4, <3>1, <3>3, <3>4
               DEF Map!MapSet, Map!Has, Map!Answer, Return
  <2> QED BY <1>2, <1>9, <2>1, <2>2, <2>3, <2>4 DEF kvs_array_set, Map!MapNext
<1>3. CASE kvs_array_get
  <2>1. Map!Serving("GET") /\ req # NULL /\ up /\ intact
    BY <1>3 DEF kvs_array_get, Serving, Map!Serving
  <2>2. CASE /\ Matches(table, total, req.key) = {}
             /\ Return("NO EXIST") /\ Unchanged
    <3>1. ~Map!Has(req.key)
      BY <2>1, <2>2, ScanReadsMap DEF Map!Has
    <3> QED BY <2>1, <2>2, <3>1
               DEF Unchanged, Return, Map!Unchanged, Map!MapGet, Map!Answer, Map!MapNext
  <2>3. ASSUME NEW i \in Matches(table, total, req.key),
               Return(table[i].value), Unchanged
        PROVE  Map!MapGet
    <3>1. Map!Has(req.key) /\ DictOf(table)[req.key] = table[i].value
      BY <2>1, ScanReadsMap DEF Map!Has
    <3> QED BY <2>1, <2>3, <3>1 DEF Unchanged, Return, Map!Unchanged, Map!MapGet, Map!Answer
  <2> QED BY <1>3, <1>9, <2>1, <2>2, <2>3 DEF kvs_array_get, Map!MapNext
<1>4. CASE kvs_array_del
  <2>1. Map!Serving("DEL") /\ req # NULL /\ up /\ intact
    BY <1>4 DEF kvs_array_del, Serving, Map!Serving
  <2>2. CASE req.key = NULL /\ Return("ERROR") /\ Unchanged
    BY <2>1, <2>2 DEF Unchanged, Return, Map!Unchanged, Map!MapDel, Map!Answer, Map!MapNext
  <2>4. ASSUME NEW i \in Matches(table, total, req.key),
               table' = [table EXCEPT ![i] = NULL], Return("OK"),
               FreesValueOf(table[i])
        PROVE  Map!MapDel
    <3>1. /\ i \in Stored(table) /\ table[i].key = req.key
          /\ Map!Has(req.key) /\ DictOf(table)[req.key] = table[i].value
      BY <2>1, ScanReadsMap DEF Map!Has
    <3>2. DictOf(table') = [DictOf(table) EXCEPT ![req.key] = NULL]
      <4>1. table \in Tables /\ Unique(table)
        BY <2>1, ScanReadsMap
      <4>2. DictOf([table EXCEPT ![i] = NULL])
              = [DictOf(table) EXCEPT ![table[i].key] = NULL]
        BY <3>1, <4>1, DictEmptied
      <4> QED BY <2>4, <3>1, <4>2
    <3> QED BY <2>1, <2>4, <3>1, <3>2 DEF Map!MapDel, Map!Answer, Return,
                   FreesValueOf, Map!FreesValueOf
  <2>5. CASE /\ req.key # NULL /\ Matches(table, total, req.key) = {}
             /\ Return(IF total = 0 THEN "OK" ELSE "NO EXIST")
             /\ Unchanged
    <3>1. req.key \in Keys /\ ~Map!Has(req.key)
      BY <1>0, <2>1, <2>5, ScanReadsMap DEF Map!Has
    <3>2. total = 0 => DictOf(table) = Map!Empty
      BY <2>1, ScanReadsMap
    <3> QED BY <2>1, <2>5, <3>1, <3>2
               DEF Unchanged, Return, Map!Unchanged, Map!MapDel, Map!Answer, Map!MapNext
  <2> QED BY <1>4, <1>9, <2>1, <2>2, <2>4, <2>5 DEF kvs_array_del, Map!MapNext
<1>5. CASE kvs_array_mod
  <2>1. Map!Serving("MOD") /\ req # NULL /\ up /\ intact
    BY <1>5 DEF kvs_array_mod, Serving, Map!Serving
  <2>2. CASE /\ req.key = NULL \/ req.value = NULL
             /\ Return("ERROR") /\ Unchanged
    BY <2>1, <2>2 DEF Return, Unchanged, Map!Unchanged, Map!MapMod, Map!Answer, Map!MapNext
  <2>3. CASE /\ req.key # NULL /\ Matches(table, total, req.key) = {}
             /\ Return("NO EXIST") /\ Unchanged
    <3>1. req.key \in Keys /\ ~Map!Has(req.key)
      BY <1>0, <2>1, <2>3, ScanReadsMap DEF Map!Has
    <3> QED BY <2>1, <2>3, <3>1
               DEF Return, Unchanged, Map!Unchanged, Map!MapMod, Map!Answer, Map!MapNext
  <2>4. ASSUME NEW i \in Matches(table, total, req.key), NEW ok \in Malloc,
               req.value # NULL,
               table' = [table EXCEPT ![i].value =
                            IF ok THEN req.value ELSE Dangling],
               Return(IF ok THEN "OK" ELSE "ERROR"), FreesValueOf(table[i])
        PROVE  Map!MapMod
    <3>1. /\ i \in Stored(table) /\ table[i].key = req.key
          /\ Map!Has(req.key) /\ DictOf(table)[req.key] = table[i].value
      BY <2>1, ScanReadsMap DEF Map!Has
    <3>2. req.value \in Values
      BY <1>0, <2>1, <2>4
    <3>3. DictOf(table') = [DictOf(table) EXCEPT ![req.key] =
                               IF ok THEN req.value ELSE Dangling]
      <4>1. table \in Tables /\ Unique(table)
        BY <2>1, ScanReadsMap
      <4> DEFINE v == IF ok THEN req.value ELSE Dangling
      <4>2. v \in Values \cup {Dangling}
        BY <3>2
      <4> HIDE DEF v
      <4>3. DictOf([table EXCEPT ![i].value = v])
              = [DictOf(table) EXCEPT ![table[i].key] = v]
        BY <3>1, <4>1, <4>2, DictOverwritten
      <4> QED BY <2>4, <3>1, <4>3 DEF v
    <3> QED BY <2>1, <2>4, <3>1, <3>2, <3>3 DEF Map!MapMod, Map!Answer, Return,
                   FreesValueOf, Map!FreesValueOf
  <2> QED BY <1>5, <1>9, <2>1, <2>2, <2>3, <2>4 DEF kvs_array_mod, Map!MapNext
<1>6. CASE kvs_array_exist
  <2>1. Map!Serving("EXIST") /\ req # NULL /\ up /\ intact
    BY <1>6 DEF kvs_array_exist, Serving, Map!Serving
  <2>2. Map!Has(req.key) <=> (req.key # NULL
                              /\ Matches(table, total, req.key) # {})
    BY <1>0, <2>1, ScanReadsMap DEF Map!Has
  <2> QED BY <1>6, <1>9, <2>1, <2>2
             DEF kvs_array_exist, Return, Unchanged, Map!Unchanged, Map!MapExist, Map!Answer,
                 Map!MapNext
<1>7. CASE kvs_array_create
  <2>1. DictOf(table') = Map!Empty
    BY <1>7 DEF kvs_array_create, Uncleared, Stored, DictOf, Map!Empty
  <2> QED BY <1>7, <2>1 DEF kvs_array_create, Map!MapRestart, Map!MapNext
<1>10. CASE Undefined
  BY <1>9, <1>10 DEF Undefined, Return, Unchanged, Map!MapUndefined, Map!MapNext
<1>8. CASE UNCHANGED vars
  BY <1>8 DEF vars, Map!mapVars
<1> QED
  BY <1>1, <1>2, <1>3, <1>4, <1>5, <1>6, <1>7, <1>8, <1>10 DEF Next, Serve

\* The array engine implements the abstract map: for every table size and all
\* keys and values, the answers of SET, GET, DEL, MOD and EXIST are those of
\* KvsMap, with holes, refills, slots never written, refusals, lost values and
\* restarts included.  The map's promise ends with the second free of a value,
\* which only a MOD or a DEL of a key whose last MOD found no memory brings
\* about (kvs_array.c:132, 172).
THEOREM Refinement == Spec => ImplementsMap
<1>1. Init => Map!MapInit
  BY DEF Init, Uncleared, Stored, Map!MapInit, DictOf, Map!Empty
<1> QED
  BY <1>1, InitInv, Induction, StepSimulation, PTL
     DEF Spec, ImplementsMap, Map!MapSpec
=============================================================================
