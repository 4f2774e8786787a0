------------------------------ MODULE KvsDict ------------------------------
(***************************************************************************)
(* What the tree and the hash engine promise: a map from keys to values in *)
(* which the first value set for a key stays until the key is modified or  *)
(* deleted.  No nodes, no pointers, no memory.  The promise ends, in one   *)
(* process, with a MOD or DEL of a key whose value is lost, which may free *)
(* that value a second time.  KvsRbtree and KvsHash are shown to implement *)
(* this module; in the tree the promise does not end.                      *)
(***************************************************************************)
CONSTANTS Keys, Values,
          NULL,         \* no value; also an argument the packet does not have
          Lost,         \* what is left of a value a failed MOD has freed
          ExistAnswer   \* the answer to a SET of a key that exists

VARIABLES dict,    \* dict[k] is k's value, NULL when k is absent
          intact,  \* no value has been freed twice in this process
          up,      \* the process is running
          resp     \* the last answer

dictVars == <<dict, intact, up, resp>>

Empty == [k \in Keys |-> NULL]

DictInit == dict = Empty /\ intact = TRUE /\ up = TRUE /\ resp = NULL

Has(k) == k \in Keys /\ dict[k] # NULL

Answer(r) == up /\ intact /\ UNCHANGED up /\ resp' = r

Unchanged == UNCHANGED <<dict, intact>>

\* A SET without memory or arguments is refused; a SET of a key that exists
\* never touches its value.
DictSet(k, v) ==
    \/ /\ Answer("OK") /\ k \in Keys /\ v \in Values /\ ~Has(k)
       /\ dict' = [dict EXCEPT ![k] = v] /\ UNCHANGED intact
    \/ Answer(ExistAnswer) /\ Has(k) /\ Unchanged
    \/ Answer("ERROR") /\ Unchanged

DictGet(k) ==
    /\ \/ Answer("NO_EXIST") /\ (Has(k) => dict[k] = Lost)
       \/ Has(k) /\ Answer(dict[k])
    /\ Unchanged

\* The value of k is given back, perhaps once more.
FreesValueOf(k) == intact' \in {TRUE, dict[k] # Lost}

DictMod(k, v) ==
    \/ Answer("ERROR") /\ (k = NULL \/ v = NULL) /\ Unchanged
    \/ Answer("NO_EXIST") /\ k \in Keys /\ ~Has(k) /\ Unchanged
    \/ /\ Answer("OK") /\ Has(k) /\ v \in Values /\ FreesValueOf(k)
       /\ dict' = [dict EXCEPT ![k] = v]
    \/ /\ Answer("ERROR") /\ Has(k) /\ FreesValueOf(k)
       /\ dict' = [dict EXCEPT ![k] = Lost]

DictDel(k) ==
    \/ Answer("ERROR") /\ k = NULL /\ Unchanged
    \/ Answer("NO_EXIST") /\ k \in Keys /\ ~Has(k) /\ Unchanged
    \/ /\ Answer("OK") /\ Has(k) /\ FreesValueOf(k)
       /\ dict' = [dict EXCEPT ![k] = NULL]

DictExist(k) ==
    /\ \/ Answer("EXIST") /\ Has(k)
       \/ Answer("NO_EXIST") /\ ~Has(k)
       \/ Answer("ERROR") /\ k = NULL
    /\ Unchanged

\* Without the promise any operation may answer and do anything.
DictUndefined == up /\ ~intact /\ UNCHANGED <<intact, up>>

\* The process may die; it then starts again empty.
DictCrash == up /\ up' = FALSE /\ UNCHANGED <<dict, intact, resp>>
DictRestart == /\ ~up /\ up' = TRUE /\ dict' = Empty /\ intact' = TRUE
               /\ resp' = NULL

DictNext ==
    \/ \E k \in Keys \cup {NULL}, v \in Values \cup {NULL} :
          DictSet(k, v) \/ DictMod(k, v)
    \/ \E k \in Keys \cup {NULL} : DictGet(k) \/ DictDel(k) \/ DictExist(k)
    \/ DictUndefined \/ DictCrash \/ DictRestart

DictSpec == DictInit /\ [][DictNext]_dictVars
=============================================================================
