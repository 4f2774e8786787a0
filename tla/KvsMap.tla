------------------------------- MODULE KvsMap -------------------------------
(***************************************************************************)
(* What the array engine promises its clients: a map from keys to values   *)
(* behind a one-request-at-a-time server.  No slots, no lock, no scan.     *)
(* KvsArray is shown to implement this module.  The promise ends where the *)
(* engine frees a value a second time: from then on, until the process is  *)
(* started again, nothing is promised.                                     *)
(***************************************************************************)
CONSTANTS Keys, Values, NULL, Dangling, NullArgs

VARIABLES dict,   \* dict[k] is k's value, NULL when k is absent
          intact, \* the promise holds: no value has been freed twice
          up,     \* the server process is running
          req,    \* the request being served, NULL when there is none
          resp    \* the answer to the last request

mapVars == <<dict, intact, up, req, resp>>

\* NullArgs: clients may leave the value, or the whole payload, out.
Requests == [op : {"SET", "MOD"}, key : Keys, value : Values]
            \cup [op : {"GET", "DEL", "EXIST"}, key : Keys, value : {NULL}]
            \cup IF NullArgs
                   THEN [op : {"SET", "MOD"}, key : Keys, value : {NULL}] \cup
                        [op : {"SET", "GET", "DEL", "MOD", "EXIST"},
                         key : {NULL}, value : {NULL}]
                   ELSE {}

Empty == [k \in Keys |-> NULL]

MapInit == dict = Empty /\ intact = TRUE /\ up = TRUE /\ req = NULL /\ resp = NULL

Answer(r) == resp' = r /\ req' = NULL /\ UNCHANGED up

Serving(op) == up /\ intact /\ req # NULL /\ req.op = op

Has(k) == k \in Keys /\ dict[k] # NULL

MapReceive == /\ up /\ req = NULL
              /\ req' \in Requests
              /\ UNCHANGED <<dict, intact, up, resp>>

Unchanged == UNCHANGED <<dict, intact>>

\* A SET may be refused, but never changes the value of a key that exists.
MapSet == /\ Serving("SET")
          /\ \/ Answer("ERROR") /\ Unchanged
             \/ Has(req.key) /\ Answer("EXIST") /\ Unchanged
             \/ /\ req.key \in Keys /\ req.value \in Values /\ ~Has(req.key)
                /\ dict' = [dict EXCEPT ![req.key] = req.value]
                /\ Answer("OK") /\ UNCHANGED intact

MapGet == /\ Serving("GET")
          /\ Answer(IF Has(req.key) THEN dict[req.key] ELSE "NO EXIST")
          /\ Unchanged

\* MOD and DEL of a key whose value is lost free that value again.
FreesValueOf(k) == intact' = (dict[k] # Dangling)

\* A DEL that answers OK leaves the key absent; only on an empty map may it
\* answer OK without having removed anything.
MapDel == /\ Serving("DEL")
          /\ \/ req.key = NULL /\ Answer("ERROR") /\ Unchanged
             \/ /\ Has(req.key)
                /\ dict' = [dict EXCEPT ![req.key] = NULL]
                /\ FreesValueOf(req.key)
                /\ Answer("OK")
             \/ /\ req.key \in Keys /\ ~Has(req.key)
                /\ Answer("NO EXIST") \/ (dict = Empty /\ Answer("OK"))
                /\ Unchanged

\* A MOD that runs out of memory loses the old value as well.
MapMod == /\ Serving("MOD")
          /\ \/ /\ req.key = NULL \/ req.value = NULL
                /\ Answer("ERROR") /\ Unchanged
             \/ /\ Has(req.key) /\ req.value \in Values
                /\ FreesValueOf(req.key)
                /\ \/ /\ dict' = [dict EXCEPT ![req.key] = req.value]
                      /\ Answer("OK")
                   \/ /\ dict' = [dict EXCEPT ![req.key] = Dangling]
                      /\ Answer("ERROR")
             \/ /\ req.key \in Keys /\ ~Has(req.key)
                /\ Answer("NO EXIST") /\ Unchanged

MapExist == /\ Serving("EXIST")
            /\ Answer(IF Has(req.key) THEN "EXIST" ELSE "NO EXIST")
            /\ Unchanged

\* Without the promise any command may answer and do anything.
MapUndefined == ~intact /\ up /\ req # NULL /\ req' = NULL /\ UNCHANGED <<intact, up>>

\* The process may die serving a command, and then starts again empty.
MapCrash == /\ up /\ req # NULL /\ up' = FALSE /\ req' = NULL
            /\ UNCHANGED <<dict, intact, resp>>

MapRestart == /\ ~up /\ up' = TRUE /\ dict' = Empty /\ intact' = TRUE
              /\ resp' = NULL /\ UNCHANGED req

MapNext == \/ MapReceive \/ MapSet \/ MapGet \/ MapDel \/ MapMod \/ MapExist
           \/ MapUndefined \/ MapCrash \/ MapRestart

MapSpec == MapInit /\ [][MapNext]_mapVars
=============================================================================
