---------------------------- MODULE KvsSortedSet ----------------------------
(***************************************************************************)
(* What the sorted-set commands promise: a set of entries, each a member   *)
(* key with a score and a value.  A key may have entries with several      *)
(* scores.  No list, no levels.  KvsSkiptable is shown to implement this   *)
(* module.                                                                 *)
(***************************************************************************)
EXTENDS Integers, FiniteSets

CONSTANTS Keys,    \* in the order of strcmp
          Scores, Values,
          Missing, \* a value there was no memory for
          NULL,    \* no value
          MaxResults, ResultLines   \* limits of a ZRANGE

VARIABLES entries,  \* the value of the entry with a score and a key, or NULL
          answer    \* the last answer

setVars == <<entries, answer>>

Entry == [score : Scores, key : Keys]

Present == {e \in Entry : entries[e] # NULL}

Precedes(d, e) == d.score < e.score \/ (d.score = e.score /\ d.key < e.key)

Says(r) == answer' = [ret |-> r, lines |-> <<>>, cut |-> FALSE]

AtMost(n, limit) == IF n < limit THEN n ELSE limit

\* The i-th entry of S in order.
Nth(S, i) == CHOOSE e \in S : Cardinality({d \in S : Precedes(d, e)}) = i - 1

SetInit == /\ entries = [e \in Entry |-> NULL]
           /\ answer = [ret |-> "none", lines |-> <<>>, cut |-> FALSE]

\* ZADD says EXIST when the key already has this very score; the value is
\* then replaced.  It says the same without memory for the value.
ZAdd(k, v, s) ==
    LET e == [score |-> s, key |-> k]
    IN /\ Says(IF e \in Present THEN "EXIST" ELSE "OK")
       /\ entries' = [entries EXCEPT ![e] = v]

\* e is on the wrong side of an entry of another key: the order of the keys
\* and that of the scores disagree.
OutOfPlace(e) ==
    \E d \in Present : \/ Precedes(d, e) /\ d.key > e.key
                       \/ Precedes(e, d) /\ d.key < e.key

\* ZREM removes one entry of the key.  It may miss the key only when all its
\* entries are out of place.
ZRem(k) ==
    \/ \E e \in Present : /\ e.key = k /\ Says("OK")
                          /\ entries' = [entries EXCEPT ![e] = NULL]
    \/ /\ Says("NO_EXIST") /\ UNCHANGED entries
       /\ \A e \in Present : e.key = k => OutOfPlace(e)

\* ZRANGE lists the entries with a score from min to max in order: at most
\* MaxResults of them, and what of the text does not fit is cut off.
ZRange(min, max) ==
    LET within == {e \in Present : min <= e.score /\ e.score <= max}
        found == AtMost(Cardinality(within), MaxResults)
    IN /\ answer' = [ret |-> "LIST", cut |-> found > ResultLines,
                     lines |-> [i \in 1..AtMost(found, ResultLines) |->
                                  <<Nth(within, i), entries[Nth(within, i)]>>]]
       /\ UNCHANGED entries

\* A command without its arguments.
Refused == Says("ERROR") /\ UNCHANGED entries

\* The set is not persisted.
Emptied == entries' = [e \in Entry |-> NULL] /\ Says("none")

SetNext ==
    \/ \E k \in Keys, v \in Values \cup {Missing}, s \in Scores : ZAdd(k, v, s)
    \/ \E k \in Keys : ZRem(k)
    \/ \E min, max \in Scores : ZRange(min, max)
    \/ Refused \/ Emptied

SetSpec == SetInit /\ [][SetNext]_setVars
=============================================================================
