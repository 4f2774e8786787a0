---------------------------- MODULE KvsSkiptable ----------------------------
(***************************************************************************)
(* The skip list of kvs_skiptable.c behind ZADD, ZREM and ZRANGE.  ZADD    *)
(* keeps it ordered by score and key, ZREM searches it by key alone.       *)
(*                                                                         *)
(* A node is named by its score and key, which never change.  The lock is  *)
(* left out: every path releases it, and one thread serves all commands.   *)
(*                                                                         *)
(* No malloc and no strdup is tested.  A node without memory ends the      *)
(* process at once, and a NULL key does with the first strcmp or strncpy   *)
(* of it: both are a new process to the clients, who see no difference     *)
(* before.  A NULL value stays in the list, as Missing, until it is        *)
(* replaced, removed or read.                                              *)
(***************************************************************************)
EXTENDS Integers, Sequences, FiniteSets, FiniteSetsExt

CONSTANTS Keys,      \* numbers in the order of strcmp
          Scores,    \* numbers; NaN, which atof also returns, is left out
          Values,
          Missing,   \* the NULL a strdup without memory leaves for a value
          NULL,      \* the end of a list; no node
          Garbage,   \* a pointer outside the node's array, or in freed memory
          SKIP_MAX_LEVEL,
          MAX_RESULTS,    \* entries ZRANGE collects: 100
          RESULT_LINES,   \* lines that fit into result
          MaxNodes        \* bound: nodes in the list

ASSUME SkipAssumption ==
    /\ Keys \subseteq Nat \ {0} /\ Scores \subseteq Int
    /\ SKIP_MAX_LEVEL \in Nat /\ {MAX_RESULTS, RESULT_LINES, MaxNodes} \subseteq Nat \ {0}

Levels == 0..SKIP_MAX_LEVEL
Node == [score : Scores, key : Keys]
header == [score |-> 0, key |-> 0]

\* What a node gets for the value of a ZADD: a copy, or what strdup left.
Copies == Values \cup {Missing}

ASSUME PointerAssumption == {NULL, Garbage} \cap Node = {} /\ NULL # Garbage /\ NULL \notin Copies

VARIABLES value,    \* of a node; NULL when it is not allocated
          forward,  \* forward[n][i]: the node after n on level i
          level, length,
          resp      \* the last answer

vars == <<value, forward, level, length, resp>>

Answer(r) == [ret |-> r, lines |-> <<>>, cut |-> FALSE]

NoNodes == [n \in Node |-> NULL]
OnlyHeader == [n \in Node \cup {header} |->
                 [i \in Levels |-> IF n = header THEN NULL ELSE Garbage]]

Init == /\ value = NoNodes /\ forward = OnlyHeader
        /\ level = 0 /\ length = 0 /\ resp = Answer("none")
-----------------------------------------------------------------------------
\* Where a walk along level i ends that starts at n and goes on while the next
\* node is one of those to pass.
Walk(i, n, passed) ==
    LET go[m \in Node \cup {header}] ==
          LET next == forward[m][i]
          IN IF next \in passed THEN go[next] ELSE m
    IN go[n]

\* The array update: where the walks end, each level's starting from the
\* one above.
Update(passed) ==
    LET ends[i \in 0..level] ==
          Walk(i, IF i = level THEN header ELSE ends[i + 1], passed)
    IN ends

\* A comparison of the scores alone.
PassedByScore(m, n) == m.score < n.score

\* The walk to n's place passes m.
PassedFor(m, n) == m.score < n.score \/ (m.score = n.score /\ m.key < n.key)

\* A limit tested after the increment.
HeightsTooHigh == 0..(SKIP_MAX_LEVEL + 1)

\* What randomLevel may return.
Heights == Levels

\* n on levels 0 to h, each time behind update[i]; above the list's level,
\* behind the header.
Inserted(n, h, update) ==
    LET behind(i) == IF i <= level THEN update[i] ELSE header
    IN [m \in DOMAIN forward |-> [i \in Levels |->
          IF m = n THEN IF i <= h THEN forward[behind(i)][i] ELSE Garbage
          ELSE IF i <= h /\ m = behind(i) THEN n ELSE forward[m][i]]]

\* A key that has the score already gets the copy v of the new value; with
\* another score it gets a second node.
kvs_skiptable_zadd(k, v, s) ==
    LET n == [score |-> s, key |-> k]
        update == Update({m \in Node : PassedFor(m, n)})
    IN  /\ value' = [value EXCEPT ![n] = v]
        /\ \/ /\ forward[update[0]][0] = n
              /\ resp' = Answer("EXIST") /\ UNCHANGED <<forward, level, length>>
           \/ /\ forward[update[0]][0] # n /\ length < MaxNodes
              /\ \E h \in Heights : /\ forward' = Inserted(n, h, update)
                                    /\ level' = Max({level, h})
              /\ length' = length + 1 /\ resp' = Answer("OK")

-----------------------------------------------------------------------------
\* An unlinking of the lowest level only.
LowestLevel(n, update) == {0}

\* The levels n is taken from: up to the first at which it does not follow
\* update[i].
LevelsOf(n, update) ==
    {i \in 0..level : \A j \in 0..i : forward[update[j]][j] = n}

Removed(n, update) ==
    [m \in DOMAIN forward |-> [i \in Levels |->
       IF m = n THEN Garbage
       ELSE IF i \in LevelsOf(n, update) /\ m = update[i] THEN forward[n][i]
       ELSE forward[m][i]]]

\* A list that never gets lower.
NotLowered(f) == level

\* Empty levels at the top are given up.
Lowered(f) == Max({0} \cup {i \in 1..level : f[header][i] # NULL})

\* The walk passes smaller keys, whatever their scores.
kvs_skiptable_zrem(k) ==
    LET update == Update({m \in Node : m.key < k})
        n == forward[update[0]][0]
        found == n # NULL /\ n.key = k
    IN \/ /\ found
          /\ value' = [value EXCEPT ![n] = NULL]
          /\ forward' = Removed(n, update) /\ level' = Lowered(forward')
          /\ length' = length - 1 /\ resp' = Answer("OK")
       \/ /\ ~found
          /\ resp' = Answer("NO_EXIST") /\ UNCHANGED <<value, forward, level, length>>

-----------------------------------------------------------------------------
\* The nodes of the list.
Live == {n \in Node : value[n] # NULL}

\* As much of s as there is room for.
Prefix(s, room) == SubSeq(s, 1, Min({Len(s), room}))

\* The entries from the first with a score of at least min to the last with
\* one of at most max; the loop stops at MAX_RESULTS.
kvs_skiptable_zrange_entries(min, max) ==
    LET collect[n \in Live \cup {header}] ==
          LET next == forward[n][0]
          IN IF next = NULL \/ next.score > max THEN <<>>
             ELSE <<<<next, value[next]>>>> \o collect[next]
    IN Prefix(collect[Walk(0, header, {m \in Node : m.score < min})], MAX_RESULTS)

\* snprintf stops at the end of result, in the middle of a line.
Printed(s) == [ret |-> "LIST", lines |-> Prefix(s, RESULT_LINES),
               cut |-> Len(s) > RESULT_LINES]

\* strncpy reads every value collected: one that is missing ends the process,
\* and there is no answer.
CMD_ZRANGE(min, max) ==
    /\ LET found == kvs_skiptable_zrange_entries(min, max)
       IN /\ \A i \in DOMAIN found : found[i][2] # Missing
          /\ resp' = Printed(found)
    /\ UNCHANGED <<value, forward, level, length>>

\* A ZADD, ZREM or ZRANGE whose packet lacks an argument.
MissingArgument ==
    resp' = Answer("ERROR") /\ UNCHANGED <<value, forward, level, length>>

\* A new process, after the old one died or was stopped: the sorted set is not
\* persisted.
kvs_skiptable_create ==
    /\ value' = NoNodes /\ forward' = OnlyHeader
    /\ level' = 0 /\ length' = 0 /\ resp' = Answer("none")

Next == \/ \E k \in Keys, v \in Copies, s \in Scores : kvs_skiptable_zadd(k, v, s)
        \/ \E k \in Keys : kvs_skiptable_zrem(k)
        \/ \E min, max \in Scores : CMD_ZRANGE(min, max)
        \/ MissingArgument \/ kvs_skiptable_create

Spec == Init /\ [][Next]_vars
-----------------------------------------------------------------------------
\* Types: the list's level stays within the header's array.
TypeOK == /\ value \in [Node -> Copies \cup {NULL}]
          /\ forward \in [Node \cup {header} -> [Levels -> Node \cup {NULL, Garbage}]]
          /\ level \in Levels /\ length \in Nat

\* The nodes whose array reaches level i.
On(i) == {n \in Live : forward[n][i] # Garbage}

\* m is the first node of S, NULL when there is none.
IsFirst(m, S) == IF S = {} THEN m = NULL
                 ELSE m \in S /\ \A n \in S : n = m \/ PassedFor(m, n)

\* Every level is the ordered list of exactly the nodes that reach it, after
\* any sequence of ZADD and ZREM with any random heights: although ZREM walks
\* by key and so may leave a level before or behind the place of the node it
\* removes, it never leaves a pointer to a freed node (kvs_skiptable.c:75-90).
LevelsLinked ==
    /\ On(0) = Live
    /\ \A i \in Levels : \A n \in On(i) \cup {header} :
          IsFirst(forward[n][i], {m \in On(i) : n = header \/ PassedFor(n, m)})

\* length counts the nodes, and level is the highest level in use: lower and
\* nodes would be out of reach of the upper levels, higher and every walk would
\* start on empty ones (kvs_skiptable.c:56-66, 91-93).
CountsMatch ==
    /\ length = Cardinality(Live)
    /\ level = Max({0} \cup {i \in Levels : On(i) # {}})

SortedSet == INSTANCE KvsSortedSet WITH
    entries <- value, answer <- resp,
    MaxResults <- MAX_RESULTS, ResultLines <- RESULT_LINES

\* ZADD, ZREM and ZRANGE answer and act as on a set of entries, whatever the
\* random heights: ZADD never misses an entry that is there, ZRANGE lists all
\* entries in order, and ZREM misses a key only if the order of the scores
\* contradicts that of the keys at all its entries (kvs_skiptable.c:39-145).
ImplementsSortedSet == SortedSet!SetSpec

\* kvstore.h:251 says that zadd updates the score of a key that exists: then a key
\* has one score, and so one node.
OneScorePerKey == \A m, n \in Live : m.key = n.key => m = n

\* kvstore.h:253 says that zrem returns -1 for a key that does not exist: then its
\* walk ends before a node of the key whenever there is one.
ZremFindsEveryKey ==
    \A n \in Live :
       LET found == forward[Update({m \in Node : m.key < n.key})[0]][0]
       IN found # NULL /\ found.key = n.key

\* At least one of these two statements of kvstore.h about zadd and zrem is true
\* of the list.  A list that violates this contradicts both at once.
AsDocumented == OneScorePerKey \/ ZremFindsEveryKey
=============================================================================
