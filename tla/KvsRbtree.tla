----------------------------- MODULE KvsRbtree -----------------------------
(***************************************************************************)
(* The red-black tree engine (kvs_rbtree.c).                               *)
(*                                                                         *)
(* A node is named by the key it holds and nil by 0, so when rbtree_delete *)
(* exchanges the keys and values of two nodes, the two names change        *)
(* places.  One iteration of a fixup loop is one step.  The code writes    *)
(* each rotation and each fixup twice, once per side; here the side is a   *)
(* parameter.  resp is the answer RSET and RGET give; the protocol has no  *)
(* command for del, mod and exist, whose results 0, 1 and below 0 are      *)
(* named in the same way.                                                  *)
(***************************************************************************)
EXTENDS Integers, FiniteSets

CONSTANTS Keys,           \* strings in the order of strcmp: positive numbers
          Values,         \* value strings
          NULL,           \* the null pointer; also "no answer yet"
          Lost,           \* the value of a node after a MOD without memory
          MallocMayFail,  \* kvs_malloc may return NULL
          MaxLost         \* bound: how many values may be lost at a time

ASSUME KeysAssumption == Keys \subseteq Nat \ {0}
ASSUME BoundAssumption == MaxLost \in Nat
ASSUME ValuesAssumption == {NULL, Lost} \cap Values = {} /\ NULL # Lost /\ NULL \notin Keys

nil == 0
Nodes == Keys \cup {nil}
Sides == {"left", "right"}
Other(s) == IF s = "left" THEN "right" ELSE "left"

VARIABLES T,     \* the tree: root, kid[side][node], parent and color of a node
          val,   \* the value of the node that holds a key
          pc,    \* "idle", or the fixup loop the thread is in
          z,     \* the node that loop is at
          up,    \* the process is running
          resp   \* the last answer

vars == <<T, val, pc, z, up, resp>>

Malloc == IF MallocMayFail THEN BOOLEAN ELSE {TRUE}
-----------------------------------------------------------------------------
\* Where n hangs under its parent; the code tests one side only.
SideOf(t, n) == IF n = t.kid["left"][t.parent[n]] THEN "left" ELSE "right"

\* c takes n's place under n's parent.
Replace(t, n, c) ==
    IF t.parent[n] = nil THEN [t EXCEPT !.root = c]
    ELSE [t EXCEPT !.kid[SideOf(t, n)][t.parent[n]] = c]

\* A rotation that does not tell the inner grandchild about its new parent.
RotateKeepsParent(t, x, s) ==
    LET y == t.kid[Other(s)][x]
        c == t.kid[s][y]
        r == Replace(t, x, y)
    IN [r EXCEPT !.kid[Other(s)][x] = c, !.kid[s][y] = x,
                 !.parent[y] = t.parent[x], !.parent[x] = y]

\* x goes below y, which gets the parent p, and c goes from y to x.
Turn(t, x, s, y, c, p) ==
    [t EXCEPT !.kid[Other(s)][x] = c, !.kid[s][y] = x,
              !.parent[y] = p, !.parent[x] = y,
              !.parent[c] = IF c = nil THEN @ ELSE x]

\* rbtree_left_rotate for s = "left", rbtree_right_rotate for s = "right":
\* x sinks to side s and its child on the other side takes its place.
Rotate(t, x, s) ==
    LET y == t.kid[Other(s)][x]
    IN Turn(Replace(t, x, y), x, s, y, t.kid[s][y], t.parent[x])

\* The search loops: the node that holds k, or nil, ...
rbtree_search(t, k) ==
    LET from[n \in Nodes] == IF n = nil \/ n = k THEN n
                             ELSE from[t.kid[IF k < n THEN "left" ELSE "right"][n]]
    IN from[t.root]

\* ... and the last node before nil on the way to k.
LastOnPath(t, k) ==
    LET from[n \in Nodes] ==
          LET c == t.kid[IF k < n THEN "left" ELSE "right"][n]
          IN IF n = nil \/ c = nil THEN n ELSE from[c]
    IN from[t.root]

\* rbtree_successor, called only for a node with two children.
rbtree_successor(t, n) ==
    LET mini[m \in Nodes] == IF t.kid["left"][m] = nil THEN m
                             ELSE mini[t.kid["left"][m]]
    IN mini[t.kid["right"][n]]

\* k is a node of colour h without children whose parent is p.
Leaf(t, k, p, h) == [t EXCEPT !.parent[k] = p, !.color[k] = h,
                              !.kid["left"][k] = nil, !.kid["right"][k] = nil]

\* rbtree_insert up to the call of the fixup.
Linked(t, k) ==
    LET y == LastOnPath(t, k)
        r == Leaf(t, k, y, "RED")
    IN IF y = nil THEN [r EXCEPT !.root = k]
       ELSE [r EXCEPT !.kid[IF k < y THEN "left" ELSE "right"][y] = k]

\* The names a and b change places.
Exchanged(t, a, b) ==
    LET N(n) == IF n = a THEN b ELSE IF n = b THEN a ELSE n
    IN [root   |-> N(t.root),
        kid    |-> [s \in Sides |-> [n \in Nodes |-> N(t.kid[s][N(n)])]],
        parent |-> [n \in Nodes |-> N(t.parent[N(n)])],
        color  |-> [n \in Nodes |-> t.color[N(n)]]]

\* rbtree_delete up to the call of the fixup: y is cut out and its child x
\* takes its place; y is the node itself or its successor.
CutNode(t, k) == IF t.kid["left"][k] = nil \/ t.kid["right"][k] = nil
                 THEN k ELSE rbtree_successor(t, k)
OnlyChild(t, y) == IF t.kid["left"][y] # nil THEN t.kid["left"][y]
                   ELSE t.kid["right"][y]
Freed(t, k) == Leaf(t, k, nil, "BLACK")

\* A deletion that cuts the successor out and forgets to keep its key.
UnlinkedSuccessor(t, k) ==
    LET y == CutNode(t, k)
        x == OnlyChild(t, y)
    IN Freed([Replace(t, y, x) EXCEPT !.parent[x] = t.parent[y]], y)

Unlinked(t, k) ==
    LET y == CutNode(t, k)
        x == OnlyChild(t, y)
    IN Freed(Exchanged([Replace(t, y, x) EXCEPT !.parent[x] = t.parent[y]], y, k), k)
-----------------------------------------------------------------------------
EmptyTree == [root   |-> nil,
              kid    |-> [s \in Sides |-> [n \in Nodes |-> nil]],
              parent |-> [n \in Nodes |-> nil],
              color  |-> [n \in Nodes |-> "BLACK"]]

Init == /\ T = EmptyTree /\ val = [k \in Keys |-> NULL]
        /\ pc = "idle" /\ z = nil /\ up = TRUE /\ resp = NULL

Ready == up /\ pc = "idle"
Return(r) == resp' = r /\ UNCHANGED up
Unchanged == UNCHANGED <<T, val, pc, z>>
Dies == up' = FALSE /\ resp' = resp

\* Absent arguments are refused; a node that cannot be allocated is written to
\* all the same; without memory for key or value the node is given up.  A key
\* that exists keeps its node, the new one is forgotten, and the result is 0
\* as for a new key.
kvs_rbtree_set(k, v) ==
    /\ Ready
    /\ \/ (k = NULL \/ v = NULL) /\ Return("ERROR") /\ Unchanged
       \/ /\ k # NULL /\ v # NULL /\ FALSE \in Malloc
          /\ Dies \/ Return("ERROR")
          /\ Unchanged
       \/ /\ k # NULL /\ v # NULL /\ rbtree_search(T, k) # nil
          /\ Return("OK") /\ Unchanged
       \/ /\ k # NULL /\ v # NULL /\ rbtree_search(T, k) = nil
          /\ T' = Linked(T, k) /\ val' = [val EXCEPT ![k] = v]
          /\ pc' = "insert_fixup" /\ z' = k
          /\ Return("OK")

\* The red uncle: the defect moves up two levels.
Recolored(t, n, g, y) ==
    [t EXCEPT !.color[t.parent[n]] = "BLACK", !.color[y] = "BLACK",
              !.color[g] = "RED"]

\* A loop that rotates and forgets to recolour.
StraightenedUncoloured(t, n, s) == Rotate(t, t.parent[t.parent[n]], Other(s))

\* A black uncle: at most two rotations on the side s of the grandparent.
Straightened(t, n, s) ==
    LET inner == n = t.kid[Other(s)][t.parent[n]]
        t1 == IF inner THEN Rotate(t, t.parent[n], s) ELSE t
        p  == t1.parent[IF inner THEN t.parent[n] ELSE n]
        g  == t1.parent[p]
    IN Rotate([t1 EXCEPT !.color[p] = "BLACK", !.color[g] = "RED"], g, Other(s))

rbtree_insert_fixup ==
    /\ pc = "insert_fixup" /\ UNCHANGED <<val, up, resp>>
    /\ LET p == T.parent[z]
           g == T.parent[p]
           s == SideOf(T, p)
           y == T.kid[Other(s)][g]
       IN \/ /\ T.color[p] = "RED" /\ T.color[y] = "RED"
             /\ T' = Recolored(T, z, g, y) /\ z' = g /\ UNCHANGED pc
          \/ /\ T.color[p] = "RED" /\ T.color[y] = "BLACK"
             /\ T' = Straightened(T, z, s) /\ UNCHANGED pc
             /\ z' = IF z = T.kid[Other(s)][p] THEN p ELSE z
          \/ /\ T.color[p] = "BLACK"
             /\ T' = [T EXCEPT !.color[T.root] = "BLACK"]
             /\ pc' = "idle" /\ z' = nil

\* A get that does not test the value for NULL.
GetUnchecked(k) ==
    /\ Ready /\ Unchanged
    /\ Return(IF k = NULL \/ rbtree_search(T, k) = nil THEN "NO_EXIST" ELSE val[k])

\* An absent key reads as NULL, and so does one whose value is lost.
kvs_rbtree_get(k) ==
    /\ Ready /\ Unchanged
    /\ Return(IF k = NULL \/ rbtree_search(T, k) = nil \/ val[k] = Lost
              THEN "NO_EXIST" ELSE val[k])

\* Another MOD may fail without exceeding the bound.
MayLose == Cardinality({k \in Keys : val[k] = Lost}) < MaxLost

\* The old value is freed before there is memory for the new one.
kvs_rbtree_mod(k, v) ==
    /\ Ready /\ UNCHANGED <<T, pc, z>>
    /\ \/ (k = NULL \/ v = NULL) /\ Return("ERROR") /\ UNCHANGED val
       \/ /\ k # NULL /\ v # NULL /\ rbtree_search(T, k) = nil
          /\ Return("NO_EXIST") /\ UNCHANGED val
       \/ /\ k # NULL /\ v # NULL /\ rbtree_search(T, k) # nil
          /\ \E ok \in Malloc :
                /\ ok \/ MayLose
                /\ val' = [val EXCEPT ![k] = IF ok THEN v ELSE Lost]
                /\ Return(IF ok THEN "OK" ELSE "ERROR")

kvs_rbtree_exist(k) ==
    /\ Ready /\ Unchanged
    /\ Return(IF k = NULL THEN "ERROR"
              ELSE IF rbtree_search(T, k) = nil THEN "NO_EXIST" ELSE "EXIST")

\* A deletion that repairs after the wrong colour.
NeedsFixupRed(c) == c = "RED"

\* Only the loss of a black node needs repair.
NeedsFixup(c) == c = "BLACK"

\* For an absent key the search returns nil, not NULL, and nil is deleted: its
\* links were never set, and following them ends the process.
kvs_rbtree_del(k) ==
    /\ Ready
    /\ \/ k = NULL /\ Return("ERROR") /\ Unchanged
       \/ k # NULL /\ rbtree_search(T, k) = nil /\ Dies /\ Unchanged
       \/ /\ k # NULL /\ rbtree_search(T, k) # nil
          /\ T' = Unlinked(T, k) /\ val' = [val EXCEPT ![k] = NULL]
          /\ z' = OnlyChild(T, CutNode(T, k))
          /\ pc' = IF NeedsFixup(T.color[CutNode(T, k)]) THEN "delete_fixup" ELSE "free"
          /\ Return("OK")

\* The sibling w of z on the other side of p is made black ...
BlackSibling(t, p, s) ==
    LET w == t.kid[Other(s)][p]
    IN IF t.color[w] = "BLACK" THEN t
       ELSE Rotate([t EXCEPT !.color[w] = "BLACK", !.color[p] = "RED"], p, s)

\* ... and, unless both its children are black, given a red outer child, whose
\* blackening pays for the missing black node.
Repaid(t, p, s) ==
    LET o  == Other(s)
        w  == t.kid[o][p]
        t2 == IF t.color[t.kid[o][w]] = "RED" THEN t
              ELSE Rotate([t EXCEPT !.color[t.kid[s][w]] = "BLACK",
                                    !.color[w] = "RED"], w, o)
        w2 == t2.kid[o][p]
    IN Rotate([t2 EXCEPT !.color[w2] = t2.color[p], !.color[p] = "BLACK",
                         !.color[t2.kid[o][w2]] = "BLACK"], p, s)

rbtree_delete_fixup ==
    /\ pc = "delete_fixup" /\ UNCHANGED <<val, up, resp>>
    /\ \/ /\ z # T.root /\ T.color[z] = "BLACK" /\ UNCHANGED pc
          /\ LET p == T.parent[z]
                 s == SideOf(T, z)
                 t == BlackSibling(T, p, s)
                 w == t.kid[Other(s)][p]
             IN \/ /\ \A c \in Sides : t.color[t.kid[c][w]] = "BLACK"
                   /\ T' = [t EXCEPT !.color[w] = "RED"] /\ z' = p
                \/ /\ \E c \in Sides : t.color[t.kid[c][w]] = "RED"
                   /\ T' = Repaid(t, p, s) /\ z' = T'.root
       \/ /\ z = T.root \/ T.color[z] = "RED"
          /\ T' = [T EXCEPT !.color[z] = "BLACK"]
          /\ pc' = "free" /\ UNCHANGED z

\* free() of the node that was cut out: it aborts when the node is a chunk of
\* the pool, and succeeds when kvs_malloc had to take it from malloc.
FreeNode ==
    /\ pc = "free" /\ pc' = "idle" /\ z' = nil
    /\ UNCHANGED <<T, val, resp>>
    /\ up' \in BOOLEAN

\* The process is started again.
kvs_rbtree_create ==
    /\ ~up /\ up' = TRUE /\ resp' = NULL
    /\ T' = EmptyTree /\ val' = [k \in Keys |-> NULL] /\ UNCHANGED <<pc, z>>

Fixup == rbtree_insert_fixup \/ rbtree_delete_fixup \/ FreeNode

Next == \/ \E k \in Keys \cup {NULL}, v \in Values \cup {NULL} :
              kvs_rbtree_set(k, v) \/ kvs_rbtree_mod(k, v)
        \/ \E k \in Keys \cup {NULL} :
              kvs_rbtree_get(k) \/ kvs_rbtree_del(k) \/ kvs_rbtree_exist(k)
        \/ Fixup \/ kvs_rbtree_create

Spec == Init /\ [][Next]_vars

\* The thread goes on with an operation it has begun.
FairSpec == Spec /\ WF_vars(Fixup)
-----------------------------------------------------------------------------
\* Types: every link is a node or nil.
TypeOK == /\ T \in [root : Nodes, kid : [Sides -> [Nodes -> Nodes]],
                    parent : [Nodes -> Nodes], color : [Nodes -> {"RED", "BLACK"}]]
          /\ val \in [Keys -> Values \cup {NULL, Lost}]
          /\ pc \in {"idle", "insert_fixup", "delete_fixup", "free"}
          /\ z \in Nodes /\ up \in BOOLEAN
          /\ resp \in {"OK", "ERROR", "EXIST", "NO_EXIST", NULL} \cup Values

\* The nodes of the subtree under n.
Under(t) == LET under[n \in Nodes] == IF n = nil THEN {}
                  ELSE {n} \cup under[t.kid["left"][n]] \cup under[t.kid["right"][n]]
            IN under
InTree(t) == Under(t)[t.root]

\* Between any two steps of an operation, rotations included, the tree is a
\* search tree whose child and parent links agree: no node is lost, reached
\* twice or left on the wrong side (kvs_rbtree.c:40-83, 251-299).
SearchTree ==
    /\ T.root = nil \/ T.parent[T.root] = nil
    /\ \A n \in InTree(T) :
          /\ \A s \in Sides : T.kid[s][n] # nil => T.parent[T.kid[s][n]] = n
          /\ \A m \in Under(T)[T.kid["left"][n]] : m < n
          /\ \A m \in Under(T)[T.kid["right"][n]] : m > n

\* delete_fixup counts the node it is at twice.
Extra(c, n) == IF pc = "delete_fixup" /\ c = z /\ T.parent[z] = n THEN 1 ELSE 0

BlackNodes ==
    LET below[n \in Nodes] ==
          IF n = nil THEN 0
          ELSE (IF T.color[n] = "BLACK" THEN 1 ELSE 0)
               + below[T.kid["left"][n]] + Extra(T.kid["left"][n], n)
    IN below

\* The colour rules hold all through the fixup loops, except at the node a loop
\* is at: nil is black, no red node has a red child, and all ways down from a
\* node meet the same number of black nodes; when the operation is over they
\* hold everywhere, and so searches stay logarithmic (kvs_rbtree.c:85-249).
ColourRules ==
    LET current == IF pc \in {"insert_fixup", "delete_fixup"} THEN {z} ELSE {}
    IN /\ T.color[nil] = "BLACK"
       /\ T.color[T.root] = "BLACK" \/ T.root \in current
       /\ \A n \in InTree(T) :
             /\ \A s \in Sides :
                   T.color[n] = "RED" /\ {n, T.kid[s][n]} \cap current = {}
                     => T.color[T.kid[s][n]] = "BLACK"
             /\ BlackNodes[T.kid["left"][n]] + Extra(T.kid["left"][n], n)
                  = BlackNodes[T.kid["right"][n]] + Extra(T.kid["right"][n], n)

\* The map the tree stands for.
DictOf(t, v) == LET S == InTree(t) IN [k \in Keys |-> IF k \in S THEN v[k] ELSE NULL]

Dict == INSTANCE KvsDict WITH dict <- DictOf(T, val), intact <- TRUE,
                              ExistAnswer <- "OK"

\* The engine is a map in which the first value stays: no rotation, recolouring
\* or exchange of keys changes what RGET finds, and an RSET of a key that exists
\* answers OK without storing its value (kvs_rbtree.c:476-551).
ImplementsDict == Dict!DictSpec

\* Every insertion and deletion comes to its end: the fixup loops terminate.
FixupEnds == (pc # "idle") ~> (pc = "idle")
=============================================================================
