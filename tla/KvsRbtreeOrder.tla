--------------------------- MODULE KvsRbtreeOrder ---------------------------
(***************************************************************************)
(* What the steps of KvsRbtree do to the order of the keys, for any finite *)
(* or infinite set of keys.  U[n] stands for the keys under node n, which  *)
(* the code does not keep.  A tree with such a U is Good: going down it    *)
(* ends, the search loop finds a key if and only if it is in the tree, and *)
(* a rotation, the linking of a new node and the deletion with its         *)
(* exchange of keys keep it Good and add or remove no other key.  A        *)
(* rotation does so only where the child that takes the node's place is    *)
(* not nil; KvsRbtreeProofs shows that the loops rotate nowhere else.      *)
(***************************************************************************)
EXTENDS KvsRbtree, FiniteSetTheorems, WellFoundedInduction, NaturalsInduction, TLAPS

Tree == [root : Nodes, kid : [Sides -> [Nodes -> Nodes]],
         parent : [Nodes -> Nodes], color : [Nodes -> {"RED", "BLACK"}]]

\* m belongs on side s of n.
On(s, m, n) == IF s = "left" THEN m < n ELSE m > n

\* t is a search tree, and U[n] the keys under n.
Good(t, U) ==
    /\ t \in Tree /\ U \in [Nodes -> SUBSET Keys] /\ U[nil] = {}
    /\ \A n \in Nodes : IsFiniteSet(U[n])
    /\ \A s \in Sides : t.kid[s][nil] = nil
    /\ \A n \in Keys : \A s \in Sides :
          /\ U[n] = {n} \cup U[t.kid[s][n]] \cup U[t.kid[Other(s)][n]]
          /\ \A m \in U[t.kid[s][n]] : On(s, m, n)
          /\ t.kid[s][n] # nil => t.parent[t.kid[s][n]] = n
    /\ \A n \in Keys \ U[t.root] : \A s \in Sides : t.kid[s][n] = nil
    /\ t.root = nil \/ t.parent[t.root] = nil

-----------------------------------------------------------------------------
\* The two sides and the order of the keys.

LEMMA SideFacts ==
    /\ \A s \in Sides : /\ Other(s) \in Sides /\ Other(s) # s /\ Other(Other(s)) = s
                        /\ \A a \in Sides : a = s \/ a = Other(s)
    /\ "left" \in Sides /\ "right" \in Sides
    /\ Other("left") = "right" /\ Other("right") = "left"
BY DEF Sides, Other

LEMMA KeyFacts ==
    /\ nil \notin Keys /\ Nodes = Keys \cup {nil}
    /\ \A k \in Keys : k \in Nat /\ k # nil
BY KeysAssumption DEF nil, Nodes

LEMMA OnFacts ==
    ASSUME NEW s \in Sides
    PROVE  /\ \A a \in Keys : ~On(s, a, a)
           /\ \A a, b \in Keys : On(s, a, b) => ~On(s, b, a)
           /\ \A a, b \in Keys : On(Other(s), a, b) <=> On(s, b, a)
           /\ \A a, b \in Keys : a = b \/ On(s, a, b) \/ On(s, b, a)
           /\ \A a, b, c \in Keys : On(s, a, b) /\ On(s, b, c) => On(s, a, c)
<1>1. s = "left" \/ s = "right"
  BY DEF Sides
<1>2. \A a \in Keys : a \in Nat
  BY KeyFacts
<1> QED BY <1>1, <1>2 DEF On, Other

-----------------------------------------------------------------------------
\* The parts of a search tree.

LEMMA TreeFacts ==
    ASSUME NEW t \in Tree
    PROVE  /\ t.root \in Nodes
           /\ \A s \in Sides : t.kid[s] \in [Nodes -> Nodes]
           /\ \A s \in Sides : \A n \in Nodes : t.kid[s][n] \in Nodes
           /\ t.kid \in [Sides -> [Nodes -> Nodes]]
           /\ t.parent \in [Nodes -> Nodes]
           /\ \A n \in Nodes : t.parent[n] \in Nodes
           /\ t.color \in [Nodes -> {"RED", "BLACK"}]
           /\ \A n \in Nodes : t.color[n] = "RED" \/ t.color[n] = "BLACK"
BY DEF Tree

LEMMA GoodFacts ==
    ASSUME NEW t, NEW U, Good(t, U)
    PROVE  /\ t \in Tree /\ U \in [Nodes -> SUBSET Keys] /\ U[nil] = {}
           /\ \A n \in Nodes : IsFiniteSet(U[n])
           /\ \A n \in Nodes : U[n] \subseteq Keys
           /\ \A s \in Sides : t.kid[s][nil] = nil
           /\ \A n \in Keys \ U[t.root] : \A s \in Sides : t.kid[s][n] = nil
           /\ t.root = nil \/ t.parent[t.root] = nil
BY DEF Good

LEMMA Around ==
    ASSUME NEW t, NEW U, Good(t, U), NEW n \in Keys, NEW s \in Sides
    PROVE  /\ t.kid[s][n] \in Nodes /\ t.kid[Other(s)][n] \in Nodes
           /\ U[n] = {n} \cup U[t.kid[s][n]] \cup U[t.kid[Other(s)][n]]
           /\ \A m \in U[t.kid[s][n]] : On(s, m, n) /\ m \in Keys /\ m # n
           /\ \A m \in U[t.kid[Other(s)][n]] : On(s, n, m) /\ m \in Keys /\ m # n
           /\ U[t.kid[s][n]] \cap U[t.kid[Other(s)][n]] = {}
           /\ t.kid[s][n] # nil => t.parent[t.kid[s][n]] = n
           /\ t.kid[s][n] # n
           /\ t.kid[s][n] # nil => t.kid[s][n] # t.kid[Other(s)][n]
           /\ n \in U[n]
           /\ t.kid[s][n] # nil => t.kid[s][n] \in U[t.kid[s][n]]
<1>1. t \in Tree /\ U \in [Nodes -> SUBSET Keys] /\ n \in Nodes /\ Other(s) \in Sides /\ n # nil
  BY SideFacts, KeyFacts DEF Good
<1>2. t.kid[s][n] \in Nodes /\ t.kid[Other(s)][n] \in Nodes
  BY <1>1, TreeFacts
<1>3. U[n] = {n} \cup U[t.kid[s][n]] \cup U[t.kid[Other(s)][n]]
  BY DEF Good
<1>4. \A m \in U[t.kid[s][n]] : On(s, m, n) /\ m \in Keys
  BY <1>1, <1>2 DEF Good
<1>5. \A m \in U[t.kid[Other(s)][n]] : On(Other(s), m, n) /\ m \in Keys
  BY <1>1, <1>2 DEF Good
<1>6. \A m \in U[t.kid[Other(s)][n]] : On(s, n, m)
  BY <1>5, OnFacts
<1>7. n \notin U[t.kid[s][n]] /\ n \notin U[t.kid[Other(s)][n]]
  BY <1>4, <1>6, OnFacts
<1>8. U[t.kid[s][n]] \cap U[t.kid[Other(s)][n]] = {}
  BY <1>4, <1>6, OnFacts
<1>9. t.kid[s][n] # nil => t.parent[t.kid[s][n]] = n
  BY DEF Good
<1>10. \A m \in Keys : m \in U[m]
  BY SideFacts DEF Good
<1>11. t.kid[s][n] # nil => t.kid[s][n] \in U[t.kid[s][n]]
  BY <1>2, <1>10, KeyFacts
<1>12. t.kid[s][n] # n
  BY <1>1, <1>7, <1>11
<1>13. t.kid[s][n] # nil => t.kid[s][n] # t.kid[Other(s)][n]
  BY <1>8, <1>11
<1> QED BY <1>2, <1>3, <1>4, <1>5, <1>6, <1>7, <1>8, <1>9, <1>11, <1>12, <1>13

-----------------------------------------------------------------------------
\* Going down a search tree ends.

LEMMA Smallest ==
    ASSUME NEW S \in SUBSET Nat, S # {} PROVE \E x \in S : \A y \in S : x <= y
<1>1. \E x \in S : \A y \in S : ~(<<y, x>> \in OpToRel(<, Nat))
  BY NatLessThanWellFounded, WFMin
<1>2. PICK x \in S : \A y \in S : ~(<<y, x>> \in OpToRel(<, Nat))
  BY <1>1
<1>3. \A y \in S : ~(y < x)
  BY <1>2, Zenon DEF OpToRel
<1> QED BY <1>3

\* Of some nodes there is one that has none of them as a child.
LEMMA Lowest ==
    ASSUME NEW t, NEW U, Good(t, U), NEW S \in SUBSET Nodes, S # {}
    PROVE  \E n \in S : n = nil \/ \A s \in Sides : t.kid[s][n] \notin S
<1> DEFINE C == {Cardinality(U[n]) : n \in S}
<1>1. \A n \in Nodes : Cardinality(U[n]) \in Nat
  BY GoodFacts, FS_CardinalityType
<1>2. C \in SUBSET Nat /\ C # {}
  BY <1>1
<1>3. \E x \in C : \A y \in C : x <= y
  <2> HIDE DEF C
  <2> QED BY <1>2, Smallest
<1>4. PICK n \in S : \A m \in S : Cardinality(U[n]) <= Cardinality(U[m])
  BY <1>3
<1>5. ASSUME n # nil, NEW s \in Sides, t.kid[s][n] \in S PROVE FALSE
  <2>1. n \in Keys
    BY <1>5, KeyFacts
  <2> DEFINE c == t.kid[s][n]
  <2>2. c \in Nodes /\ U[c] \subseteq U[n] /\ n \notin U[c] /\ n \in U[n]
    BY <2>1, Around
  <2>3. IsFiniteSet(U[n]) /\ IsFiniteSet(U[c])
    BY <2>2, GoodFacts
  <2>4. Cardinality(U[c]) <= Cardinality(U[n]) /\ Cardinality(U[c]) # Cardinality(U[n])
    BY <2>2, <2>3, FS_Subset
  <2> QED BY <1>1, <1>4, <1>5, <2>2, <2>4
<1> QED BY <1>5

\* What is under a node under n is under n.
LEMMA Within ==
    ASSUME NEW t, NEW U, Good(t, U), NEW n \in Nodes, NEW m \in U[n]
    PROVE  U[m] \subseteq U[n] /\ m \in Keys
<1> DEFINE S == {a \in Nodes : \E b \in U[a] : ~(U[b] \subseteq U[a])}
<1>1. S = {}
  <2>1. SUFFICES ASSUME S # {} PROVE FALSE
    OBVIOUS
  <2>2. PICK a \in S : a = nil \/ \A s \in Sides : t.kid[s][a] \notin S
    <3> S \in SUBSET Nodes
      OBVIOUS
    <3> HIDE DEF S
    <3> QED BY <2>1, Lowest
  <2>3. PICK b \in U[a] : ~(U[b] \subseteq U[a])
    OBVIOUS
  <2>4. a \in Keys /\ b # a
    BY <2>3, GoodFacts, KeyFacts
  <2>5. PICK s \in Sides : b \in U[t.kid[s][a]]
    BY <2>3, <2>4, Around, SideFacts
  <2>6. U[t.kid[s][a]] \subseteq U[a] /\ t.kid[s][a] \in Nodes
    BY <2>4, Around
  <2>7. t.kid[s][a] \notin S
    BY <2>2, <2>4, KeyFacts
  <2> QED BY <2>3, <2>5, <2>6, <2>7
<1> QED BY <1>1, GoodFacts

\* Every node under m but m itself is a child of a node under m.
LEMMA HasParent ==
    ASSUME NEW t, NEW U, Good(t, U), NEW m \in Nodes, NEW n \in U[m], n # m
    PROVE  \E p \in U[m] : \E s \in Sides : t.kid[s][p] = n
<1> DEFINE S == {a \in Nodes : /\ n \in U[a] /\ n # a
                               /\ ~\E p \in U[a] : \E s \in Sides : t.kid[s][p] = n}
<1>1. S = {}
  <2>1. SUFFICES ASSUME S # {} PROVE FALSE
    OBVIOUS
  <2>2. PICK a \in S : a = nil \/ \A s \in Sides : t.kid[s][a] \notin S
    <3> S \in SUBSET Nodes
      OBVIOUS
    <3> HIDE DEF S
    <3> QED BY <2>1, Lowest
  <2>3. a \in Keys
    BY GoodFacts, KeyFacts
  <2>4. PICK s \in Sides : n \in U[t.kid[s][a]]
    BY <2>3, Around, SideFacts
  <2>5. U[t.kid[s][a]] \subseteq U[a] /\ t.kid[s][a] \in Nodes /\ a \in U[a]
    BY <2>3, Around
  <2>6. t.kid[s][a] \notin S
    BY <2>2, <2>3, KeyFacts
  <2>7. t.kid[s][a] # n
    BY <2>5
  <2> QED BY <2>4, <2>5, <2>6, <2>7
<1> QED BY <1>1

\* The children of a node of the tree are nodes of the tree.
LEMMA KidsInTree ==
    ASSUME NEW t, NEW U, Good(t, U), NEW n \in Nodes, NEW s \in Sides, t.kid[s][n] # nil
    PROVE  /\ n \in U[t.root] /\ t.kid[s][n] \in U[t.root]
           /\ n \in Keys /\ t.kid[s][n] \in Keys /\ U[n] \subseteq U[t.root]
           /\ t.parent[t.kid[s][n]] = n
<1>1. n \in Keys /\ t.root \in Nodes
  BY GoodFacts, KeyFacts, TreeFacts
<1>2. n \in U[t.root]
  BY <1>1, GoodFacts
<1>3. U[n] \subseteq U[t.root]
  BY <1>1, <1>2, Within
<1>4. t.kid[s][n] \in U[n] /\ t.parent[t.kid[s][n]] = n
  BY <1>1, Around
<1> QED BY <1>1, <1>2, <1>3, <1>4, GoodFacts

\* Where a node of the tree hangs.
LEMMA Hangs ==
    ASSUME NEW t, NEW U, Good(t, U), NEW n \in U[t.root]
    PROVE  /\ n \in Keys /\ U[n] \subseteq U[t.root]
           /\ n = t.root => t.parent[n] = nil
           /\ n # t.root => /\ t.parent[n] \in U[t.root] /\ t.parent[n] \in Keys
                            /\ SideOf(t, n) \in Sides
                            /\ t.kid[SideOf(t, n)][t.parent[n]] = n
           /\ \A m \in Nodes : \A s \in Sides :
                 t.kid[s][m] = n <=> n # t.root /\ m = t.parent[n] /\ s = SideOf(t, n)
<1>1. n \in Keys /\ t.root \in Nodes /\ U[n] \subseteq U[t.root] /\ n # nil
  BY GoodFacts, Within, KeyFacts, TreeFacts
<1>2. n = t.root => t.parent[n] = nil
  BY <1>1, GoodFacts
<1>3. ASSUME NEW m \in Nodes, NEW s \in Sides, t.kid[s][m] = n
      PROVE  n # t.root /\ m = t.parent[n] /\ s = SideOf(t, n) /\ m \in U[t.root] /\ m \in Keys
  <2>1. m \in U[t.root] /\ m \in Keys /\ t.parent[n] = m
    BY <1>1, <1>3, KidsInTree
  <2>2. n # t.root
    BY <1>2, <2>1, KeyFacts
  <2>3. s = SideOf(t, n)
    <3>1. t.kid[Other(s)][m] # n
      BY <1>1, <1>3, <2>1, Around
    <3> QED BY <1>3, <2>1, <3>1 DEF SideOf, Sides, Other
  <2> QED BY <2>1, <2>2, <2>3
<1>4. ASSUME n # t.root
      PROVE  \E m \in U[t.root] : \E s \in Sides : t.kid[s][m] = n
  BY <1>1, <1>4, HasParent
<1>5. U[t.root] \subseteq Nodes
  BY <1>1, GoodFacts, KeyFacts
<1>6. ASSUME n # t.root
      PROVE  /\ t.parent[n] \in U[t.root] /\ t.parent[n] \in Keys
             /\ SideOf(t, n) \in Sides
             /\ t.kid[SideOf(t, n)][t.parent[n]] = n
  BY <1>3, <1>4, <1>5, <1>6
<1> QED BY <1>1, <1>2, <1>3, <1>6

-----------------------------------------------------------------------------
\* What the operators on trees do to the fields.

LEMMA OneLink ==
    ASSUME NEW f \in [Sides -> [Nodes -> Nodes]], NEW a \in Sides, NEW p \in Nodes,
           NEW c \in Nodes, NEW g, g = [f EXCEPT ![a][p] = c]
    PROVE  /\ g \in [Sides -> [Nodes -> Nodes]]
           /\ \A b \in Sides : \A m \in Nodes :
                 g[b][m] = IF m = p /\ b = a THEN c ELSE f[b][m]
<1>1. g[a] = [f[a] EXCEPT ![p] = c] /\ \A b \in Sides : b # a => g[b] = f[b]
  OBVIOUS
<1>2. \A b \in Sides : g[b] \in [Nodes -> Nodes]
  BY <1>1
<1>3. g \in [Sides -> [Nodes -> Nodes]]
  BY <1>2
<1>4. ASSUME NEW b \in Sides, NEW m \in Nodes
      PROVE  g[b][m] = IF m = p /\ b = a THEN c ELSE f[b][m]
  <2>1. f[b] \in [Nodes -> Nodes] /\ f[a] \in [Nodes -> Nodes]
    OBVIOUS
  <2>2. CASE b = a
    BY <1>1, <2>1, <2>2
  <2>3. CASE b # a
    BY <1>1, <2>3
  <2> QED BY <2>2, <2>3
<1> QED BY <1>3, <1>4

\* r is t with c in the place of n.
IsReplaced(t, r, n, c) ==
    /\ r \in Tree /\ r.parent = t.parent /\ r.color = t.color
    /\ r.root = IF t.root = n THEN c ELSE t.root
    /\ \A a \in Sides : \A m \in Nodes :
          r.kid[a][m] = IF t.kid[a][m] = n THEN c ELSE t.kid[a][m]

LEMMA ReplaceIs ==
    ASSUME NEW t, NEW U, Good(t, U), NEW n \in U[t.root], NEW c \in Nodes
    PROVE  IsReplaced(t, Replace(t, n, c), n, c)
<1> DEFINE r == Replace(t, n, c)
<1>1. t \in Tree /\ n \in Keys /\ n \in Nodes
  BY GoodFacts, Hangs, KeyFacts
<1>2. CASE n = t.root
  <2>1. r = [t EXCEPT !.root = c]
    BY <1>2, Hangs DEF Replace
  <2>2. r \in Tree /\ r.parent = t.parent /\ r.color = t.color /\ r.root = c /\ r.kid = t.kid
    BY <1>1, <2>1 DEF Tree
  <2>3. \A a \in Sides : \A m \in Nodes : t.kid[a][m] # n
    BY <1>2, Hangs
  <2> QED BY <1>2, <2>2, <2>3 DEF IsReplaced
<1>3. CASE n # t.root
  <2> DEFINE p == t.parent[n]
             a == SideOf(t, n)
  <2>1. p \in Keys /\ p # nil /\ a \in Sides /\ p \in Nodes
    BY <1>3, Hangs, KeyFacts
  <2>2. r = [t EXCEPT !.kid[a][p] = c]
    BY <2>1 DEF Replace
  <2>3. \A b \in Sides : \A m \in Nodes : t.kid[b][m] = n <=> m = p /\ b = a
    BY <1>3, Hangs
  <2> HIDE DEF p, a, r
  <2>4. /\ r.kid = [t.kid EXCEPT ![a][p] = c] /\ r.root = t.root
        /\ r.parent = t.parent /\ r.color = t.color
    BY <1>1, <2>1, <2>2 DEF Tree
  <2>5. r \in Tree
    BY <1>1, <2>1, <2>2 DEF Tree
  <2>6. \A b \in Sides : \A m \in Nodes :
           r.kid[b][m] = IF m = p /\ b = a THEN c ELSE t.kid[b][m]
    <3>1. t.kid \in [Sides -> [Nodes -> Nodes]] /\ r.kid = [t.kid EXCEPT ![a][p] = c]
      BY <1>1, <2>4, TreeFacts
    <3> QED BY <2>1, <3>1, OneLink
  <2>7. IsReplaced(t, r, n, c)
    BY <1>3, <2>3, <2>4, <2>5, <2>6 DEF IsReplaced
  <2> QED BY <2>7 DEF r
<1> QED BY <1>2, <1>3

\* r is t with x and its child y turned to side s; c changes its parent.
IsRotated(t, r, x, s, y, c) ==
    /\ r \in Tree /\ r.color = t.color
    /\ r.root = IF t.root = x THEN y ELSE t.root
    /\ \A a \in Sides : \A n \in Nodes :
          r.kid[a][n] = IF n = x /\ a = Other(s) THEN c
                        ELSE IF n = y /\ a = s THEN x
                        ELSE IF t.kid[a][n] = x THEN y ELSE t.kid[a][n]
    /\ \A n \in Nodes :
          r.parent[n] = IF n = y THEN t.parent[x] ELSE IF n = x THEN y
                        ELSE IF n = c /\ c # nil THEN x ELSE t.parent[n]

IsTurned(t, r, x, s, y, c, d) ==
    /\ r \in Tree /\ r.root = t.root /\ r.color = t.color
    /\ \A a \in Sides : \A n \in Nodes :
          r.kid[a][n] = IF n = x /\ a = Other(s) THEN c
                        ELSE IF n = y /\ a = s THEN x ELSE t.kid[a][n]
    /\ \A n \in Nodes :
          r.parent[n] = IF n = y THEN d ELSE IF n = x THEN y
                        ELSE IF n = c /\ c # nil THEN x ELSE t.parent[n]

LEMMA TurnIs ==
    ASSUME NEW t \in Tree, NEW s \in Sides, NEW x \in Nodes, NEW c \in Nodes,
           NEW y \in Nodes, NEW d \in Nodes, x # y, x # c, y # c, NEW r,
           r = Turn(t, x, s, y, c, d)
    PROVE  IsTurned(t, r, x, s, y, c, d)
<1>1. Other(s) \in Sides /\ Other(s) # s
  BY SideFacts
<1>2. r.root = t.root /\ r.color = t.color
  BY <1>1 DEF Tree, Turn
<1>3. r.kid = [t.kid EXCEPT ![Other(s)][x] = c, ![s][y] = x]
  BY <1>1 DEF Tree, Turn
<1>4. r.parent = [t.parent EXCEPT ![y] = d, ![x] = y, ![c] = IF c = nil THEN @ ELSE x]
  BY <1>1 DEF Tree, Turn
<1>5. r = [root |-> r.root, kid |-> r.kid, parent |-> r.parent, color |-> r.color]
  BY <1>1 DEF Tree, Turn
<1>6. r \in Tree
  BY <1>1, <1>2, <1>3, <1>4, <1>5 DEF Tree
<1>7. \A a \in Sides : \A n \in Nodes :
         r.kid[a][n] = IF n = x /\ a = Other(s) THEN c
                       ELSE IF n = y /\ a = s THEN x ELSE t.kid[a][n]
  <2> DEFINE f == [t.kid EXCEPT ![Other(s)][x] = c]
  <2>1. r.kid = [f EXCEPT ![s][y] = x]
    BY <1>1, <1>3
  <2>2. t.kid \in [Sides -> [Nodes -> Nodes]]
    BY TreeFacts
  <2>3. /\ f \in [Sides -> [Nodes -> Nodes]]
        /\ \A a \in Sides : \A n \in Nodes :
              f[a][n] = IF n = x /\ a = Other(s) THEN c ELSE t.kid[a][n]
    BY <1>1, <2>2, OneLink
  <2> HIDE DEF f
  <2>4. \A a \in Sides : \A n \in Nodes :
           r.kid[a][n] = IF n = y /\ a = s THEN x ELSE f[a][n]
    BY <2>1, <2>3, OneLink
  <2> QED BY <1>1, <2>3, <2>4
<1>8. \A n \in Nodes :
         r.parent[n] = IF n = y THEN d ELSE IF n = x THEN y
                       ELSE IF n = c /\ c # nil THEN x ELSE t.parent[n]
  BY <1>4, TreeFacts
<1> QED BY <1>2, <1>6, <1>7, <1>8 DEF IsTurned

\* The nodes a rotation turns.
Turned(t, U, x, s, y, c) ==
    /\ x \in U[t.root] /\ s \in Sides /\ y = t.kid[Other(s)][x] /\ y # nil
    /\ c = t.kid[s][y]

LEMMA TurnedFacts ==
    ASSUME NEW t, NEW U, Good(t, U), NEW x, NEW s, NEW y, NEW c, Turned(t, U, x, s, y, c)
    PROVE  /\ x \in Keys /\ y \in Keys /\ c \in Nodes /\ s \in Sides
           /\ x # y /\ x # c /\ y # c /\ y \in U[t.root] /\ t.parent[y] = x
           /\ y # t.root
<1>1. x \in Keys /\ s \in Sides /\ Other(s) \in Sides /\ x \in Nodes
  BY Hangs, SideFacts, KeyFacts DEF Turned
<1>2. /\ y \in Keys /\ y \in U[t.root] /\ t.parent[y] = x /\ x # y /\ y \in U[y]
  BY <1>1, KidsInTree, Around DEF Turned
<1>3. c \in Nodes /\ c # y /\ U[c] \subseteq U[y] /\ x \notin U[y]
  BY <1>1, <1>2, Around DEF Turned
<1>4. x # c
  BY <1>1, <1>2, <1>3, Around
<1>5. y # t.root
  BY <1>1, <1>2, Hangs, KeyFacts
<1> QED BY <1>1, <1>2, <1>3, <1>4, <1>5

LEMMA RotateIs ==
    ASSUME NEW t, NEW U, Good(t, U), NEW x, NEW s, NEW y, NEW c, Turned(t, U, x, s, y, c)
    PROVE  IsRotated(t, Rotate(t, x, s), x, s, y, c)
<1>1. /\ x \in Keys /\ y \in Keys /\ c \in Nodes /\ s \in Sides /\ t \in Tree
      /\ x \in Nodes /\ y \in Nodes /\ t.parent[x] \in Nodes
      /\ x # y /\ x # c /\ y # c
  BY TurnedFacts, GoodFacts, KeyFacts, TreeFacts
<1> DEFINE q == Replace(t, x, y)
<1>2. IsReplaced(t, q, x, y)
  BY <1>1, ReplaceIs DEF Turned
<1>3. Rotate(t, x, s) = Turn(q, x, s, y, c, t.parent[x])
  BY DEF Rotate, Turned
<1> HIDE DEF q
<1> DEFINE r == Rotate(t, x, s)
<1>4. q \in Tree
  BY <1>2 DEF IsReplaced
<1>5. IsTurned(q, r, x, s, y, c, t.parent[x])
  <2> HIDE DEF r
  <2>1. r = Turn(q, x, s, y, c, t.parent[x])
    BY <1>3 DEF r
  <2> QED BY <1>1, <1>4, <2>1, TurnIs
<1> HIDE DEF r
<1>6. IsRotated(t, r, x, s, y, c)
  BY <1>2, <1>5 DEF IsReplaced, IsRotated, IsTurned
<1> QED BY <1>6 DEF r

-----------------------------------------------------------------------------
\* A rotation keeps the order of the keys, and the keys of the tree.

\* The part of Good that is about n.
GoodAt(t, U, n) ==
    \A s \in Sides :
       /\ U[n] = {n} \cup U[t.kid[s][n]] \cup U[t.kid[Other(s)][n]]
       /\ \A m \in U[t.kid[s][n]] : On(s, m, n)
       /\ t.kid[s][n] # nil => t.parent[t.kid[s][n]] = n

\* A way to show GoodAt from one side.
LEMMA OneSide ==
    ASSUME NEW t, NEW U, NEW n \in Keys, NEW s \in Sides, NEW a, NEW b,
           a = t.kid[s][n], b = t.kid[Other(s)][n],
           U[a] \subseteq Keys, U[b] \subseteq Keys,
           U[n] = {n} \cup U[a] \cup U[b],
           \A m \in U[a] : On(s, m, n), \A m \in U[b] : On(s, n, m),
           a # nil => t.parent[a] = n, b # nil => t.parent[b] = n
    PROVE  GoodAt(t, U, n)
<1>1. \A m \in U[b] : On(Other(s), m, n)
  BY OnFacts
<1>2. U[n] = {n} \cup U[b] \cup U[a]
  OBVIOUS
<1> QED BY <1>1, <1>2, SideFacts DEF GoodAt

LEMMA RotateGood ==
    ASSUME NEW t, NEW U, Good(t, U), NEW x, NEW s, NEW y, NEW c, Turned(t, U, x, s, y, c),
           NEW r, IsRotated(t, r, x, s, y, c)
    PROVE  \E V : Good(r, V) /\ V[r.root] = U[t.root]
<1> DEFINE o == Other(s)
           d == t.kid[s][x]
           b == t.kid[o][y]
           V == [n \in Nodes |-> IF n = y THEN U[x]
                                 ELSE IF n = x THEN {x} \cup U[d] \cup U[c] ELSE U[n]]
<1>1. /\ x \in Keys /\ y \in Keys /\ c \in Nodes /\ s \in Sides /\ x # y /\ x # c /\ y # c
      /\ y \in U[t.root] /\ t.parent[y] = x /\ y # t.root /\ x \in U[t.root]
      /\ o \in Sides /\ o # s /\ Other(o) = s /\ \A a \in Sides : a = s \/ a = o
      /\ y = t.kid[o][x] /\ c = t.kid[s][y]
  BY TurnedFacts, SideFacts DEF Turned
<1>2. /\ x \in Nodes /\ y \in Nodes /\ x # nil /\ y # nil /\ t \in Tree /\ t.root \in Nodes
      /\ \A n \in Nodes : U[n] \subseteq Keys /\ IsFiniteSet(U[n])
      /\ nil \in Nodes /\ nil \notin Keys /\ Nodes = Keys \cup {nil}
  BY <1>1, KeyFacts, GoodFacts, TreeFacts
<1>3. /\ d \in Nodes /\ d # x /\ d # y
      /\ U[x] = {x} \cup U[d] \cup U[y]
      /\ \A m \in U[d] : On(s, m, x)
      /\ \A m \in U[y] : On(s, x, m)
      /\ d # nil => t.parent[d] = x
  BY <1>1, <1>2, Around
<1>4. /\ b \in Nodes /\ b # y
      /\ U[y] = {y} \cup U[c] \cup U[b]
      /\ \A m \in U[c] : On(s, m, y)
      /\ \A m \in U[b] : On(s, y, m)
      /\ c # nil => t.parent[c] = y
      /\ b # nil => t.parent[b] = y
  <2>1. /\ U[y] = {y} \cup U[c] \cup U[b]
        /\ \A m \in U[c] : On(s, m, y)
        /\ \A m \in U[b] : On(s, y, m)
        /\ c # nil => t.parent[c] = y
    <3>1. /\ U[y] = {y} \cup U[t.kid[s][y]] \cup U[t.kid[Other(s)][y]]
          /\ \A m \in U[t.kid[s][y]] : On(s, m, y)
          /\ \A m \in U[t.kid[Other(s)][y]] : On(s, y, m)
          /\ t.kid[s][y] # nil => t.parent[t.kid[s][y]] = y
      <4>1. y \in Keys /\ s \in Sides
        BY <1>1
      <4> QED BY <4>1, Around
    <3> QED BY <1>1, <3>1
  <2>2. b \in Nodes /\ b # y /\ (b # nil => t.parent[b] = y)
    BY <1>1, Around
  <2> QED BY <2>1, <2>2
<1>5. b # x /\ y \in U[y]
  <2>1. ~On(s, x, x)
    BY <1>1, OnFacts
  <2>2. x \notin U[y] /\ y \in U[y]
    BY <1>3, <1>4, <2>1
  <2>3. b # nil => b \in U[b]
    BY <1>1, Around
  <2> QED BY <1>2, <1>4, <2>2, <2>3
<1> HIDE DEF o, d, b
<1>6. /\ V \in [Nodes -> SUBSET Keys] /\ V[nil] = {}
      /\ V[y] = U[x] /\ V[x] = {x} \cup U[d] \cup U[c]
      /\ \A n \in Nodes : n # x /\ n # y => V[n] = U[n]
  BY <1>1, <1>2, <1>3, GoodFacts
<1> HIDE DEF V
<1>7. \A n \in Nodes : IsFiniteSet(V[n])
  <2>1. V[x] \subseteq U[x]
    BY <1>3, <1>4, <1>6
  <2>2. IsFiniteSet(V[x])
    BY <1>2, <2>1, FS_Subset
  <2> QED BY <1>2, <1>6, <2>2
<1>8. /\ r \in Tree
      /\ r.root = IF t.root = x THEN y ELSE t.root
      /\ r.kid[s][x] = d /\ r.kid[o][x] = c /\ r.kid[s][y] = x /\ r.kid[o][y] = b
      /\ \A a \in Sides : \A n \in Nodes \ {x, y} :
            r.kid[a][n] = IF t.kid[a][n] = x THEN y ELSE t.kid[a][n]
      /\ \A n \in Nodes :
          r.parent[n] = IF n = y THEN t.parent[x] ELSE IF n = x THEN y
                        ELSE IF n = c /\ c # nil THEN x ELSE t.parent[n]
  <2>1. r.kid[s][x] = d
    BY <1>1, <1>2, <1>3 DEF IsRotated, o, d
  <2>2. r.kid[o][x] = c /\ r.kid[s][y] = x
    BY <1>1, <1>2 DEF IsRotated, o
  <2>3. r.kid[o][y] = b
    BY <1>1, <1>2, <1>5 DEF IsRotated, o, b
  <2> QED BY <2>1, <2>2, <2>3 DEF IsRotated
<1>9. GoodAt(r, V, x)
  <2>1. V[d] = U[d] /\ V[c] = U[c]
    BY <1>1, <1>3, <1>6
  <2>2. U[c] \subseteq U[y]
    BY <1>4
  <2>3. d # nil => r.parent[d] = x
    <3>1. d # nil => d # c
      BY <1>1, <1>3, <1>4
    <3> QED BY <1>3, <1>8, <3>1
  <2>4. c # nil => r.parent[c] = x
    BY <1>1, <1>8
  <2>5. d = r.kid[s][x] /\ c = r.kid[Other(s)][x]
    BY <1>8 DEF o
  <2> QED BY <1>1, <1>2, <1>3, <1>4, <1>6, <2>1, <2>2, <2>3, <2>4, <2>5, OneSide
<1>10. GoodAt(r, V, y)
  <2>1. V[b] = U[b] /\ V[x] = {x} \cup U[d] \cup U[c]
    BY <1>1, <1>4, <1>5, <1>6
  <2>2. On(s, x, y)
    BY <1>3, <1>5
  <2>3. \A m \in V[x] : On(s, m, y)
    <3>1. \A m \in U[d] : m \in Keys /\ On(s, m, y)
      BY <1>1, <1>2, <1>3, <2>2, OnFacts
    <3> QED BY <1>4, <2>1, <2>2, <3>1
  <2>4. V[y] = {y} \cup V[x] \cup V[b]
    BY <1>3, <1>4, <1>6, <2>1
  <2>5. x # nil => r.parent[x] = y
    BY <1>1, <1>2, <1>8
  <2>6. b # nil => r.parent[b] = y
    <3>1. b # nil => b # c
      BY <1>1, Around DEF o, b
    <3> QED BY <1>4, <1>5, <1>8, <3>1
  <2>7. x = r.kid[s][y] /\ b = r.kid[Other(s)][y]
    BY <1>8 DEF o
  <2>8. V[x] \subseteq Keys /\ V[b] \subseteq Keys /\ \A m \in V[b] : On(s, y, m)
    BY <1>2, <1>4, <1>6, <2>1
  <2> QED BY <1>1, <2>3, <2>4, <2>5, <2>6, <2>7, <2>8, OneSide
<1>11. ASSUME NEW n \in Keys, n # x, n # y PROVE GoodAt(r, V, n)
  <2>1. ASSUME NEW a \in Sides
        PROVE  /\ V[r.kid[a][n]] = U[t.kid[a][n]]
               /\ r.kid[a][n] # nil => r.parent[r.kid[a][n]] = n
    <3>1. /\ t.kid[a][n] \in Nodes /\ n \in Nodes
          /\ t.kid[a][n] # nil => t.parent[t.kid[a][n]] = n
      BY <1>2, Around
    <3>2. t.kid[a][n] # y /\ (c # nil => t.kid[a][n] # c)
      BY <1>1, <1>2, <1>4, <1>11, <3>1
    <3>3. CASE t.kid[a][n] = x
      <4>1. r.kid[a][n] = y
        BY <1>8, <1>11, <3>1, <3>3
      <4>2. V[y] = U[x] /\ r.parent[y] = t.parent[x] /\ t.parent[x] = n
        BY <1>2, <1>6, <1>8, <3>1, <3>3
      <4> QED BY <3>3, <4>1, <4>2
    <3>4. CASE t.kid[a][n] # x
      <4>1. r.kid[a][n] = t.kid[a][n]
        BY <1>8, <1>11, <3>1, <3>4
      <4> QED BY <1>6, <1>8, <3>1, <3>2, <3>4, <4>1
    <3> QED BY <3>3, <3>4
  <2>2. V[n] = U[n]
    BY <1>2, <1>6, <1>11
  <2>3. \A a \in Sides : /\ U[n] = {n} \cup U[t.kid[a][n]] \cup U[t.kid[Other(a)][n]]
                         /\ \A m \in U[t.kid[a][n]] : On(a, m, n)
    BY DEF Good
  <2> QED BY <2>1, <2>2, <2>3, SideFacts DEF GoodAt
<1>12. V[r.root] = U[t.root]
  BY <1>1, <1>2, <1>6, <1>8
<1>13. \A n \in Keys \ V[r.root] : \A a \in Sides : r.kid[a][n] = nil
  <2>1. \A n \in Keys \ U[t.root] : \A a \in Sides : t.kid[a][n] = nil
    BY GoodFacts
  <2> QED BY <1>1, <1>2, <1>8, <1>12, <2>1
<1>14. \A a \in Sides : r.kid[a][nil] = nil
  <2>1. \A a \in Sides : t.kid[a][nil] = nil
    BY GoodFacts
  <2> QED BY <1>1, <1>2, <1>8, <2>1
<1>15. r.root = nil \/ r.parent[r.root] = nil
  <2>1. CASE t.root = x
    <3>1. t.parent[x] = nil
      BY <1>1, <2>1, Hangs
    <3> QED BY <1>2, <1>8, <2>1, <3>1
  <2>2. CASE t.root # x
    <3>1. t.root = nil \/ t.parent[t.root] = nil
      BY GoodFacts
    <3>2. c # nil => t.root # c
      BY <1>2, <1>4, <3>1
    <3> QED BY <1>1, <1>2, <1>8, <2>2, <3>1, <3>2
  <2> QED BY <2>1, <2>2
<1>16. \A n \in Keys : GoodAt(r, V, n)
  BY <1>9, <1>10, <1>11
<1>17. Good(r, V)
  BY <1>6, <1>7, <1>8, <1>13, <1>14, <1>15, <1>16 DEF Good, GoodAt
<1> QED BY <1>12, <1>17

-----------------------------------------------------------------------------
\* The loops that go down the tree.

\* f follows g until g stays.
Follows(f, g) == f = [n \in Nodes |-> IF g[n] = n THEN n ELSE f[g[n]]]

\* g stays or goes to a child.
GoesDown(t, g) == /\ g \in [Nodes -> Nodes]
                  /\ \A n \in Nodes : g[n] = n \/ (n # nil /\ \E s \in Sides : g[n] = t.kid[s][n])

\* R relates a node to the end of the way from it.
EndsAt(R, g) == \A n, e \in Nodes :
                   <<n, e>> \in R <=> IF g[n] = n THEN e = n ELSE <<g[n], e>> \in R

LEMMA Descent ==
    ASSUME NEW t, NEW U, Good(t, U), NEW g, GoesDown(t, g), NEW R, EndsAt(R, g)
    PROVE  /\ \E f : Follows(f, g)
           /\ \A f : Follows(f, g) => \A n \in Nodes : f[n] \in Nodes /\ <<n, f[n]>> \in R
<1>1. ASSUME NEW S \in SUBSET Nodes, \A n \in S : g[n] # n /\ g[n] \in S PROVE S = {}
  <2>1. SUFFICES ASSUME S # {} PROVE FALSE
    OBVIOUS
  <2>2. PICK n \in S : n = nil \/ \A s \in Sides : t.kid[s][n] \notin S
    BY <2>1, Lowest
  <2> QED BY <1>1, <2>2 DEF GoesDown
<1>2. \A n \in Nodes : g[n] \in Nodes
  BY DEF GoesDown
<1>3. \A n \in Nodes : \E e \in Nodes : <<n, e>> \in R
  <2> DEFINE S == {n \in Nodes : ~\E e \in Nodes : <<n, e>> \in R}
  <2>1. \A n \in S : g[n] # n /\ g[n] \in S
    BY <1>2 DEF EndsAt
  <2>2. S \in SUBSET Nodes
    OBVIOUS
  <2> HIDE DEF S
  <2>3. S = {}
    BY <1>1, <2>1, <2>2
  <2> QED BY <2>3 DEF S
<1>4. \A n \in Nodes : \A d, e \in Nodes : <<n, d>> \in R /\ <<n, e>> \in R => d = e
  <2> DEFINE S == {n \in Nodes : \E d, e \in Nodes : <<n, d>> \in R /\ <<n, e>> \in R /\ d # e}
  <2>1. \A n \in S : g[n] # n /\ g[n] \in S
    BY <1>2 DEF EndsAt
  <2>2. S \in SUBSET Nodes
    OBVIOUS
  <2> HIDE DEF S
  <2>3. S = {}
    BY <1>1, <2>1, <2>2
  <2> QED BY <2>3 DEF S
<1>5. \E f : Follows(f, g)
  <2> DEFINE f == [n \in Nodes |-> CHOOSE e \in Nodes : <<n, e>> \in R]
  <2>1. \A n \in Nodes : f[n] \in Nodes /\ <<n, f[n]>> \in R
    BY <1>3
  <2>2. f \in [Nodes -> Nodes]
    BY <1>3
  <2> HIDE DEF f
  <2>3. ASSUME NEW n \in Nodes PROVE f[n] = IF g[n] = n THEN n ELSE f[g[n]]
    <3>1. CASE g[n] = n
      BY <2>1, <3>1 DEF EndsAt
    <3>2. CASE g[n] # n
      <4>1. <<g[n], f[n]>> \in R /\ <<g[n], f[g[n]]>> \in R
        BY <1>2, <2>1, <3>2 DEF EndsAt
      <4> QED BY <1>2, <1>4, <2>1, <3>2, <4>1
    <3> QED BY <3>1, <3>2
  <2>4. Follows(f, g)
    BY <2>2, <2>3 DEF Follows
  <2> QED BY <2>4
<1>6. ASSUME NEW f, Follows(f, g) PROVE \A n \in Nodes : f[n] \in Nodes /\ <<n, f[n]>> \in R
  <2> DEFINE S == {n \in Nodes : ~(f[n] \in Nodes /\ <<n, f[n]>> \in R)}
  <2>0. \A n \in Nodes : f[n] = IF g[n] = n THEN n ELSE f[g[n]]
    BY <1>6 DEF Follows
  <2>1. ASSUME NEW n \in S PROVE g[n] # n /\ g[n] \in S
    <3>1. n \in Nodes /\ g[n] \in Nodes
      BY <1>2
    <3>2. g[n] # n
      BY <2>0, <3>1 DEF EndsAt
    <3>3. f[n] = f[g[n]]
      BY <2>0, <3>1, <3>2
    <3>4. f[g[n]] \in Nodes /\ <<g[n], f[g[n]]>> \in R => <<n, f[n]>> \in R
      BY <3>1, <3>2, <3>3 DEF EndsAt
    <3> QED BY <3>1, <3>2, <3>3, <3>4
  <2>2. S \in SUBSET Nodes
    OBVIOUS
  <2> HIDE DEF S
  <2>3. S = {}
    BY <1>1, <2>1, <2>2
  <2> QED BY <2>3 DEF S
<1> QED BY <1>5, <1>6

Toward(k, n) == IF k < n THEN "left" ELSE "right"

LEMMA TowardFacts ==
    ASSUME NEW k \in Keys, NEW n \in Nodes
    PROVE  /\ Toward(k, n) \in Sides
           /\ n \in Keys /\ k # n => On(Toward(k, n), k, n)
<1>1. k \in Nat /\ n \in Nat
  BY KeyFacts DEF nil
<1> QED BY <1>1 DEF Toward, On, Sides

\* The search loop finds a key if and only if it is in the tree.
Searches(t, k, f) ==
    f = [n \in Nodes |-> IF n = nil \/ n = k THEN n
                         ELSE f[t.kid[IF k < n THEN "left" ELSE "right"][n]]]

LEMMA SearchFinds ==
    ASSUME NEW t, NEW U, Good(t, U), NEW k \in Keys
    PROVE  rbtree_search(t, k) = IF k \in U[t.root] THEN k ELSE nil
<1> DEFINE g == [n \in Nodes |-> IF n = nil \/ n = k THEN n ELSE t.kid[Toward(k, n)][n]]
           R == {p \in Nodes \X Nodes : p[2] = IF k \in U[p[1]] THEN k ELSE nil}
<1>1. /\ t \in Tree /\ t.root \in Nodes /\ U[nil] = {}
      /\ \A n \in Nodes : \A s \in Sides : t.kid[s][n] \in Nodes
      /\ k \in Nodes /\ nil \in Nodes /\ k # nil
  BY GoodFacts, TreeFacts, KeyFacts
<1>2. ASSUME NEW n \in Nodes, n # nil
      PROVE  \A s \in Sides : t.kid[s][n] # n
  BY <1>2, KeyFacts, Around
<1>3. GoesDown(t, g)
  BY <1>1, TowardFacts DEF GoesDown
<1>4. \A n \in Nodes : g[n] = n <=> n = nil \/ n = k
  BY <1>2, TowardFacts
<1>5. ASSUME NEW n \in Nodes, n # nil, n # k
      PROVE  k \in U[n] <=> k \in U[t.kid[Toward(k, n)][n]]
  <2>1. n \in Keys /\ Toward(k, n) \in Sides /\ On(Toward(k, n), k, n)
    BY <1>5, KeyFacts, TowardFacts
  <2> DEFINE s == Toward(k, n)
  <2> HIDE DEF s
  <2>2. s \in Sides /\ On(s, k, n)
    BY <2>1 DEF s
  <2>3. U[n] = {n} \cup U[t.kid[s][n]] \cup U[t.kid[Other(s)][n]]
    BY <2>1, <2>2, Around
  <2>4. \A m \in U[t.kid[Other(s)][n]] : On(s, n, m)
    BY <2>1, <2>2, Around
  <2>5. k \notin U[t.kid[Other(s)][n]]
    BY <2>1, <2>2, <2>4, OnFacts
  <2>6. k \in U[n] <=> k \in U[t.kid[s][n]]
    BY <1>5, <2>3, <2>5
  <2> QED BY <2>6 DEF s
<1>6. k \in U[k]
  BY SideFacts, Around
<1>7. EndsAt(R, g)
  <2>1. \A n, e \in Nodes : <<n, e>> \in R <=> e = IF k \in U[n] THEN k ELSE nil
    OBVIOUS
  <2>2. \A n \in Nodes : n # nil /\ n # k => g[n] = t.kid[Toward(k, n)][n] /\ g[n] \in Nodes
    BY <1>1, TowardFacts
  <2> HIDE DEF R, g
  <2>3. ASSUME NEW n \in Nodes, NEW e \in Nodes
        PROVE  <<n, e>> \in R <=> IF g[n] = n THEN e = n ELSE <<g[n], e>> \in R
    <3>1. CASE n = nil \/ n = k
      BY <1>1, <1>4, <1>6, <2>1, <3>1
    <3>2. CASE n # nil /\ n # k
      BY <1>4, <1>5, <2>1, <2>2, <3>2
    <3> QED BY <3>1, <3>2
  <2> QED BY <2>3 DEF EndsAt
<1>8. ASSUME NEW f PROVE Searches(t, k, f) <=> Follows(f, g)
  <2>1. \A n \in Nodes : (IF n = nil \/ n = k THEN n
                          ELSE f[t.kid[IF k < n THEN "left" ELSE "right"][n]])
                         = IF g[n] = n THEN n ELSE f[g[n]]
    BY <1>4 DEF Toward
  <2> HIDE DEF g
  <2> QED BY <2>1 DEF Searches, Follows
<1> HIDE DEF g
<1>9. PICK f : f = CHOOSE h : Searches(t, k, h)
  OBVIOUS
<1>10. Searches(t, k, f)
  <2>1. \E h : Follows(h, g)
    <3> HIDE DEF R
    <3> QED BY <1>3, <1>7, Descent
  <2> QED BY <1>8, <1>9, <2>1
<1>11. rbtree_search(t, k) = f[t.root]
  BY <1>9 DEF rbtree_search, Searches
<1>12. f[t.root] \in Nodes /\ <<t.root, f[t.root]>> \in R
  <2> HIDE DEF R
  <2> QED BY <1>1, <1>3, <1>7, <1>8, <1>10, Descent
<1> QED BY <1>11, <1>12

\* The loop of the insertion ends at a node y with a free place for k, and goes
\* at every node above y to the side of k.
IsEnd(t, U, k, n, y) ==
    /\ y \in U[n] /\ t.kid[Toward(k, y)][y] = nil
    /\ \A m \in U[n] : y \in U[m] => y = m \/ y \in U[t.kid[Toward(k, m)][m]]

Descends(t, k, f) ==
    f = [n \in Nodes |-> LET c == t.kid[IF k < n THEN "left" ELSE "right"][n]
                         IN IF n = nil \/ c = nil THEN n ELSE f[c]]

LEMMA EndStep ==
    ASSUME NEW t, NEW U, Good(t, U), NEW k \in Keys, NEW n \in Keys, NEW c,
           c = t.kid[Toward(k, n)][n], NEW y \in Nodes
    PROVE  IsEnd(t, U, k, n, y) <=> IF c = nil THEN y = n ELSE IsEnd(t, U, k, c, y)
<1> DEFINE s == Toward(k, n)
           d == t.kid[Other(s)][n]
<1>1. s \in Sides /\ n \in Nodes /\ n # nil
  BY TowardFacts, KeyFacts
<1> HIDE DEF s
<1>2. /\ c \in Nodes /\ d \in Nodes /\ U[n] = {n} \cup U[c] \cup U[d] /\ U[c] \cap U[d] = {}
      /\ n \notin U[c] /\ n \notin U[d] /\ U[nil] = {}
  <2>1. c = t.kid[s][n]
    BY DEF s
  <2>2. /\ t.kid[s][n] \in Nodes /\ t.kid[Other(s)][n] \in Nodes
        /\ U[n] = {n} \cup U[t.kid[s][n]] \cup U[t.kid[Other(s)][n]]
        /\ U[t.kid[s][n]] \cap U[t.kid[Other(s)][n]] = {}
        /\ n \notin U[t.kid[s][n]] /\ n \notin U[t.kid[Other(s)][n]]
    BY <1>1, Around
  <2> QED BY <2>1, <2>2, GoodFacts
<1> HIDE DEF d
<1>3. CASE c = nil
  <2>1. ASSUME IsEnd(t, U, k, n, y) PROVE y = n
    BY <1>2, <1>3, <2>1 DEF IsEnd
  <2>2. ASSUME y = n PROVE IsEnd(t, U, k, n, y)
    <3>1. ASSUME NEW m \in U[n], n \in U[m] PROVE n = m
      <4>1. m \in U[d] => U[m] \subseteq U[d]
        BY <1>2, Within
      <4> QED BY <1>2, <1>3, <3>1, <4>1
    <3> QED BY <1>2, <1>3, <2>2, <3>1 DEF IsEnd
  <2> QED BY <1>3, <2>1, <2>2
<1>4. CASE c # nil
  <2>1. ASSUME IsEnd(t, U, k, n, y) PROVE IsEnd(t, U, k, c, y)
    <3>1. y # n
      BY <1>4, <2>1 DEF IsEnd
    <3>2. y \in U[c] /\ U[c] \subseteq U[n]
      BY <1>2, <2>1, <3>1 DEF IsEnd
    <3> QED BY <2>1, <3>2 DEF IsEnd
  <2>2. ASSUME IsEnd(t, U, k, c, y) PROVE IsEnd(t, U, k, n, y)
    <3>1. y \in U[c] /\ y \in U[n] /\ t.kid[Toward(k, y)][y] = nil
      BY <1>2, <2>2 DEF IsEnd
    <3>2. ASSUME NEW m \in U[n], y \in U[m]
          PROVE  y = m \/ y \in U[t.kid[Toward(k, m)][m]]
      <4>1. m \in U[d] => U[m] \subseteq U[d]
        BY <1>2, Within
      <4>2. m \notin U[d]
        BY <1>2, <3>1, <3>2, <4>1
      <4>3. m = n \/ m \in U[c]
        BY <1>2, <4>2
      <4> QED BY <2>2, <3>1, <3>2, <4>3 DEF IsEnd
    <3> QED BY <3>1, <3>2 DEF IsEnd
  <2> QED BY <1>4, <2>1, <2>2
<1> QED BY <1>3, <1>4

LEMMA LastIsEnd ==
    ASSUME NEW t, NEW U, Good(t, U), NEW k \in Keys
    PROVE  /\ t.root = nil => LastOnPath(t, k) = nil
           /\ t.root # nil => IsEnd(t, U, k, t.root, LastOnPath(t, k))
<1> DEFINE g == [n \in Nodes |-> IF n = nil \/ t.kid[Toward(k, n)][n] = nil THEN n
                                 ELSE t.kid[Toward(k, n)][n]]
           R == {p \in Nodes \X Nodes : IF p[1] = nil THEN p[2] = nil ELSE IsEnd(t, U, k, p[1], p[2])}
<1>1. /\ t \in Tree /\ t.root \in Nodes
      /\ \A n \in Nodes : t.kid[Toward(k, n)][n] \in Nodes
      /\ \A n \in Nodes : Toward(k, n) \in Sides
      /\ nil \in Nodes
  BY GoodFacts, TreeFacts, KeyFacts, TowardFacts
<1>2. ASSUME NEW n \in Nodes, n # nil
      PROVE  \A s \in Sides : t.kid[s][n] # n
  BY <1>2, KeyFacts, Around
<1>3. GoesDown(t, g)
  BY <1>1 DEF GoesDown
<1>4. \A n \in Nodes : g[n] = n <=> n = nil \/ t.kid[Toward(k, n)][n] = nil
  BY <1>1, <1>2
<1>5. EndsAt(R, g)
  <2>1. \A n, e \in Nodes : <<n, e>> \in R <=> IF n = nil THEN e = nil ELSE IsEnd(t, U, k, n, e)
    OBVIOUS
  <2>2. \A n \in Nodes : n # nil /\ t.kid[Toward(k, n)][n] # nil =>
           g[n] = t.kid[Toward(k, n)][n]
    OBVIOUS
  <2> HIDE DEF R, g
  <2>3. ASSUME NEW n \in Nodes, NEW e \in Nodes
        PROVE  <<n, e>> \in R <=> IF g[n] = n THEN e = n ELSE <<g[n], e>> \in R
    <3>1. CASE n = nil
      BY <1>4, <2>1, <3>1
    <3>2. CASE n # nil
      <4> DEFINE c == t.kid[Toward(k, n)][n]
      <4>1. n \in Keys /\ c \in Nodes
        BY <1>1, <3>2, KeyFacts
      <4>2. (g[n] = n <=> c = nil) /\ (c # nil => g[n] = c)
        BY <1>4, <2>2, <3>2
      <4>3. IsEnd(t, U, k, n, e) <=> IF c = nil THEN e = n ELSE IsEnd(t, U, k, c, e)
        BY <4>1, EndStep
      <4> HIDE DEF c
      <4> QED BY <2>1, <3>2, <4>1, <4>2, <4>3
    <3> QED BY <3>1, <3>2
  <2> QED BY <2>3 DEF EndsAt
<1>6. ASSUME NEW f PROVE Descends(t, k, f) <=> Follows(f, g)
  <2>1. \A n \in Nodes : (LET c == t.kid[IF k < n THEN "left" ELSE "right"][n]
                          IN IF n = nil \/ c = nil THEN n ELSE f[c])
                         = IF g[n] = n THEN n ELSE f[g[n]]
    BY <1>4 DEF Toward
  <2> HIDE DEF g
  <2> QED BY <2>1 DEF Descends, Follows
<1> HIDE DEF g
<1>7. PICK f : f = CHOOSE h : Descends(t, k, h)
  OBVIOUS
<1>8. Descends(t, k, f)
  <2>1. \E h : Follows(h, g)
    <3> HIDE DEF R
    <3> QED BY <1>3, <1>5, Descent
  <2> QED BY <1>6, <1>7, <2>1
<1>9. LastOnPath(t, k) = f[t.root]
  BY <1>7 DEF LastOnPath, Descends
<1>10. f[t.root] \in Nodes /\ <<t.root, f[t.root]>> \in R
  <2> HIDE DEF R
  <2> QED BY <1>1, <1>3, <1>5, <1>6, <1>8, Descent
<1> QED BY <1>9, <1>10

\* The successor is the least key on the right.
IsLeast(t, U, m, y) == y \in U[m] /\ t.kid["left"][y] = nil /\ \A j \in U[m] : y <= j

Declines(t, f) ==
    f = [m \in Nodes |-> IF t.kid["left"][m] = nil THEN m ELSE f[t.kid["left"][m]]]

LEMMA LeastStep ==
    ASSUME NEW t, NEW U, Good(t, U), NEW m \in Keys, NEW c, c = t.kid["left"][m], NEW y \in Nodes
    PROVE  IsLeast(t, U, m, y) <=> IF c = nil THEN y = m ELSE IsLeast(t, U, c, y)
<1> DEFINE d == t.kid["right"][m]
<1>1. /\ c \in Nodes /\ d \in Nodes /\ U[m] = {m} \cup U[c] \cup U[d]
      /\ \A j \in U[c] : j < m /\ j \in Keys
      /\ \A j \in U[d] : j > m /\ j \in Keys
      /\ U[nil] = {}
  <2>1. /\ U[m] = {m} \cup U[t.kid["left"][m]] \cup U[t.kid["right"][m]]
        /\ t.kid["left"][m] \in Nodes /\ t.kid["right"][m] \in Nodes
        /\ \A j \in U[t.kid["left"][m]] : On("left", j, m) /\ j \in Keys
        /\ \A j \in U[t.kid["right"][m]] : On("left", m, j) /\ j \in Keys
    BY SideFacts, Around
  <2> QED BY <2>1, GoodFacts, KeyFacts DEF On
<1> HIDE DEF d
<1>2. m \in Nat /\ y \in Nat /\ \A j \in Keys : j \in Nat
  BY KeyFacts DEF nil
<1>3. CASE c = nil
  <2>1. ASSUME IsLeast(t, U, m, y) PROVE y = m
    <3>1. y \in U[m] /\ y <= m
      BY <1>1, <2>1 DEF IsLeast
    <3> QED BY <1>1, <1>2, <1>3, <3>1
  <2>2. ASSUME y = m PROVE IsLeast(t, U, m, y)
    <3>1. ASSUME NEW j \in U[m] PROVE m <= j
      <4>1. j = m \/ (j > m /\ j \in Nat)
        BY <1>1, <1>2, <1>3
      <4> QED BY <1>2, <4>1
    <3> QED BY <1>1, <1>3, <2>2, <3>1 DEF IsLeast
  <2> QED BY <1>3, <2>1, <2>2
<1>4. CASE c # nil
  <2>1. IsLeast(t, U, m, y) => IsLeast(t, U, c, y)
    <3>1. SUFFICES ASSUME IsLeast(t, U, m, y) PROVE IsLeast(t, U, c, y)
      OBVIOUS
    <3>2. y # m /\ y <= m /\ y \in U[m]
      <4>1. m \in U[m]
        BY <1>1
      <4>2. t.kid["left"][y] = nil /\ y <= m /\ y \in U[m]
        BY <3>1, <4>1 DEF IsLeast
      <4> QED BY <1>4, <4>2
    <3>3. y \in U[c]
      BY <1>1, <1>2, <3>2
    <3>4. \A j \in U[c] : y <= j
      BY <1>1, <3>1 DEF IsLeast
    <3> QED BY <3>1, <3>3, <3>4 DEF IsLeast
  <2>2. IsLeast(t, U, c, y) => IsLeast(t, U, m, y)
    <3>1. SUFFICES ASSUME IsLeast(t, U, c, y) PROVE IsLeast(t, U, m, y)
      OBVIOUS
    <3>2. y \in U[c] /\ y \in Nat /\ y < m
      BY <1>1, <1>2, <3>1 DEF IsLeast
    <3>3. ASSUME NEW j \in U[d] PROVE y <= j
      <4>1. j > m /\ j \in Nat
        BY <1>1, <1>2
      <4> QED BY <1>2, <3>2, <4>1
    <3>4. y \in U[m] /\ t.kid["left"][y] = nil /\ \A j \in U[c] : y <= j
      BY <1>1, <3>1 DEF IsLeast
    <3>5. ASSUME NEW j \in U[m] PROVE y <= j
      <4>1. j = m \/ j \in U[c] \/ j \in U[d]
        BY <1>1
      <4>2. y <= m
        BY <1>2, <3>2
      <4> QED BY <3>3, <3>4, <4>1, <4>2
    <3> QED BY <3>4, <3>5 DEF IsLeast
  <2> QED BY <1>4, <2>1, <2>2
<1> QED BY <1>3, <1>4

LEMMA SuccessorIsLeast ==
    ASSUME NEW t, NEW U, Good(t, U), NEW n \in Keys, t.kid["right"][n] # nil
    PROVE  IsLeast(t, U, t.kid["right"][n], rbtree_successor(t, n))
<1> DEFINE g == [m \in Nodes |-> IF t.kid["left"][m] = nil THEN m ELSE t.kid["left"][m]]
           R == {p \in Nodes \X Nodes : IF p[1] = nil THEN p[2] = nil ELSE IsLeast(t, U, p[1], p[2])}
           b == t.kid["right"][n]
<1>1. /\ t \in Tree /\ b \in Nodes /\ nil \in Nodes /\ t.kid["left"][nil] = nil
      /\ \A m \in Nodes : t.kid["left"][m] \in Nodes
  BY GoodFacts, TreeFacts, KeyFacts, SideFacts
<1>2. ASSUME NEW m \in Nodes, m # nil
      PROVE  t.kid["left"][m] # m
  BY <1>2, KeyFacts, SideFacts, Around
<1>3. GoesDown(t, g)
  BY <1>1, SideFacts DEF GoesDown
<1>4. \A m \in Nodes : /\ g[m] = m <=> t.kid["left"][m] = nil
                       /\ t.kid["left"][m] # nil => g[m] = t.kid["left"][m]
  BY <1>1, <1>2
<1>5. EndsAt(R, g)
  <2>1. \A m, e \in Nodes : <<m, e>> \in R <=> IF m = nil THEN e = nil ELSE IsLeast(t, U, m, e)
    OBVIOUS
  <2> HIDE DEF R, g
  <2>3. ASSUME NEW m \in Nodes, NEW e \in Nodes
        PROVE  <<m, e>> \in R <=> IF g[m] = m THEN e = m ELSE <<g[m], e>> \in R
    <3>1. CASE m = nil
      BY <1>1, <1>4, <2>1, <3>1
    <3>2. CASE m # nil
      <4> DEFINE c == t.kid["left"][m]
      <4>1. m \in Keys /\ c \in Nodes
        BY <1>1, <3>2, KeyFacts
      <4>2. (g[m] = m <=> c = nil) /\ (c # nil => g[m] = c)
        BY <1>4, <3>2
      <4>3. IsLeast(t, U, m, e) <=> IF c = nil THEN e = m ELSE IsLeast(t, U, c, e)
        BY <4>1, LeastStep
      <4> HIDE DEF c
      <4> QED BY <2>1, <3>2, <4>1, <4>2, <4>3
    <3> QED BY <3>1, <3>2
  <2> QED BY <2>3 DEF EndsAt
<1>6. ASSUME NEW f PROVE Declines(t, f) <=> Follows(f, g)
  <2>1. \A m \in Nodes : (IF t.kid["left"][m] = nil THEN m ELSE f[t.kid["left"][m]])
                         = IF g[m] = m THEN m ELSE f[g[m]]
    BY <1>4
  <2> HIDE DEF g
  <2> QED BY <2>1 DEF Declines, Follows
<1> HIDE DEF g
<1>7. PICK f : f = CHOOSE h : Declines(t, h)
  OBVIOUS
<1>8. Declines(t, f)
  <2>1. \E h : Follows(h, g)
    <3> HIDE DEF R
    <3> QED BY <1>3, <1>5, Descent
  <2> QED BY <1>6, <1>7, <2>1
<1>9. rbtree_successor(t, n) = f[b]
  BY <1>7 DEF rbtree_successor, Declines
<1>10. f[b] \in Nodes /\ <<b, f[b]>> \in R
  <2> HIDE DEF R
  <2> QED BY <1>1, <1>3, <1>5, <1>6, <1>8, Descent
<1> QED BY <1>9, <1>10

-----------------------------------------------------------------------------
\* A new key is linked where the search for it ends.

IsLinked(t, r, k, y) ==
    /\ r \in Tree /\ r.root = IF y = nil THEN k ELSE t.root
    /\ \A a \in Sides : \A n \in Nodes :
          r.kid[a][n] = IF n = k THEN nil
                        ELSE IF n = y /\ y # nil /\ a = Toward(k, y) THEN k ELSE t.kid[a][n]
    /\ \A n \in Nodes : r.parent[n] = IF n = k THEN y ELSE t.parent[n]
    /\ \A n \in Nodes : r.color[n] = IF n = k THEN "RED" ELSE t.color[n]

\* r is t with a node k that has no children.
IsLeaf(t, r, k, y) ==
    /\ r \in Tree /\ r.root = t.root
    /\ \A a \in Sides : \A n \in Nodes : r.kid[a][n] = IF n = k THEN nil ELSE t.kid[a][n]
    /\ \A n \in Nodes : r.parent[n] = IF n = k THEN y ELSE t.parent[n]

LEMMA LeafIs ==
    ASSUME NEW t \in Tree, NEW k \in Nodes, NEW y \in Nodes, NEW h \in {"RED", "BLACK"}, NEW r,
           r = Leaf(t, k, y, h)
    PROVE  /\ IsLeaf(t, r, k, y)
           /\ \A n \in Nodes : r.color[n] = IF n = k THEN h ELSE t.color[n]
<1>1. "left" \in Sides /\ "right" \in Sides /\ nil \in Nodes
  BY SideFacts, KeyFacts
<1>2. r.root = t.root
  BY <1>1 DEF Tree, Leaf
<1>3. r.kid = [t.kid EXCEPT !["left"][k] = nil, !["right"][k] = nil]
  BY <1>1 DEF Tree, Leaf
<1>4. r.parent = [t.parent EXCEPT ![k] = y]
  BY <1>1 DEF Tree, Leaf
<1>5. r.color = [t.color EXCEPT ![k] = h]
  BY <1>1 DEF Tree, Leaf
<1>6. r = [root |-> r.root, kid |-> r.kid, parent |-> r.parent, color |-> r.color]
  BY <1>1 DEF Tree, Leaf
<1>7. /\ r.kid \in [Sides -> [Nodes -> Nodes]]
      /\ \A a \in Sides : \A n \in Nodes : r.kid[a][n] = IF n = k THEN nil ELSE t.kid[a][n]
  <2> DEFINE f == [t.kid EXCEPT !["left"][k] = nil]
  <2>1. r.kid = [f EXCEPT !["right"][k] = nil]
    BY <1>1, <1>3
  <2>2. t.kid \in [Sides -> [Nodes -> Nodes]]
    BY TreeFacts
  <2>3. /\ f \in [Sides -> [Nodes -> Nodes]]
        /\ \A a \in Sides : \A n \in Nodes :
              f[a][n] = IF n = k /\ a = "left" THEN nil ELSE t.kid[a][n]
    BY <1>1, <2>2, OneLink
  <2> HIDE DEF f
  <2>4. PICK g : g = r.kid
    OBVIOUS
  <2>5. /\ g \in [Sides -> [Nodes -> Nodes]]
        /\ \A a \in Sides : \A n \in Nodes :
              g[a][n] = IF n = k /\ a = "right" THEN nil ELSE f[a][n]
    BY <1>1, <2>1, <2>3, <2>4, OneLink
  <2> QED BY <2>3, <2>4, <2>5 DEF Sides
<1>8. \A n \in Nodes : r.parent[n] = IF n = k THEN y ELSE t.parent[n]
  BY <1>4, TreeFacts
<1>9. \A n \in Nodes : r.color[n] = IF n = k THEN h ELSE t.color[n]
  BY <1>5, TreeFacts
<1>10. r \in Tree
  <2>1. /\ r.root \in Nodes /\ r.parent \in [Nodes -> Nodes]
        /\ r.color \in [Nodes -> {"RED", "BLACK"}] /\ r.kid \in [Sides -> [Nodes -> Nodes]]
    BY <1>2, <1>4, <1>5, <1>7, TreeFacts
  <2> QED BY <1>6, <2>1 DEF Tree
<1> QED BY <1>2, <1>7, <1>8, <1>9, <1>10 DEF IsLeaf

LEMMA LinkedIs ==
    ASSUME NEW t, NEW U, Good(t, U), NEW k \in Keys, NEW y, y = LastOnPath(t, k), y \in Nodes, y # k
    PROVE  IsLinked(t, Linked(t, k), k, y)
<1>1. t \in Tree /\ k \in Nodes /\ y \in Nodes /\ y # k
  BY GoodFacts, KeyFacts
<1> DEFINE q == Leaf(t, k, y, "RED")
           r == Linked(t, k)
<1>2. r = IF y = nil THEN [q EXCEPT !.root = k]
          ELSE [q EXCEPT !.kid[IF k < y THEN "left" ELSE "right"][y] = k]
  BY DEF Linked
<1>3. IsLeaf(t, q, k, y) /\ \A n \in Nodes : q.color[n] = IF n = k THEN "RED" ELSE t.color[n]
  BY <1>1, LeafIs
<1>4. q \in Tree
  BY <1>3 DEF IsLeaf
<1> HIDE DEF q, r
<1>5. CASE y = nil
  <2>1. r = [q EXCEPT !.root = k]
    BY <1>2, <1>5
  <2>2. /\ r \in Tree /\ r.root = k /\ r.kid = q.kid /\ r.parent = q.parent /\ r.color = q.color
    BY <1>1, <1>4, <2>1 DEF Tree
  <2>3. IsLinked(t, r, k, y)
    BY <1>3, <1>5, <2>2 DEF IsLinked, IsLeaf
  <2> QED BY <2>3 DEF r
<1>6. CASE y # nil
  <2> DEFINE a == Toward(k, y)
  <2>1. r = [q EXCEPT !.kid[a][y] = k] /\ a \in Sides
    BY <1>1, <1>2, <1>6, TowardFacts DEF Toward
  <2> HIDE DEF a
  <2>2. /\ r \in Tree /\ r.root = q.root /\ r.parent = q.parent /\ r.color = q.color
        /\ r.kid = [q.kid EXCEPT ![a][y] = k]
    BY <1>1, <1>4, <2>1 DEF Tree
  <2>3. \A b \in Sides : \A n \in Nodes : r.kid[b][n] = IF n = y /\ b = a THEN k ELSE q.kid[b][n]
    <3>1. q.kid \in [Sides -> [Nodes -> Nodes]]
      BY <1>4, TreeFacts
    <3> QED BY <1>1, <2>1, <2>2, <3>1, OneLink
  <2>4. \A b \in Sides : \A n \in Nodes :
           r.kid[b][n] = IF n = k THEN nil
                         ELSE IF n = y /\ y # nil /\ b = a THEN k ELSE t.kid[b][n]
    BY <1>1, <1>3, <1>6, <2>3 DEF IsLeaf
  <2>5. IsLinked(t, r, k, y)
    BY <1>3, <1>6, <2>2, <2>4 DEF IsLinked, IsLeaf, a
  <2> QED BY <2>5 DEF r
<1> QED BY <1>5, <1>6

LEMMA NobodysKid ==
    ASSUME NEW t, NEW U, Good(t, U), NEW k \in Keys, k \notin U[t.root]
    PROVE  /\ \A n \in Nodes : \A s \in Sides : t.kid[s][n] # k
           /\ t.root # k
           /\ \A n \in Nodes : n # k => k \notin U[n]
           /\ U[k] = {k}
<1>1. \A n \in Nodes : \A s \in Sides : t.kid[s][n] # k
  BY KidsInTree, KeyFacts
<1>2. t.root # k
  BY SideFacts, Around
<1>3. \A s \in Sides : t.kid[s][k] = nil
  BY GoodFacts
<1>4. U[k] = {k}
  <2>1. U[k] = {k} \cup U[t.kid["left"][k]] \cup U[t.kid["right"][k]]
    BY SideFacts, Around
  <2> QED BY <1>3, <2>1, SideFacts, GoodFacts
<1>5. ASSUME NEW n \in Nodes, n # k, k \in U[n] PROVE FALSE
  <2>1. PICK p \in U[n] : \E s \in Sides : t.kid[s][p] = k
    BY <1>5, HasParent
  <2>2. p \in Nodes
    BY <2>1, GoodFacts, KeyFacts
  <2> QED BY <1>1, <2>1, <2>2
<1> QED BY <1>1, <1>2, <1>4, <1>5

LEMMA LinkGood ==
    ASSUME NEW t, NEW U, Good(t, U), NEW k \in Keys, k \notin U[t.root],
           NEW y, y = LastOnPath(t, k), NEW r, r = Linked(t, k)
    PROVE  /\ IsLinked(t, r, k, y) /\ y \in Nodes /\ y # k
           /\ y # nil => y \in U[t.root] /\ t.kid[Toward(k, y)][y] = nil
           /\ \E V : Good(r, V) /\ V[r.root] = U[t.root] \cup {k}
<1>1. /\ t \in Tree /\ t.root \in Nodes /\ nil \in Nodes /\ k \in Nodes /\ nil \notin Keys
      /\ k # nil /\ Nodes = Keys \cup {nil} /\ U[nil] = {}
      /\ \A n \in Nodes : U[n] \subseteq Keys /\ IsFiniteSet(U[n])
      /\ \A s \in Sides : \A n \in Nodes : t.kid[s][n] \in Nodes
  BY GoodFacts, TreeFacts, KeyFacts
<1>2. /\ t.root = nil => y = nil
      /\ t.root # nil => IsEnd(t, U, k, t.root, y)
  BY LastIsEnd
<1>3. /\ y = nil <=> t.root = nil
      /\ y # nil => /\ y \in U[t.root] /\ t.kid[Toward(k, y)][y] = nil
                    /\ \A m \in U[t.root] : y \in U[m] =>
                          y = m \/ y \in U[t.kid[Toward(k, m)][m]]
      /\ y \in Nodes /\ y # k
  BY <1>1, <1>2 DEF IsEnd
<1>4. IsLinked(t, r, k, y)
  BY <1>3, LinkedIs
<1>5. /\ \A n \in Nodes : \A s \in Sides : t.kid[s][n] # k
      /\ t.root # k /\ U[k] = {k}
      /\ \A n \in Nodes : n # k => k \notin U[n]
  BY NobodysKid
<1> DEFINE V == [n \in Nodes |-> IF n = k THEN {k} ELSE IF y \in U[n] THEN U[n] \cup {k} ELSE U[n]]
<1>6. /\ V \in [Nodes -> SUBSET Keys] /\ V[nil] = {} /\ V[k] = {k}
      /\ \A n \in Nodes : n # k => V[n] = IF y \in U[n] THEN U[n] \cup {k} ELSE U[n]
  BY <1>1
<1> HIDE DEF V
<1>7. \A n \in Nodes : IsFiniteSet(V[n])
  <2>1. \A n \in Nodes : IsFiniteSet(U[n] \cup {k}) /\ IsFiniteSet({k})
    BY <1>1, FS_AddElement, FS_Singleton
  <2>2. ASSUME NEW n \in Nodes PROVE IsFiniteSet(V[n])
    <3>1. V[n] = {k} \/ V[n] = U[n] \cup {k} \/ V[n] = U[n]
      BY <1>6
    <3> QED BY <1>1, <2>1, <3>1
  <2> QED BY <2>2
<1>8. V[r.root] = U[t.root] \cup {k}
  <2>1. CASE y = nil
    BY <1>1, <1>3, <1>4, <1>6, <2>1 DEF IsLinked
  <2>2. CASE y # nil
    <3>1. r.root = t.root
      BY <1>4, <2>2 DEF IsLinked
    <3>2. t.root \in Nodes /\ t.root # k /\ y \in U[t.root]
      BY <1>1, <1>3, <1>5, <2>2
    <3> QED BY <1>6, <3>1, <3>2
  <2> QED BY <2>1, <2>2
<1>9. GoodAt(r, V, k)
  <2>1. \A a \in Sides : r.kid[a][k] = nil
    BY <1>1, <1>4 DEF IsLinked
  <2> QED BY <1>6, <2>1, SideFacts DEF GoodAt
<1>10. ASSUME NEW n \in Keys, n # k PROVE GoodAt(r, V, n)
  <2> DEFINE w == Toward(k, n)
  <2>1. w \in Sides /\ On(w, k, n) /\ n \in Nodes /\ n # nil
    BY <1>1, <1>10, TowardFacts
  <2> HIDE DEF w
  <2>2. y \in U[n] => n = y \/ (n \in U[t.root] /\ y \in U[t.kid[w][n]])
    <3>1. CASE n \in U[t.root]
      BY <1>1, <1>3, <3>1 DEF w
    <3>2. CASE n \notin U[t.root]
      <4>1. U[n] = {n}
        BY <3>2, NobodysKid
      <4> QED BY <4>1
    <3> QED BY <3>1, <3>2
  <2>3. ASSUME NEW a \in Sides
        PROVE  /\ V[r.kid[a][n]] = IF y \in U[n] /\ a = w THEN U[t.kid[a][n]] \cup {k}
                                   ELSE U[t.kid[a][n]]
               /\ r.kid[a][n] # nil => r.parent[r.kid[a][n]] = n
    <3>1. /\ t.kid[a][n] \in Nodes /\ t.kid[a][n] # k
          /\ U[n] = {n} \cup U[t.kid[a][n]] \cup U[t.kid[Other(a)][n]]
          /\ U[t.kid[a][n]] \cap U[t.kid[Other(a)][n]] = {}
          /\ n \notin U[t.kid[a][n]] /\ n \in U[n]
          /\ t.kid[a][n] # nil => t.parent[t.kid[a][n]] = n
      <4>1. t.kid[a][n] \in Nodes /\ t.kid[a][n] # k
        BY <1>1, <1>5, <2>1
      <4>2. /\ U[n] = {n} \cup U[t.kid[a][n]] \cup U[t.kid[Other(a)][n]]
            /\ U[t.kid[a][n]] \cap U[t.kid[Other(a)][n]] = {}
            /\ n \notin U[t.kid[a][n]] /\ n \in U[n]
            /\ t.kid[a][n] # nil => t.parent[t.kid[a][n]] = n
        BY Around
      <4> QED BY <4>1, <4>2
    <3>2. CASE n = y /\ a = w
      <4>1. r.kid[a][n] = k /\ t.kid[a][n] = nil /\ r.parent[k] = n
        BY <1>1, <1>3, <1>4, <1>10, <2>1, <3>2 DEF IsLinked, w
      <4> QED BY <1>1, <1>6, <3>1, <3>2, <4>1
    <3>3. CASE ~(n = y /\ a = w)
      <4>1. r.kid[a][n] = t.kid[a][n] /\ r.parent[t.kid[a][n]] = t.parent[t.kid[a][n]]
        BY <1>1, <1>3, <1>4, <1>10, <2>1, <3>1, <3>3 DEF IsLinked, w
      <4>2. y \in U[t.kid[a][n]] <=> y \in U[n] /\ a = w
        <5>1. a = w \/ w = Other(a)
          BY <2>1, SideFacts
        <5> QED BY <2>2, <3>1, <3>3, <5>1
      <4> QED BY <1>6, <3>1, <4>1, <4>2
    <3> QED BY <3>2, <3>3
  <2>4. \A a \in Sides : /\ U[n] = {n} \cup U[t.kid[a][n]] \cup U[t.kid[Other(a)][n]]
                         /\ \A m \in U[t.kid[a][n]] : On(a, m, n)
    BY DEF Good
  <2>5. V[n] = IF y \in U[n] THEN U[n] \cup {k} ELSE U[n]
    BY <1>6, <1>10, <2>1
  <2>6. ASSUME NEW a \in Sides
        PROVE  /\ V[n] = {n} \cup V[r.kid[a][n]] \cup V[r.kid[Other(a)][n]]
               /\ \A m \in V[r.kid[a][n]] : On(a, m, n)
    <3>1. (a = w \/ w = Other(a)) /\ Other(a) \in Sides /\ Other(a) # a
      BY <2>1, SideFacts
    <3>2. /\ V[r.kid[a][n]] = IF y \in U[n] /\ a = w THEN U[t.kid[a][n]] \cup {k}
                              ELSE U[t.kid[a][n]]
          /\ V[r.kid[Other(a)][n]] = IF y \in U[n] /\ Other(a) = w THEN U[t.kid[Other(a)][n]] \cup {k}
                                     ELSE U[t.kid[Other(a)][n]]
      BY <2>3, <3>1
    <3>3. V[n] = {n} \cup V[r.kid[a][n]] \cup V[r.kid[Other(a)][n]]
      BY <2>4, <2>5, <3>1, <3>2
    <3> QED BY <2>1, <2>4, <3>2, <3>3
  <2> QED BY <2>3, <2>6 DEF GoodAt
<1>11. \A n \in Keys \ V[r.root] : \A a \in Sides : r.kid[a][n] = nil
  <2>1. \A n \in Keys \ U[t.root] : \A a \in Sides : t.kid[a][n] = nil
    BY GoodFacts
  <2> QED BY <1>1, <1>3, <1>4, <1>8, <2>1 DEF IsLinked
<1>12. \A a \in Sides : r.kid[a][nil] = nil
  <2>1. \A a \in Sides : t.kid[a][nil] = nil
    BY GoodFacts
  <2> QED BY <1>1, <1>4, <2>1 DEF IsLinked
<1>13. r.root = nil \/ r.parent[r.root] = nil
  <2>1. t.root = nil \/ t.parent[t.root] = nil
    BY GoodFacts
  <2> QED BY <1>1, <1>3, <1>4, <1>5, <2>1 DEF IsLinked
<1>14. \A n \in Keys : GoodAt(r, V, n)
  BY <1>9, <1>10
<1>15. r \in Tree
  BY <1>4 DEF IsLinked
<1>16. Good(r, V)
  BY <1>6, <1>7, <1>11, <1>12, <1>13, <1>14, <1>15 DEF Good, GoodAt
<1> QED BY <1>3, <1>4, <1>8, <1>16

-----------------------------------------------------------------------------
\* A deletion cuts out a node with at most one child and renames its place.

\* F is t without y; x has its place.
IsCut(t, F, y, x) ==
    /\ F \in Tree /\ F.root = IF t.root = y THEN x ELSE t.root
    /\ \A a \in Sides : \A n \in Nodes :
          F.kid[a][n] = IF n = y THEN nil ELSE IF t.kid[a][n] = y THEN x ELSE t.kid[a][n]
    /\ \A n \in Nodes : F.parent[n] = IF n = y THEN nil
                                      ELSE IF n = x THEN t.parent[y] ELSE t.parent[n]
    /\ \A n \in Nodes : F.color[n] = IF n = y THEN "BLACK" ELSE t.color[n]

Swap(a, b, n) == IF n = a THEN b ELSE IF n = b THEN a ELSE n

\* r is F with the names a and b exchanged.
IsRenamed(F, r, a, b) ==
    /\ r \in Tree /\ r.root = Swap(a, b, F.root)
    /\ \A s \in Sides : \A n \in Nodes : r.kid[s][n] = Swap(a, b, F.kid[s][Swap(a, b, n)])
    /\ \A n \in Nodes : r.parent[n] = Swap(a, b, F.parent[Swap(a, b, n)])
    /\ \A n \in Nodes : r.color[n] = F.color[Swap(a, b, n)]

LEMMA SwapFacts ==
    ASSUME NEW a \in Keys, NEW b \in Keys
    PROVE  /\ \A n \in Nodes : Swap(a, b, n) \in Nodes /\ Swap(a, b, Swap(a, b, n)) = n
           /\ \A n \in Keys : Swap(a, b, n) \in Keys
           /\ Swap(a, b, nil) = nil
           /\ \A m, n \in Nodes : Swap(a, b, m) = Swap(a, b, n) => m = n
           /\ \A n \in Nodes : Swap(a, b, n) = a <=> n = b
           /\ \A n \in Nodes : Swap(a, b, n) = nil <=> n = nil
           /\ Swap(a, b, a) = b /\ Swap(a, b, b) = a
           /\ \A n \in Nodes : n # a /\ n # b => Swap(a, b, n) = n
BY KeyFacts DEF Swap

LEMMA ExchangedIs ==
    ASSUME NEW t \in Tree, NEW a \in Keys, NEW b \in Keys
    PROVE  IsRenamed(t, Exchanged(t, a, b), a, b)
<1> DEFINE r == Exchanged(t, a, b)
<1>1. \A n \in Nodes : Swap(a, b, n) \in Nodes
  BY SwapFacts
<1>2. r = [root   |-> Swap(a, b, t.root),
           kid    |-> [s \in Sides |-> [n \in Nodes |-> Swap(a, b, t.kid[s][Swap(a, b, n)])]],
           parent |-> [n \in Nodes |-> Swap(a, b, t.parent[Swap(a, b, n)])],
           color  |-> [n \in Nodes |-> t.color[Swap(a, b, n)]]]
  BY DEF Exchanged, Swap
<1> HIDE DEF r
<1>3. /\ r.root = Swap(a, b, t.root)
      /\ r.kid = [s \in Sides |-> [n \in Nodes |-> Swap(a, b, t.kid[s][Swap(a, b, n)])]]
      /\ r.parent = [n \in Nodes |-> Swap(a, b, t.parent[Swap(a, b, n)])]
      /\ r.color = [n \in Nodes |-> t.color[Swap(a, b, n)]]
      /\ r = [root |-> r.root, kid |-> r.kid, parent |-> r.parent, color |-> r.color]
  BY <1>2
<1>4. /\ r.root \in Nodes /\ r.kid \in [Sides -> [Nodes -> Nodes]]
      /\ r.parent \in [Nodes -> Nodes] /\ r.color \in [Nodes -> {"RED", "BLACK"}]
  <2>1. /\ t.root \in Nodes
        /\ \A s \in Sides : \A n \in Nodes : t.kid[s][n] \in Nodes
        /\ \A n \in Nodes : t.parent[n] \in Nodes
        /\ \A n \in Nodes : t.color[n] \in {"RED", "BLACK"}
    BY TreeFacts
  <2>2. \A s \in Sides : \A n \in Nodes : Swap(a, b, t.kid[s][Swap(a, b, n)]) \in Nodes
    BY <1>1, <2>1
  <2>3. \A n \in Nodes : Swap(a, b, t.parent[Swap(a, b, n)]) \in Nodes
    BY <1>1, <2>1
  <2>4. \A n \in Nodes : t.color[Swap(a, b, n)] \in {"RED", "BLACK"}
    BY <1>1, <2>1
  <2>5. r.root \in Nodes
    BY <1>1, <1>3, <2>1
  <2>6. r.kid \in [Sides -> [Nodes -> Nodes]]
    BY <1>3, <2>2
  <2>7. r.parent \in [Nodes -> Nodes]
    BY <1>3, <2>3
  <2>8. r.color \in [Nodes -> {"RED", "BLACK"}]
    BY <1>3, <2>4
  <2> QED BY <2>5, <2>6, <2>7, <2>8
<1>5. r \in Tree
  BY <1>3, <1>4 DEF Tree
<1>6. IsRenamed(t, r, a, b)
  BY <1>3, <1>5 DEF IsRenamed
<1> QED BY <1>6 DEF r

LEMMA UnlinkedIs ==
    ASSUME NEW t, NEW U, Good(t, U), NEW k \in Keys, NEW y \in U[t.root], y = CutNode(t, k),
           NEW x \in Nodes, x = OnlyChild(t, y), x # y
    PROVE  \E F : IsCut(t, F, y, x) /\ IsRenamed(F, Unlinked(t, k), y, k)
<1>1. t \in Tree /\ y \in Keys /\ y \in Nodes /\ t.parent[y] \in Nodes /\ k \in Nodes /\ nil \in Nodes
  BY GoodFacts, Hangs, KeyFacts, TreeFacts
<1> DEFINE q == Replace(t, y, x)
           d == [q EXCEPT !.parent[x] = t.parent[y]]
           e == Exchanged(d, y, k)
           F == Freed(d, y)
           r == Unlinked(t, k)
<1>2. r = Freed(e, k)
  BY DEF Unlinked
<1>3. IsReplaced(t, q, y, x)
  BY ReplaceIs
<1> HIDE DEF q
<1>4. /\ d \in Tree /\ d.root = q.root /\ d.kid = q.kid /\ d.color = q.color
      /\ \A n \in Nodes : d.parent[n] = IF n = x THEN t.parent[y] ELSE t.parent[n]
  <2>1. q \in Tree /\ q.parent = t.parent
    BY <1>3 DEF IsReplaced
  <2>2. d \in Tree /\ d.root = q.root /\ d.kid = q.kid /\ d.color = q.color
    BY <1>1, <2>1 DEF Tree
  <2>3. d.parent = [q.parent EXCEPT ![x] = t.parent[y]]
    BY <1>1, <2>1 DEF Tree
  <2>4. t.parent \in [Nodes -> Nodes]
    BY <1>1, TreeFacts
  <2> QED BY <2>1, <2>2, <2>3, <2>4
<1> HIDE DEF d
<1>5. IsRenamed(d, e, y, k)
  BY <1>1, <1>4, ExchangedIs
<1>6. e \in Tree
  BY <1>5 DEF IsRenamed
<1> HIDE DEF e
<1>7. IsLeaf(e, r, k, nil) /\ \A n \in Nodes : r.color[n] = IF n = k THEN "BLACK" ELSE e.color[n]
  <2>1. r = Leaf(e, k, nil, "BLACK")
    BY <1>2 DEF Freed
  <2> HIDE DEF r
  <2> QED BY <1>1, <1>6, <2>1, LeafIs
<1>8. IsLeaf(d, F, y, nil) /\ \A n \in Nodes : F.color[n] = IF n = y THEN "BLACK" ELSE d.color[n]
  <2>1. F = Leaf(d, y, nil, "BLACK")
    BY DEF Freed
  <2> HIDE DEF F
  <2> QED BY <1>1, <1>4, <2>1, LeafIs
<1> HIDE DEF F, r
<1>9. IsCut(t, F, y, x)
  <2>1. F \in Tree /\ F.root = IF t.root = y THEN x ELSE t.root
    BY <1>3, <1>4, <1>8 DEF IsReplaced, IsLeaf
  <2>2. \A a \in Sides : \A n \in Nodes :
          F.kid[a][n] = IF n = y THEN nil ELSE IF t.kid[a][n] = y THEN x ELSE t.kid[a][n]
    BY <1>3, <1>4, <1>8 DEF IsReplaced, IsLeaf
  <2>3. \A n \in Nodes : F.parent[n] = IF n = y THEN nil
                                       ELSE IF n = x THEN t.parent[y] ELSE t.parent[n]
    BY <1>4, <1>8 DEF IsLeaf
  <2>4. \A n \in Nodes : F.color[n] = IF n = y THEN "BLACK" ELSE t.color[n]
    BY <1>3, <1>4, <1>8 DEF IsReplaced
  <2> QED BY <2>1, <2>2, <2>3, <2>4 DEF IsCut
<1>10. IsRenamed(F, r, y, k)
  <2>1. /\ \A n \in Nodes : Swap(y, k, n) \in Nodes
        /\ \A n \in Nodes : Swap(y, k, n) = y <=> n = k
        /\ Swap(y, k, nil) = nil
    <3>1. y \in Keys /\ k \in Keys
      BY <1>1
    <3> QED BY <3>1, SwapFacts
  <2>2. r \in Tree /\ r.root = Swap(y, k, F.root)
    BY <1>5, <1>7, <1>8 DEF IsLeaf, IsRenamed
  <2>3. ASSUME NEW s \in Sides, NEW n \in Nodes
        PROVE  r.kid[s][n] = Swap(y, k, F.kid[s][Swap(y, k, n)])
    <3>1. r.kid[s][n] = IF n = k THEN nil ELSE e.kid[s][n]
      BY <1>7 DEF IsLeaf
    <3>2. e.kid[s][n] = Swap(y, k, d.kid[s][Swap(y, k, n)])
      BY <1>5 DEF IsRenamed
    <3>3. F.kid[s][Swap(y, k, n)] = IF n = k THEN nil ELSE d.kid[s][Swap(y, k, n)]
      BY <1>8, <2>1 DEF IsLeaf
    <3> QED BY <2>1, <3>1, <3>2, <3>3
  <2>4. ASSUME NEW n \in Nodes PROVE r.parent[n] = Swap(y, k, F.parent[Swap(y, k, n)])
    <3>1. r.parent[n] = IF n = k THEN nil ELSE e.parent[n]
      BY <1>7 DEF IsLeaf
    <3>2. e.parent[n] = Swap(y, k, d.parent[Swap(y, k, n)])
      BY <1>5 DEF IsRenamed
    <3>3. F.parent[Swap(y, k, n)] = IF n = k THEN nil ELSE d.parent[Swap(y, k, n)]
      BY <1>8, <2>1 DEF IsLeaf
    <3> QED BY <2>1, <3>1, <3>2, <3>3
  <2>5. ASSUME NEW n \in Nodes PROVE r.color[n] = F.color[Swap(y, k, n)]
    <3>1. e.color[n] = d.color[Swap(y, k, n)]
      BY <1>5 DEF IsRenamed
    <3> QED BY <1>7, <1>8, <2>1, <3>1
  <2> QED BY <2>2, <2>3, <2>4, <2>5 DEF IsRenamed
<1> QED BY <1>9, <1>10 DEF r

\* y has at most the child x.
HasOnly(t, y, x) == \E a \in Sides : x = t.kid[a][y] /\ t.kid[Other(a)][y] = nil

LEMMA OnlyFacts ==
    ASSUME NEW t, NEW U, Good(t, U), NEW y \in U[t.root], NEW x, HasOnly(t, y, x)
    PROVE  /\ y \in Keys /\ x \in Nodes /\ x # y /\ U[x] = U[y] \ {y} /\ y \in U[y]
           /\ x # nil => t.parent[x] = y
           /\ \A s \in Sides : t.kid[s][y] = x \/ t.kid[s][y] = nil
<1>1. PICK a \in Sides : x = t.kid[a][y] /\ t.kid[Other(a)][y] = nil
  BY DEF HasOnly
<1>2. y \in Keys /\ U[nil] = {}
  BY Hangs, GoodFacts
<1>3. /\ t.kid[a][y] \in Nodes /\ t.kid[a][y] # y /\ y \in U[y]
      /\ U[y] = {y} \cup U[t.kid[a][y]] \cup U[t.kid[Other(a)][y]]
      /\ y \notin U[t.kid[a][y]]
      /\ t.kid[a][y] # nil => t.parent[t.kid[a][y]] = y
  BY <1>1, <1>2, Around
<1> QED BY <1>1, <1>2, <1>3, SideFacts

LEMMA CutGood ==
    ASSUME NEW t, NEW U, Good(t, U), NEW y \in U[t.root], NEW x, HasOnly(t, y, x),
           NEW F, IsCut(t, F, y, x)
    PROVE  \E V : Good(F, V) /\ V[F.root] = U[t.root] \ {y}
<1>1. /\ y \in Keys /\ x \in Nodes /\ x # y /\ U[x] = U[y] \ {y} /\ y \in U[y]
      /\ x # nil => t.parent[x] = y
      /\ \A s \in Sides : t.kid[s][y] = x \/ t.kid[s][y] = nil
  BY OnlyFacts
<1>2. /\ t \in Tree /\ t.root \in Nodes /\ nil \in Nodes /\ nil \notin Keys /\ y \in Nodes
      /\ Nodes = Keys \cup {nil} /\ U[nil] = {}
      /\ \A n \in Nodes : U[n] \subseteq Keys /\ IsFiniteSet(U[n])
  BY <1>1, GoodFacts, TreeFacts, KeyFacts
<1> DEFINE V == [n \in Nodes |-> IF n = y THEN {y} ELSE U[n] \ {y}]
<1>3. /\ V \in [Nodes -> SUBSET Keys] /\ V[nil] = {} /\ V[y] = {y}
      /\ \A n \in Nodes : n # y => V[n] = U[n] \ {y}
  BY <1>1, <1>2
<1> HIDE DEF V
<1>4. ASSUME NEW n \in Nodes PROVE IsFiniteSet(V[n])
  <2>1. V[n] \subseteq U[n]
    BY <1>1, <1>3
  <2> QED BY <1>2, <2>1, FS_Subset
<1>5. V[F.root] = U[t.root] \ {y}
  <2>1. V[x] = U[x]
    BY <1>1, <1>3
  <2> QED BY <1>1, <1>2, <1>3, <2>1 DEF IsCut
<1>6. \A a \in Sides : F.kid[a][y] = nil
  BY <1>2 DEF IsCut
<1>7. GoodAt(F, V, y)
  BY <1>3, <1>6, SideFacts DEF GoodAt
<1>8. ASSUME NEW n \in Keys, n # y PROVE GoodAt(F, V, n)
  <2>1. ASSUME NEW a \in Sides
        PROVE  /\ V[F.kid[a][n]] = U[t.kid[a][n]] \ {y}
               /\ F.kid[a][n] # nil => F.parent[F.kid[a][n]] = n
    <3>1. /\ t.kid[a][n] \in Nodes /\ n \in Nodes
          /\ t.kid[a][n] # nil => t.parent[t.kid[a][n]] = n
      BY <1>2, Around
    <3>2. CASE t.kid[a][n] = y
      <4>1. F.kid[a][n] = x
        BY <1>8, <3>1, <3>2 DEF IsCut
      <4>2. F.parent[x] = t.parent[y] /\ t.parent[y] = n
        BY <1>1, <1>2, <3>1, <3>2 DEF IsCut
      <4> QED BY <1>1, <1>3, <3>2, <4>1, <4>2
    <3>3. CASE t.kid[a][n] # y
      <4>1. F.kid[a][n] = t.kid[a][n]
        BY <1>8, <3>1, <3>3 DEF IsCut
      <4>2. t.kid[a][n] # nil => t.kid[a][n] # x
        BY <1>1, <1>8, <3>1
      <4>3. t.kid[a][n] # nil => F.parent[t.kid[a][n]] = n
        BY <3>1, <3>3, <4>2 DEF IsCut
      <4> QED BY <1>3, <3>1, <3>3, <4>1, <4>3
    <3> QED BY <3>2, <3>3
  <2>2. V[n] = U[n] \ {y}
    BY <1>2, <1>3, <1>8
  <2>3. \A a \in Sides : /\ U[n] = {n} \cup U[t.kid[a][n]] \cup U[t.kid[Other(a)][n]]
                         /\ \A m \in U[t.kid[a][n]] : On(a, m, n)
    BY DEF Good
  <2>4. ASSUME NEW a \in Sides
        PROVE  /\ V[n] = {n} \cup V[F.kid[a][n]] \cup V[F.kid[Other(a)][n]]
               /\ \A m \in V[F.kid[a][n]] : On(a, m, n)
    <3>1. /\ V[F.kid[a][n]] = U[t.kid[a][n]] \ {y}
          /\ V[F.kid[Other(a)][n]] = U[t.kid[Other(a)][n]] \ {y}
      BY <2>1, SideFacts
    <3> QED BY <1>8, <2>2, <2>3, <3>1
  <2> QED BY <2>1, <2>4 DEF GoodAt
<1>9. \A n \in Keys \ V[F.root] : \A a \in Sides : F.kid[a][n] = nil
  <2>1. \A n \in Keys \ U[t.root] : \A a \in Sides : t.kid[a][n] = nil
    BY GoodFacts
  <2> QED BY <1>2, <1>5, <1>6, <2>1 DEF IsCut
<1>10. \A a \in Sides : F.kid[a][nil] = nil
  <2>1. \A a \in Sides : t.kid[a][nil] = nil
    BY GoodFacts
  <2> QED BY <1>1, <1>2, <2>1 DEF IsCut
<1>11. F.root = nil \/ F.parent[F.root] = nil
  <2>1. t.root = nil \/ t.parent[t.root] = nil
    BY GoodFacts
  <2>2. CASE t.root = y
    BY <1>1, <1>2, <2>1, <2>2 DEF IsCut
  <2>3. CASE t.root # y
    <3>1. F.root = t.root
      BY <2>3 DEF IsCut
    <3>2. t.root # nil => t.root # x
      BY <1>1, <1>2, <2>1
    <3> QED BY <1>2, <2>1, <2>3, <3>1, <3>2 DEF IsCut
  <2> QED BY <2>2, <2>3
<1>12. \A n \in Keys : GoodAt(F, V, n)
  BY <1>7, <1>8
<1>13. F \in Tree
  BY DEF IsCut
<1>14. Good(F, V)
  BY <1>3, <1>4, <1>9, <1>10, <1>11, <1>12, <1>13 DEF Good, GoodAt
<1> QED BY <1>5, <1>14

\* The keys a and b have the same neighbours in S.
Alike(S, a, b) == a = b \/ (a \notin S /\ \A m \in S : m # b => (m < b <=> m < a))

LEMMA RenameGood ==
    ASSUME NEW F, NEW V, Good(F, V), NEW a \in Keys, NEW b \in Keys, Alike(V[F.root], a, b),
           NEW r, IsRenamed(F, r, a, b)
    PROVE  \E W : Good(r, W) /\ W[r.root] = {m \in Keys : Swap(a, b, m) \in V[F.root]}
<1> DEFINE N(n) == Swap(a, b, n)
           W == [n \in Nodes |-> {m \in Keys : N(m) \in V[N(n)]}]
<1>1. /\ \A n \in Nodes : N(n) \in Nodes /\ N(N(n)) = n
      /\ \A n \in Keys : N(n) \in Keys
      /\ N(nil) = nil
      /\ \A n \in Nodes : N(n) = nil <=> n = nil
      /\ \A n \in Nodes : n # a /\ n # b => N(n) = n
  BY SwapFacts
<1>2. /\ F \in Tree /\ F.root \in Nodes /\ nil \in Nodes /\ nil \notin Keys
      /\ Nodes = Keys \cup {nil} /\ V[nil] = {}
      /\ \A n \in Nodes : V[n] \subseteq Keys /\ IsFiniteSet(V[n])
      /\ \A s \in Sides : \A n \in Nodes : F.kid[s][n] \in Nodes
      /\ \A n \in Nodes : F.parent[n] \in Nodes
  BY GoodFacts, TreeFacts, KeyFacts
<1>3. /\ r \in Tree /\ r.root = N(F.root)
      /\ \A s \in Sides : \A n \in Nodes : r.kid[s][n] = N(F.kid[s][N(n)])
      /\ \A n \in Nodes : r.parent[n] = N(F.parent[N(n)])
  BY DEF IsRenamed
<1>4. ASSUME NEW p \in V[F.root], NEW q \in V[F.root], NEW s \in Sides, On(s, p, q)
      PROVE  On(s, N(p), N(q))
  <2>1. p \in Nat /\ q \in Nat /\ a \in Nat /\ b \in Nat
    BY <1>2, KeyFacts
  <2>2. CASE a = b
    BY <1>4, <2>2 DEF Swap
  <2>3. CASE a # b
    <3>1. /\ a \notin V[F.root] /\ p # a /\ q # a
          /\ p # b => (p < b <=> p < a)
          /\ q # b => (q < b <=> q < a)
      BY <2>3 DEF Alike
    <3>2. p # q
      BY <1>2, <1>4, OnFacts
    <3> QED BY <1>4, <2>1, <3>1, <3>2 DEF Swap, On
  <2> QED BY <2>2, <2>3
<1> HIDE DEF N
<1>5. /\ W \in [Nodes -> SUBSET Keys]
      /\ \A n \in Nodes : \A m \in Keys : m \in W[n] <=> N(m) \in V[N(n)]
      /\ \A n \in Nodes : W[n] \subseteq Keys
  OBVIOUS
<1>6. W[r.root] = {m \in Keys : N(m) \in V[F.root]}
  <2>1. r.root \in Nodes /\ N(r.root) = F.root
    BY <1>1, <1>2, <1>3
  <2> QED BY <2>1
<1> HIDE DEF W
<1>7. W[nil] = {}
  BY <1>1, <1>2, <1>5
<1>8. ASSUME NEW n \in Nodes PROVE IsFiniteSet(W[n])
  <2> DEFINE S == (V[N(n)] \cup {a}) \cup {b}
  <2>1. IsFiniteSet(S)
    <3>1. IsFiniteSet(V[N(n)])
      BY <1>1, <1>2
    <3> QED BY <3>1, FS_AddElement
  <2>2. W[n] \subseteq S
    <3>1. ASSUME NEW m \in W[n] PROVE m \in S
      <4>1. m \in Keys /\ N(m) \in V[N(n)]
        BY <1>5, <3>1
      <4> QED BY <1>1, <1>2, <4>1
    <3> QED BY <3>1
  <2> HIDE DEF S
  <2> QED BY <2>1, <2>2, FS_Subset
<1>9. ASSUME NEW n \in Keys PROVE GoodAt(r, W, n)
  <2> DEFINE j == N(n)
  <2>1. j \in Keys /\ j \in Nodes /\ n \in Nodes /\ N(j) = n
    BY <1>1, <1>2
  <2> HIDE DEF j
  <2>2. ASSUME NEW s \in Sides
        PROVE  \A m \in Keys : m \in W[r.kid[s][n]] <=> N(m) \in V[F.kid[s][j]]
    <3>1. r.kid[s][n] = N(F.kid[s][j]) /\ F.kid[s][j] \in Nodes
      BY <1>2, <1>3, <2>1 DEF j
    <3>2. r.kid[s][n] \in Nodes /\ N(r.kid[s][n]) = F.kid[s][j]
      BY <1>1, <3>1
    <3> QED BY <1>5, <3>2
  <2>3. ASSUME NEW s \in Sides
        PROVE  /\ \A m \in W[r.kid[s][n]] : On(s, m, n)
               /\ r.kid[s][n] # nil => r.parent[r.kid[s][n]] = n
    <3>1. r.kid[s][n] = N(F.kid[s][j]) /\ F.kid[s][j] \in Nodes
      BY <1>2, <1>3, <2>1 DEF j
    <3>2. ASSUME NEW m \in W[r.kid[s][n]] PROVE On(s, m, n)
      <4>1. m \in Keys /\ N(m) \in V[F.kid[s][j]]
        BY <1>1, <1>5, <2>2, <3>1
      <4>2. F.kid[s][j] # nil
        BY <1>2, <4>1
      <4>3. j \in V[F.root] /\ F.kid[s][j] \in V[F.root]
        BY <2>1, <4>2, KidsInTree
      <4>4. V[F.kid[s][j]] \subseteq V[F.root]
        BY <1>2, <4>3, Within
      <4>5. On(s, N(m), j)
        BY <2>1, <4>1, Around
      <4>6. On(s, N(N(m)), N(j))
        BY <1>4, <4>1, <4>3, <4>4, <4>5 DEF N
      <4>7. N(N(m)) = m
        BY <1>1, <1>2, <4>1
      <4> QED BY <2>1, <4>6, <4>7
    <3>3. ASSUME r.kid[s][n] # nil PROVE r.parent[r.kid[s][n]] = n
      <4>1. F.kid[s][j] # nil
        BY <1>1, <3>1, <3>3
      <4>2. F.parent[F.kid[s][j]] = j
        BY <2>1, <4>1, KidsInTree
      <4>3. r.kid[s][n] \in Nodes /\ N(r.kid[s][n]) = F.kid[s][j]
        BY <1>1, <3>1
      <4> QED BY <1>3, <2>1, <4>2, <4>3
    <3> QED BY <3>2, <3>3
  <2>4. ASSUME NEW s \in Sides
        PROVE  W[n] = {n} \cup W[r.kid[s][n]] \cup W[r.kid[Other(s)][n]]
    <3>1. V[j] = {j} \cup V[F.kid[s][j]] \cup V[F.kid[Other(s)][j]]
      BY <2>1, Around
    <3>2. Other(s) \in Sides
      BY SideFacts
    <3>3. r.kid[s][n] \in Nodes /\ r.kid[Other(s)][n] \in Nodes
      BY <1>3, <2>1, <3>2, TreeFacts
    <3>4. W[n] \subseteq Keys /\ W[r.kid[s][n]] \subseteq Keys /\ W[r.kid[Other(s)][n]] \subseteq Keys
      BY <1>5, <2>1, <3>3
    <3>5. ASSUME NEW m \in Keys
          PROVE  m \in W[n] <=> m = n \/ m \in W[r.kid[s][n]] \/ m \in W[r.kid[Other(s)][n]]
      <4>1. m \in W[n] <=> N(m) \in V[j]
        BY <1>5, <2>1 DEF j
      <4>2. N(m) = j <=> m = n
        BY <1>1, <1>2, <2>1 DEF j
      <4> QED BY <2>2, <3>1, <3>2, <4>1, <4>2
    <3> QED BY <3>4, <3>5
  <2> QED BY <2>3, <2>4 DEF GoodAt
<1>10. ASSUME NEW n \in Keys \ W[r.root], NEW s \in Sides PROVE r.kid[s][n] = nil
  <2>1. N(n) \in Keys /\ N(n) \notin V[F.root] /\ n \in Nodes
    BY <1>1, <1>2, <1>6
  <2>2. F.kid[s][N(n)] = nil
    BY <2>1, GoodFacts
  <2> QED BY <1>1, <1>3, <2>1, <2>2
<1>11. \A s \in Sides : r.kid[s][nil] = nil
  <2>1. \A s \in Sides : F.kid[s][nil] = nil
    BY GoodFacts
  <2> QED BY <1>1, <1>2, <1>3, <2>1
<1>12. r.root = nil \/ r.parent[r.root] = nil
  <2>1. F.root = nil \/ F.parent[F.root] = nil
    BY GoodFacts
  <2>2. r.root \in Nodes /\ N(r.root) = F.root
    BY <1>1, <1>2, <1>3
  <2> QED BY <1>1, <1>3, <2>1, <2>2
<1>13. \A n \in Keys : GoodAt(r, W, n)
  BY <1>9
<1>14. Good(r, W)
  BY <1>3, <1>5, <1>7, <1>8, <1>10, <1>11, <1>12, <1>13 DEF Good, GoodAt
<1> QED BY <1>6, <1>14 DEF N

\* The keys under a node are neighbours.
LEMMA Convex ==
    ASSUME NEW t, NEW U, Good(t, U), NEW n \in U[t.root], NEW m \in U[t.root],
           NEW a \in U[n], NEW b \in U[n], a < m, m < b
    PROVE  m \in U[n]
<1> DEFINE S == {q \in Nodes : n \in U[q] /\ m \in U[q]}
<1>1. SUFFICES ASSUME m \notin U[n] PROVE FALSE
  OBVIOUS
<1>2. n \in Keys /\ m \in Keys /\ n \in Nodes /\ t.root \in Nodes /\ n \in U[n]
  BY Hangs, KeyFacts, SideFacts, Around, GoodFacts, TreeFacts
<1>3. t.root \in S /\ S \in SUBSET Nodes
  BY <1>2
<1>4. PICK q \in S : q = nil \/ \A s \in Sides : t.kid[s][q] \notin S
  <2> HIDE DEF S
  <2> QED BY <1>3, Lowest
<1>5. q \in Keys /\ q # nil
  BY GoodFacts, KeyFacts
<1>6. q # n
  BY <1>1
<1>7. PICK s \in Sides : n \in U[t.kid[s][q]]
  BY <1>5, <1>6, SideFacts, Around
<1>8. /\ t.kid[s][q] \in Nodes
      /\ U[q] = {q} \cup U[t.kid[s][q]] \cup U[t.kid[Other(s)][q]]
      /\ \A j \in U[t.kid[s][q]] : On(s, j, q) /\ j \in Keys
      /\ \A j \in U[t.kid[Other(s)][q]] : On(s, q, j) /\ j \in Keys
  BY <1>5, Around
<1>9. m \notin U[t.kid[s][q]]
  BY <1>4, <1>5, <1>7, <1>8
<1>10. U[n] \subseteq U[t.kid[s][q]]
  BY <1>7, <1>8, Within
<1>11. On(s, a, q) /\ On(s, b, q) /\ a \in Keys /\ b \in Keys
  BY <1>8, <1>10
<1>12. m = q \/ On(s, q, m)
  BY <1>8, <1>9
<1>13. On(s, a, m) /\ On(s, b, m)
  BY <1>2, <1>5, <1>11, <1>12, OnFacts
<1>14. a \in Nat /\ b \in Nat /\ m \in Nat
  BY <1>2, <1>11, KeyFacts
<1> QED BY <1>13, <1>14 DEF On

\* The node that is cut out, and what it leaves.
LEMMA CutFacts ==
    ASSUME NEW t, NEW U, Good(t, U), NEW k \in U[t.root], NEW y, y = CutNode(t, k),
           NEW x, x = OnlyChild(t, y)
    PROVE  y \in U[t.root] /\ k \in Keys /\ HasOnly(t, y, x) /\ Alike(U[t.root] \ {y}, y, k)
<1>1. k \in Keys /\ t.root \in Nodes
  BY Hangs, GoodFacts, TreeFacts
<1>2. ASSUME t.kid["left"][y] = nil \/ t.kid["right"][y] = nil
      PROVE  HasOnly(t, y, x)
  BY <1>2, SideFacts DEF HasOnly, OnlyChild
<1>3. CASE t.kid["left"][k] = nil \/ t.kid["right"][k] = nil
  <2>1. y = k
    BY <1>3 DEF CutNode
  <2> QED BY <1>1, <1>2, <1>3, <2>1 DEF Alike
<1>4. CASE t.kid["left"][k] # nil /\ t.kid["right"][k] # nil
  <2> DEFINE c == t.kid["right"][k]
  <2>1. y = rbtree_successor(t, k)
    BY <1>4 DEF CutNode
  <2>2. IsLeast(t, U, c, y)
    BY <1>1, <1>4, <2>1, SuccessorIsLeast
  <2>3. /\ U[k] = {k} \cup U[t.kid["left"][k]] \cup U[c] /\ c \in Nodes
        /\ \A m \in U[t.kid["left"][k]] : On("left", m, k) /\ m \in Keys
        /\ \A m \in U[c] : On("left", k, m) /\ m \in Keys
        /\ U[k] \subseteq U[t.root] /\ k \in U[k]
    <3>1. /\ U[k] = {k} \cup U[t.kid["left"][k]] \cup U[c] /\ c \in Nodes
          /\ \A m \in U[t.kid["left"][k]] : On("left", m, k) /\ m \in Keys
          /\ \A m \in U[c] : On("left", k, m) /\ m \in Keys
      BY <1>1, SideFacts, Around
    <3>2. U[k] \subseteq U[t.root]
      BY <1>1, Within
    <3> QED BY <3>1, <3>2
  <2> HIDE DEF c
  <2>4. /\ y \in U[c] /\ y \in U[k] /\ y \in U[t.root] /\ t.kid["left"][y] = nil
        /\ k < y /\ y \in Keys /\ \A m \in U[c] : y <= m
    BY <2>2, <2>3 DEF IsLeast, On
  <2>5. ASSUME NEW m \in U[t.root] \ {y}, m # k PROVE m < k <=> m < y
    <3>1. m \in Keys /\ m \in Nat /\ k \in Nat /\ y \in Nat
      BY <1>1, <2>4, GoodFacts, KeyFacts
    <3>2. ASSUME k < m, m < y PROVE FALSE
      <4>1. m \in U[k]
        BY <2>3, <2>4, <3>2, Convex
      <4>2. m \in U[c]
        BY <2>3, <3>1, <3>2, <4>1 DEF On
      <4> QED BY <2>4, <3>1, <3>2, <4>2
    <3> QED BY <2>4, <2>5, <3>1, <3>2
  <2> QED BY <1>1, <1>2, <2>4, <2>5 DEF Alike
<1> QED BY <1>3, <1>4

LEMMA DeleteGood ==
    ASSUME NEW t, NEW U, Good(t, U), NEW k \in U[t.root], NEW y, y = CutNode(t, k),
           NEW x, x = OnlyChild(t, y), NEW r, r = Unlinked(t, k)
    PROVE  /\ y \in U[t.root] /\ k \in Keys /\ HasOnly(t, y, x)
           /\ \E F, V, W : /\ IsCut(t, F, y, x) /\ Good(F, V) /\ V[F.root] = U[t.root] \ {y}
                           /\ IsRenamed(F, r, y, k)
                           /\ Good(r, W) /\ W[r.root] = U[t.root] \ {k}
<1>1. /\ y \in U[t.root] /\ k \in Keys /\ HasOnly(t, y, x) /\ Alike(U[t.root] \ {y}, y, k)
  BY CutFacts
<1>2. y \in Keys /\ x \in Nodes /\ x # y
  BY <1>1, OnlyFacts
<1>3. PICK F : IsCut(t, F, y, x) /\ IsRenamed(F, r, y, k)
  BY <1>1, <1>2, UnlinkedIs
<1>4. PICK V : Good(F, V) /\ V[F.root] = U[t.root] \ {y}
  BY <1>1, <1>3, CutGood
<1>5. Alike(V[F.root], y, k)
  BY <1>1, <1>4
<1>6. PICK W : Good(r, W) /\ W[r.root] = {m \in Keys : Swap(y, k, m) \in V[F.root]}
  BY <1>1, <1>2, <1>3, <1>4, <1>5, RenameGood
<1>7. U[t.root] \subseteq Keys
  BY GoodFacts, TreeFacts
<1>8. ASSUME NEW m \in Keys PROVE Swap(y, k, m) \in U[t.root] \ {y} <=> m \in U[t.root] \ {k}
  BY <1>1, <1>2 DEF Swap
<1>9. W[r.root] = U[t.root] \ {k}
  BY <1>4, <1>6, <1>7, <1>8
<1> QED BY <1>1, <1>3, <1>4, <1>6, <1>9

-----------------------------------------------------------------------------
\* U is the set the model calls Under.

Collects(t, f) ==
    f = [n \in Nodes |-> IF n = nil THEN {}
                         ELSE {n} \cup f[t.kid["left"][n]] \cup f[t.kid["right"][n]]]

LEMMA UnderIs ==
    ASSUME NEW t, NEW U, Good(t, U)
    PROVE  Under(t) = U
<1>1. /\ t \in Tree /\ U \in [Nodes -> SUBSET Keys] /\ U[nil] = {}
      /\ \A s \in Sides : \A n \in Nodes : t.kid[s][n] \in Nodes
  BY GoodFacts, TreeFacts
<1>2. \A n \in Keys : U[n] = {n} \cup U[t.kid["left"][n]] \cup U[t.kid["right"][n]]
  BY Around, SideFacts
<1>3. Collects(t, U)
  <2>1. \A n \in Nodes : U[n] = IF n = nil THEN {}
                                ELSE {n} \cup U[t.kid["left"][n]] \cup U[t.kid["right"][n]]
    BY <1>1, <1>2, KeyFacts
  <2> QED BY <1>1, <2>1 DEF Collects
<1>4. PICK f : f = CHOOSE h : Collects(t, h)
  OBVIOUS
<1>5. Collects(t, f)
  BY <1>3, <1>4
<1>6. Under(t) = f
  BY <1>4 DEF Under, Collects
<1> DEFINE S == {n \in Nodes : f[n] # U[n]}
<1>7. \A n \in Nodes : f[n] = IF n = nil THEN {}
                              ELSE {n} \cup f[t.kid["left"][n]] \cup f[t.kid["right"][n]]
  BY <1>5 DEF Collects
<1>8. S = {}
  <2>1. SUFFICES ASSUME S # {} PROVE FALSE
    OBVIOUS
  <2>2. PICK n \in S : n = nil \/ \A s \in Sides : t.kid[s][n] \notin S
    <3> S \in SUBSET Nodes
      OBVIOUS
    <3> HIDE DEF S
    <3> QED BY <2>1, Lowest
  <2>3. n \in Keys /\ n # nil
    BY <1>1, <1>7, KeyFacts
  <2>4. /\ f[t.kid["left"][n]] = U[t.kid["left"][n]]
        /\ f[t.kid["right"][n]] = U[t.kid["right"][n]]
    BY <1>1, <2>2, <2>3, SideFacts
  <2>5. f[n] = {n} \cup f[t.kid["left"][n]] \cup f[t.kid["right"][n]]
    BY <1>7, <2>3
  <2>6. f[n] = {n} \cup U[t.kid["left"][n]] \cup U[t.kid["right"][n]]
    BY <2>4, <2>5, Zenon
  <2> QED BY <1>2, <2>3, <2>6
<1>9. f = [n \in Nodes |-> f[n]] /\ U = [n \in Nodes |-> U[n]]
  <2>1. U = [n \in Nodes |-> U[n]]
    BY <1>1
  <2>2. f = [n \in Nodes |-> f[n]]
    BY <1>5 DEF Collects
  <2> QED BY <2>1, <2>2
<1>10. \A n \in Nodes : f[n] = U[n]
  BY <1>8
<1> HIDE DEF S
<1> QED BY <1>6, <1>9, <1>10

=============================================================================
