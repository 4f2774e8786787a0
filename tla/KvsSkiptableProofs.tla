------------------------- MODULE KvsSkiptableProofs -------------------------
(***************************************************************************)
(* Proofs about KvsSkiptable, for any keys, scores, values and number of   *)
(* levels: every level stays a linked list in order, whatever heights the  *)
(* nodes get and whatever ZREM walks past.                                 *)
(*                                                                         *)
(* The walks are recursive functions.  That they are defined, and where    *)
(* they end, is shown by looking at the last node (or the lowest level)    *)
(* for which it is not so; there is a last one because a level is finite   *)
(* and its order total.                                                    *)
(***************************************************************************)
EXTENDS KvsSkiptable, FiniteSetTheorems, SequenceTheorems,
        WellFoundedInduction, NaturalsInduction, TLAPS

Places == Node \cup {header}

\* The stored nodes, and those on level i, of the values v and pointers f.
LiveIn(v) == {n \in Node : v[n] # NULL}
OnLevel(v, f, i) == {n \in Node : v[n] # NULL /\ f[n][i] # Garbage}

\* What follows n among the nodes S.
After(n, S) == {m \in S : n = header \/ PassedFor(n, m)}

\* Level i of the pointers f is the list of the nodes S in order.
Linked(f, i, S) == \A n \in S \cup {header} : IsFirst(f[n][i], After(n, S))

\* Nodes and pointers fit together.
Shape(v, f) ==
    /\ v \in [Node -> Copies \cup {NULL}]
    /\ f \in [Places -> [Levels -> Node \cup {NULL, Garbage}]]
    /\ IsFiniteSet(LiveIn(v)) /\ OnLevel(v, f, 0) = LiveIn(v)
    /\ \A i \in Levels : Linked(f, i, OnLevel(v, f, i))
    /\ \A i, j \in Levels : i <= j => OnLevel(v, f, j) \subseteq OnLevel(v, f, i)
    /\ \A n \in Node \ LiveIn(v) : \A i \in Levels : f[n][i] = Garbage

\* l is the highest level in use.
Top(v, f, l) == /\ l \in Levels
                /\ l = 0 \/ OnLevel(v, f, l) # {}
                /\ \A i \in Levels : i > l => OnLevel(v, f, i) = {}

List(v, f, l, c) == Shape(v, f) /\ Top(v, f, l) /\ c = Cardinality(LiveIn(v))

IInv == List(value, forward, level, length)

-----------------------------------------------------------------------------
\* The order of the nodes.

LEMMA Fields ==
    ASSUME NEW n \in Node PROVE n.score \in Int /\ n.key \in Int /\ n.key > 0
<1>1. n.score \in Scores /\ n.key \in Keys
  BY DEF Node
<1>2. n.score \in Int
  BY <1>1, SkipAssumption
<1>3. n.key \in Nat \ {0}
  BY <1>1, SkipAssumption
<1> QED BY <1>2, <1>3

LEMMA Order ==
    /\ \A a \in Node : ~PassedFor(a, a)
    /\ \A a, b \in Node : ~(PassedFor(a, b) /\ PassedFor(b, a))
    /\ \A a, b \in Node : a = b \/ PassedFor(a, b) \/ PassedFor(b, a)
    /\ \A a, b, c \in Node : PassedFor(a, b) /\ PassedFor(b, c) => PassedFor(a, c)
<1>1. \A a \in Node : ~PassedFor(a, a)
  BY Fields DEF PassedFor
<1>2. \A a, b \in Node : ~(PassedFor(a, b) /\ PassedFor(b, a))
  BY Fields DEF PassedFor
<1>3. ASSUME NEW a \in Node, NEW b \in Node PROVE a = b \/ PassedFor(a, b) \/ PassedFor(b, a)
  <2>1. a.score = b.score /\ a.key = b.key => a = b
    BY DEF Node
  <2> QED BY <2>1, Fields DEF PassedFor
<1>4. ASSUME NEW a \in Node, NEW b \in Node, NEW c \in Node, PassedFor(a, b), PassedFor(b, c)
      PROVE  PassedFor(a, c)
  <2>1. /\ a.score \in Int /\ a.key \in Int /\ b.score \in Int /\ b.key \in Int
        /\ c.score \in Int /\ c.key \in Int
    BY Fields
  <2> QED BY <1>4, <2>1 DEF PassedFor
<1> QED BY <1>1, <1>2, <1>3, <1>4

LEMMA HeaderApart == header \notin Node
<1>1. header.key = 0
  BY DEF header
<1> QED BY <1>1, Fields

LEMMA Pointers == NULL \notin Node /\ Garbage \notin Node /\ NULL # Garbage
  BY PointerAssumption

\* A non-empty set of numbers has a smallest one.
LEMMA Smallest ==
    ASSUME NEW T \in SUBSET Nat, T # {} PROVE \E x \in T : \A y \in T : x <= y
<1>1. \E x \in T : \A y \in T : ~(<<y, x>> \in OpToRel(<, Nat))
  BY NatLessThanWellFounded, WFMin
<1>2. PICK x \in T : \A y \in T : ~(<<y, x>> \in OpToRel(<, Nat))
  BY <1>1
<1>3. \A y \in T : ~(y < x)
  BY <1>2, Zenon DEF OpToRel
<1>4. \A y \in T : x <= y
  BY <1>3
<1> QED BY <1>4

\* The last of finitely many nodes.
IsLast(m, S) == m \in S /\ \A x \in S : x = m \/ PassedFor(x, m)

LEMMA LastExists ==
    ASSUME NEW S, S \subseteq Node, IsFiniteSet(S), S # {} PROVE \E m : IsLast(m, S)
<1> DEFINE Bad(R) == R \subseteq Node /\ IsFiniteSet(R) /\ R # {} /\ ~\E m : IsLast(m, R)
           T == {c \in Nat : \E R \in SUBSET Node : Bad(R) /\ Cardinality(R) = c}
<1> SUFFICES ASSUME Bad(S) PROVE FALSE
  OBVIOUS
<1>1. Cardinality(S) \in T
  BY FS_CardinalityType
<1>2. PICK c \in T : \A d \in T : c <= d
  BY <1>1, Smallest
<1>3. PICK R \in SUBSET Node : Bad(R) /\ Cardinality(R) = c
  BY <1>2
<1>4. PICK x : x \in R
  BY <1>3
<1> DEFINE Q == R \ {x}
<1>5. IsFiniteSet(Q) /\ Cardinality(Q) = c - 1 /\ Q \subseteq Node /\ x \in Node
  BY <1>3, <1>4, FS_RemoveElement
<1>6. Cardinality(Q) \in Nat /\ c \in Nat
  BY <1>2, <1>5, FS_CardinalityType
<1>7. ~Bad(Q)
  <2>1. SUFFICES ASSUME Bad(Q) PROVE FALSE
    OBVIOUS
  <2>2. c - 1 \in T
    BY <1>5, <1>6, <2>1
  <2> QED BY <1>2, <1>6, <2>2
<1>8. CASE Q = {}
  <2>1. IsLast(x, R)
    BY <1>4, <1>8 DEF IsLast
  <2> QED BY <1>3, <2>1
<1>9. CASE Q # {}
  <2>1. PICK m : IsLast(m, Q)
    BY <1>5, <1>7, <1>9
  <2>2. m \in Node /\ m \in Q
    BY <1>5, <2>1 DEF IsLast
  <2>3. CASE PassedFor(x, m)
    <3>1. IsLast(m, R)
      BY <2>1, <2>2, <2>3 DEF IsLast
    <3> QED BY <1>3, <3>1
  <2>4. CASE PassedFor(m, x)
    <3>1. \A y \in R : y = x \/ PassedFor(y, x)
      BY <1>3, <1>5, <2>1, <2>2, <2>4, Order DEF IsLast
    <3>2. IsLast(x, R)
      BY <1>4, <3>1 DEF IsLast
    <3> QED BY <1>3, <3>2
  <2> QED BY <1>5, <2>2, <2>3, <2>4, Order
<1> QED BY <1>8, <1>9

-----------------------------------------------------------------------------
\* A level and a walk along it.

Listed(f, i, S) == S \subseteq Node /\ IsFiniteSet(S) /\ Linked(f, i, S)

\* n comes before m; the header comes before all nodes.
Before(n, m) == n = header \/ PassedFor(n, m)

\* The first of the nodes after n.
LEMMA NextIs ==
    ASSUME NEW f, NEW i, NEW S, Listed(f, i, S), NEW n \in S \cup {header}
    PROVE  /\ f[n][i] = NULL \/ f[n][i] \in S
           /\ f[n][i] \in S => Before(n, f[n][i])
           /\ \A x \in S : Before(n, x) =>
                 f[n][i] \in S /\ (x = f[n][i] \/ PassedFor(f[n][i], x))
<1>1. IsFirst(f[n][i], After(n, S))
  BY DEF Listed, Linked
<1>2. NULL \notin S
  BY Pointers DEF Listed
<1> QED BY <1>1, <1>2 DEF IsFirst, After, Before

\* x is not behind e.
UpTo(x, e) == e # header /\ (x = e \/ PassedFor(x, e))

\* A walk from n along the list S ends at e.
IsEnd(f, i, S, n, passed, e) ==
    /\ e = n \/ (e \in S /\ Before(n, e))
    /\ f[e][i] \notin passed
    /\ \A x \in S : Before(n, x) /\ UpTo(x, e) => x \in passed

LEMMA BeforeOrder ==
    /\ \A n, a, b \in Node : Before(n, a) /\ Before(a, b) => Before(n, b)
    /\ \A a, b \in Node : Before(header, b) /\ (Before(a, b) <=> PassedFor(a, b))
<1>1. \A a \in Node : a # header
  BY HeaderApart
<1> QED BY <1>1, Order DEF Before

\* Where the next node is not to be passed, the walk ends.
LEMMA EndHere ==
    ASSUME NEW f, NEW i, NEW S, Listed(f, i, S), NEW n \in S \cup {header},
           NEW passed, f[n][i] \notin passed
    PROVE  IsEnd(f, i, S, n, passed, n)
<1>1. ASSUME NEW x \in S, Before(n, x), UpTo(x, n) PROVE FALSE
  <2>1. n # header /\ n \in Node /\ x \in Node
    BY <1>1 DEF UpTo, Listed
  <2> QED BY <1>1, <2>1, Order DEF Before, UpTo
<1> QED BY <1>1 DEF IsEnd

\* Otherwise it ends where the walk from the next node does.
LEMMA EndLater ==
    ASSUME NEW f, NEW i, NEW S, Listed(f, i, S), NEW n \in S \cup {header},
           NEW passed, passed \subseteq Node, f[n][i] \in passed
    PROVE  /\ f[n][i] \in S /\ Before(n, f[n][i])
           /\ \A e : IsEnd(f, i, S, f[n][i], passed, e) => IsEnd(f, i, S, n, passed, e)
<1>1. f[n][i] \in S /\ Before(n, f[n][i])
  BY NextIs, Pointers
<1>2. PICK m : m = f[n][i]
  OBVIOUS
<1>3. m \in S /\ Before(n, m) /\ m \in passed /\ m \in Node
  BY <1>1, <1>2
<1>4. ASSUME NEW e, IsEnd(f, i, S, m, passed, e) PROVE IsEnd(f, i, S, n, passed, e)
  <2>1. e \in S /\ e \in Node
    BY <1>3, <1>4 DEF IsEnd, Listed
  <2>2. Before(n, e)
    <3>1. CASE e = m
      BY <1>3, <3>1
    <3>2. CASE e # m
      <4>1. PassedFor(m, e)
        BY <1>3, <1>4, <3>2, HeaderApart DEF IsEnd, Before
      <4> QED BY <1>3, <2>1, <4>1, Order, n \in Node \cup {header} DEF Before, Listed
    <3> QED BY <3>1, <3>2
  <2>3. ASSUME NEW x \in S, Before(n, x), UpTo(x, e) PROVE x \in passed
    <3>1. x = m \/ PassedFor(m, x)
      BY <1>2, <2>3, NextIs
    <3> QED BY <1>3, <1>4, <2>3, <3>1 DEF IsEnd, Before
  <2>4. f[e][i] \notin passed
    BY <1>4 DEF IsEnd
  <2> QED BY <2>1, <2>2, <2>3, <2>4 DEF IsEnd
<1> QED BY <1>1, <1>2, <1>4

\* A walk ends at one place only.
LEMMA OneEnd ==
    ASSUME NEW f, NEW i, NEW S, Listed(f, i, S), NEW n \in S \cup {header}, NEW passed,
           NEW d, NEW e, IsEnd(f, i, S, n, passed, d), IsEnd(f, i, S, n, passed, e)
    PROVE  d = e
<1>1. ASSUME NEW a, NEW b, IsEnd(f, i, S, n, passed, a), IsEnd(f, i, S, n, passed, b),
             b \in S, Before(a, b)
      PROVE  FALSE
  <2>1. a \in S \cup {header}
    BY <1>1 DEF IsEnd
  <2>2. PICK m : m = f[a][i]
    OBVIOUS
  <2>3. m \in S /\ Before(a, m) /\ (b = m \/ PassedFor(m, b))
    BY <1>1, <2>1, <2>2, NextIs
  <2>4. Before(n, m)
    <3>1. CASE a = n
      BY <2>3, <3>1
    <3>2. CASE a # n
      <4>1. a \in S /\ Before(n, a)
        BY <1>1, <3>2 DEF IsEnd
      <4>2. PassedFor(a, m)
        BY <2>3, <4>1, HeaderApart DEF Before, Listed
      <4> QED BY <2>3, <4>1, <4>2, Order DEF Before, Listed
    <3> QED BY <3>1, <3>2
  <2>5. UpTo(m, b)
    BY <1>1, <2>3, HeaderApart DEF UpTo, Listed
  <2>6. m \in passed /\ m \notin passed
    BY <1>1, <2>2, <2>3, <2>4, <2>5 DEF IsEnd
  <2> QED BY <2>6
<1>2. ~(e \in S /\ Before(d, e)) /\ ~(d \in S /\ Before(e, d))
  BY <1>1
<1>3. d \in S \cup {n} /\ e \in S \cup {n} /\ S \subseteq Node
  BY DEF IsEnd, Listed
<1>4. CASE d = n \/ e = n
  BY <1>2, <1>4 DEF IsEnd
<1>5. CASE d \in S /\ e \in S
  BY <1>2, <1>3, <1>5, Order DEF Before
<1> QED BY <1>3, <1>4, <1>5

\* A set of nodes of which every one has a later one in it is empty.
LEMMA NoLast ==
    ASSUME NEW S, S \subseteq Node, IsFiniteSet(S), NEW B \in SUBSET S,
           \A m \in B : \E x \in B : PassedFor(m, x)
    PROVE  B = {}
<1> SUFFICES ASSUME B # {} PROVE FALSE
  OBVIOUS
<1>1. B \subseteq Node /\ IsFiniteSet(B)
  BY FS_Subset
<1>2. PICK m : IsLast(m, B)
  BY <1>1, LastExists
<1>3. PICK x \in B : PassedFor(m, x)
  BY <1>2 DEF IsLast
<1> QED BY <1>1, <1>2, <1>3, Order DEF IsLast

\* Every walk ends.
LEMMA EndExists ==
    ASSUME NEW f, NEW i, NEW S, Listed(f, i, S), NEW passed, passed \subseteq Node
    PROVE  \A n \in S \cup {header} : \E e : IsEnd(f, i, S, n, passed, e)
<1> DEFINE Ends(n) == \E e : IsEnd(f, i, S, n, passed, e)
           B == {n \in S : ~Ends(n)}
<1>1. ASSUME NEW n \in S \cup {header}, ~Ends(n)
      PROVE  f[n][i] \in B /\ Before(n, f[n][i])
  <2>1. f[n][i] \in passed
    BY <1>1, EndHere
  <2>2. f[n][i] \in S /\ Before(n, f[n][i])
    BY <2>1, EndLater
  <2>3. ~Ends(f[n][i])
    BY <1>1, <2>1, EndLater
  <2> QED BY <2>2, <2>3
<1>2. S \subseteq Node /\ IsFiniteSet(S)
  BY DEF Listed
<1>3. \A m \in B : \E x \in B : PassedFor(m, x)
  BY <1>1, <1>2, HeaderApart DEF Before
<1>4. B = {}
  BY <1>2, <1>3, NoLast
<1> QED BY <1>1, <1>4

\* What the recursion of Walk demands of a function.
Walks(f, i, passed, go) ==
    go = [m \in Node \cup {header} |-> LET next == f[m][i]
                                       IN IF next \in passed THEN go[next] ELSE m]

\* Any such function finds the ends.
LEMMA WalksEnd ==
    ASSUME NEW f, NEW i, NEW S, Listed(f, i, S), NEW passed, passed \subseteq Node,
           NEW go, Walks(f, i, passed, go)
    PROVE  \A n \in S \cup {header} : IsEnd(f, i, S, n, passed, go[n])
<1> DEFINE B == {n \in S : ~IsEnd(f, i, S, n, passed, go[n])}
<1>0. S \subseteq Node /\ IsFiniteSet(S)
  BY DEF Listed
<1>1. \A n \in S \cup {header} : go[n] = IF f[n][i] \in passed THEN go[f[n][i]] ELSE n
  BY <1>0 DEF Walks
<1>2. ASSUME NEW n \in S \cup {header}, ~IsEnd(f, i, S, n, passed, go[n])
      PROVE  f[n][i] \in B /\ Before(n, f[n][i])
  <2>1. f[n][i] \in passed
    BY <1>1, <1>2, EndHere
  <2>2. f[n][i] \in S /\ Before(n, f[n][i])
    BY <2>1, EndLater
  <2>3. ~IsEnd(f, i, S, f[n][i], passed, go[f[n][i]])
    BY <1>1, <1>2, <2>1, EndLater
  <2> QED BY <2>2, <2>3
<1>3. \A m \in B : \E x \in B : PassedFor(m, x)
  BY <1>0, <1>2, HeaderApart DEF Before
<1>4. B = {}
  BY <1>0, <1>3, NoLast
<1> QED BY <1>2, <1>4

\* There is such a function.
LEMMA WalksDefined ==
    ASSUME NEW f, NEW i, NEW S, Listed(f, i, S), NEW passed, passed \subseteq Node,
           \A m \in Node \ S : f[m][i] \notin passed
    PROVE  \E go : Walks(f, i, passed, go)
<1> DEFINE E(m) == CHOOSE e : IsEnd(f, i, S, m, passed, e)
           go == [m \in Node \cup {header} |-> IF m \in S \cup {header} THEN E(m) ELSE m]
<1>0. S \subseteq Node
  BY DEF Listed
<1>1. \A n \in S \cup {header} : IsEnd(f, i, S, n, passed, E(n))
  BY EndExists
<1> HIDE DEF E
<1>2. ASSUME NEW m \in Node \cup {header}
      PROVE  go[m] = IF f[m][i] \in passed THEN go[f[m][i]] ELSE m
  <2>1. CASE m \in S \cup {header} /\ f[m][i] \in passed
    <3>1. f[m][i] \in S
      BY <2>1, EndLater
    <3>2. IsEnd(f, i, S, m, passed, E(f[m][i]))
      BY <1>1, <2>1, <3>1, EndLater
    <3>3. E(f[m][i]) = E(m)
      BY <1>1, <2>1, <3>2, OneEnd
    <3> QED BY <1>0, <2>1, <3>1, <3>3
  <2>2. CASE m \in S \cup {header} /\ f[m][i] \notin passed
    <3>1. IsEnd(f, i, S, m, passed, m)
      BY <2>2, EndHere
    <3>2. E(m) = m
      BY <1>1, <2>2, <3>1, OneEnd
    <3> QED BY <1>0, <2>2, <3>2
  <2>3. CASE m \notin S \cup {header}
    BY <2>3
  <2> QED BY <2>1, <2>2, <2>3
<1>3. go = [m \in Node \cup {header} |-> go[m]]
  OBVIOUS
<1> HIDE DEF go
<1>4. go = [m \in Node \cup {header} |-> IF f[m][i] \in passed THEN go[f[m][i]] ELSE m]
  BY <1>2, <1>3
<1>5. Walks(f, i, passed, go)
  BY <1>4 DEF Walks
<1> QED BY <1>5

\* The lists of a well-shaped structure.
LEMMA LevelIs ==
    ASSUME NEW v, NEW f, Shape(v, f), NEW i \in Levels
    PROVE  /\ Listed(f, i, OnLevel(v, f, i))
           /\ \A m \in Node \ OnLevel(v, f, i) : f[m][i] = Garbage
<1>1. OnLevel(v, f, i) \subseteq LiveIn(v) /\ OnLevel(v, f, i) \subseteq Node
  BY DEF OnLevel, LiveIn
<1>2. IsFiniteSet(OnLevel(v, f, i))
  BY <1>1, FS_Subset DEF Shape
<1>3. Linked(f, i, OnLevel(v, f, i))
  BY DEF Shape
<1>4. \A m \in Node \ OnLevel(v, f, i) : f[m][i] = Garbage
  BY DEF Shape, OnLevel, LiveIn
<1> QED BY <1>1, <1>2, <1>3, <1>4 DEF Listed

LEMMA WalkEnds ==
    ASSUME Shape(value, forward), NEW i \in Levels, NEW passed, passed \subseteq Node,
           NEW n \in OnLevel(value, forward, i) \cup {header}
    PROVE  IsEnd(forward, i, OnLevel(value, forward, i), n, passed, Walk(i, n, passed))
<1> DEFINE S == OnLevel(value, forward, i)
<1>1. Listed(forward, i, S) /\ \A m \in Node \ S : forward[m][i] = Garbage
  BY LevelIs
<1>2. \E go : Walks(forward, i, passed, go)
  BY <1>1, Pointers, WalksDefined
<1>3. PICK go : go = CHOOSE g : Walks(forward, i, passed, g)
  OBVIOUS
<1>4. Walks(forward, i, passed, go)
  BY <1>2, <1>3
<1>5. Walk(i, n, passed) = go[n]
  BY <1>3 DEF Walk, Walks
<1> QED BY <1>1, <1>4, <1>5, WalksEnd

-----------------------------------------------------------------------------
\* The descent through the levels.

\* What the recursion of Update demands of a function, from level l upwards.
Descends(l, passed, u) ==
    u = [i \in l..level |-> Walk(i, IF i = level THEN header ELSE u[i + 1], passed)]

LEMMA DescentDefined ==
    ASSUME level \in Nat, NEW passed PROVE \E u : Descends(0, passed, u)
<1> DEFINE Ok(l) == \E u : Descends(l, passed, u)
           T == {d \in 0..level : ~Ok(level - d)}
<1> SUFFICES ASSUME ~Ok(0) PROVE FALSE
  OBVIOUS
<1>1. level \in T
  BY level - level = 0
<1>2. PICK d \in T : \A e \in T : d <= e
  <2>1. T \in SUBSET Nat /\ T # {}
    BY <1>1
  <2> HIDE DEF T
  <2> QED BY <2>1, Smallest
<1>3. PICK l \in 0..level : l = level - d /\ ~Ok(l)
  BY <1>2
<1>4. CASE l = level
  <2> DEFINE u == [i \in l..level |-> Walk(i, header, passed)]
  <2>1. Descends(l, passed, u)
    BY <1>4 DEF Descends
  <2> QED BY <1>3, <2>1
<1>5. CASE l < level
  <2>1. d - 1 \notin T /\ d - 1 \in 0..level /\ level - (d - 1) = l + 1
    BY <1>2, <1>3, <1>5
  <2>2. Ok(l + 1)
    BY <2>1
  <2>3. PICK w : Descends(l + 1, passed, w)
    BY <2>2
  <2>4. \A i \in (l + 1)..level :
           w[i] = Walk(i, IF i = level THEN header ELSE w[i + 1], passed)
    BY <2>3 DEF Descends
  <2> DEFINE u == [i \in l..level |-> IF i = l THEN Walk(l, w[l + 1], passed) ELSE w[i]]
  <2>5. ASSUME NEW i \in l..level
        PROVE  u[i] = Walk(i, IF i = level THEN header ELSE u[i + 1], passed)
    <3>1. CASE i = l
      BY <1>5, <3>1
    <3>2. CASE i # l
      <4>1. i \in (l + 1)..level /\ (i # level => i + 1 \in l..level /\ i + 1 # l)
        BY <3>2
      <4>2. u[i] = w[i] /\ (i # level => u[i + 1] = w[i + 1])
        BY <3>2, <4>1
      <4> HIDE DEF u
      <4> QED BY <2>4, <4>1, <4>2
    <3> QED BY <3>1, <3>2
  <2>6. u = [i \in l..level |-> u[i]]
    OBVIOUS
  <2> HIDE DEF u
  <2>7. Descends(l, passed, u)
    BY <2>5, <2>6 DEF Descends
  <2> QED BY <1>3, <2>7
<1> QED BY <1>4, <1>5

\* Where the walk along level i begins.
Start(u, i) == IF i = level THEN header ELSE u[i + 1]

\* The walk along level i begins on it, ends on it, and comes to u[i].
Stage(u, i, passed) ==
    LET S == OnLevel(value, forward, i) IN
    /\ Start(u, i) \in S \cup {header} /\ u[i] \in S \cup {header}
    /\ IsEnd(forward, i, S, Start(u, i), passed, u[i])
    /\ u[i] = header \/ u[i] \in passed

LEMMA UpdateIs ==
    ASSUME Shape(value, forward), level \in Levels, NEW passed, passed \subseteq Node
    PROVE  \A i \in 0..level : Stage(Update(passed), i, passed)
<1>0. level \in Nat /\ \A i \in 0..level : i \in Levels
  BY SkipAssumption DEF Levels
<1>1. PICK u : u = CHOOSE w : Descends(0, passed, w)
  OBVIOUS
<1>2. Descends(0, passed, u)
  BY <1>0, <1>1, DescentDefined
<1>3. Update(passed) = u
  BY <1>1 DEF Update, Descends
<1>4. \A i \in 0..level : u[i] = Walk(i, Start(u, i), passed)
  BY <1>2 DEF Descends, Start
<1> DEFINE T == {d \in 0..level : ~Stage(u, level - d, passed)}
<1>5. ASSUME NEW i \in 0..level, i < level => Stage(u, i + 1, passed)
      PROVE  Stage(u, i, passed)
  <2> DEFINE S == OnLevel(value, forward, i)
  <2>1. /\ Start(u, i) \in S \cup {header}
        /\ Start(u, i) = header \/ Start(u, i) \in passed
    <3>1. CASE i = level
      BY <3>1 DEF Start
    <3>2. CASE i < level
      <4>1. i + 1 \in Levels /\ i \in Levels
        BY <1>0, <3>2
      <4>2. OnLevel(value, forward, i + 1) \subseteq S
        BY <1>0, <4>1 DEF Shape
      <4>3. Start(u, i) = u[i + 1]
        BY <1>0, <3>2 DEF Start
      <4> QED BY <1>5, <3>2, <4>2, <4>3 DEF Stage
    <3> QED BY <1>0, <3>1, <3>2
  <2>2. IsEnd(forward, i, S, Start(u, i), passed, u[i])
    BY <1>0, <1>4, <2>1, WalkEnds
  <2>3. u[i] \in S \cup {header}
    BY <2>1, <2>2 DEF IsEnd
  <2>4. u[i] = header \/ u[i] \in passed
    BY <2>1, <2>2 DEF IsEnd, UpTo
  <2> QED BY <2>1, <2>2, <2>3, <2>4 DEF Stage
<1>6. T = {}
  <2> SUFFICES ASSUME T # {} PROVE FALSE
    OBVIOUS
  <2>0. T \in SUBSET Nat
    BY <1>0
  <2>1. PICK d \in T : \A e \in T : d <= e
    <3> HIDE DEF T
    <3> QED BY <2>0, Smallest
  <2>2. level - d \in 0..level /\ ~Stage(u, level - d, passed)
    BY <1>0, <2>1
  <2>3. level - d < level /\ ~Stage(u, (level - d) + 1, passed)
    BY <1>5, <2>2
  <2>4. d - 1 \in 0..level /\ (level - d) + 1 = level - (d - 1)
    BY <1>0, <2>1, <2>3
  <2>5. d - 1 \in T
    BY <2>3, <2>4
  <2> QED BY <1>0, <2>1, <2>4, <2>5
<1>7. \A i \in 0..level : Stage(u, i, passed)
  <2>1. ASSUME NEW i \in 0..level PROVE Stage(u, i, passed)
    <3>1. level - i \in 0..level /\ level - (level - i) = i
      BY <1>0
    <3> QED BY <1>6, <3>1
  <2> QED BY <2>1
<1> QED BY <1>3, <1>7

-----------------------------------------------------------------------------
\* ZADD.

\* b is the place in the list S behind which n belongs.
Behind(f, i, S, n, b) ==
    /\ b \in S \cup {header} /\ Before(b, n)
    /\ f[b][i] \notin {m \in Node : PassedFor(m, n)}

\* A pointer to the first of the nodes after n, from what it does.
LEMMA FirstAfter ==
    ASSUME NEW n, NEW S, NEW x,
           \/ x \in S /\ Before(n, x) /\ \A y \in S : Before(n, y) => y = x \/ PassedFor(x, y)
           \/ x = NULL /\ \A y \in S : ~Before(n, y)
    PROVE  IsFirst(x, After(n, S))
  BY DEF IsFirst, After, Before

LEMMA LinkInsert ==
    ASSUME NEW f, NEW i, NEW S, Listed(f, i, S), NEW n \in Node, n \notin S,
           NEW b, Behind(f, i, S, n, b),
           NEW g, g[n][i] = f[b][i], g[b][i] = n,
           \A m \in S \cup {header} : m # b => g[m][i] = f[m][i]
    PROVE  Linked(g, i, S \cup {n})
<1>0. S \subseteq Node /\ header \notin Node /\ NULL \notin Node
  BY HeaderApart, Pointers DEF Listed
<1>1. PICK x : x = f[b][i]
  OBVIOUS
<1>2. /\ b \in S \cup {header} /\ Before(b, n)
      /\ x = NULL \/ x \in S
      /\ x \in S => Before(b, x) /\ PassedFor(n, x)
      /\ \A y \in S : Before(b, y) => x \in S /\ (y = x \/ PassedFor(x, y))
  <2>1. b \in S \cup {header} /\ Before(b, n) /\ x \notin {m \in Node : PassedFor(m, n)}
    BY <1>1 DEF Behind
  <2>2. /\ x = NULL \/ x \in S
        /\ x \in S => Before(b, x)
        /\ \A y \in S : Before(b, y) => x \in S /\ (y = x \/ PassedFor(x, y))
    BY <1>1, <2>1, NextIs
  <2>3. x \in S => PassedFor(n, x)
    BY <1>0, <2>1, Order
  <2> QED BY <2>1, <2>2, <2>3
<1>3. \A y \in S : Before(b, y) <=> PassedFor(n, y)
  <2>1. ASSUME NEW y \in S, Before(b, y) PROVE PassedFor(n, y)
    BY <1>0, <1>2, <2>1, Order
  <2>2. ASSUME NEW y \in S, PassedFor(n, y) PROVE Before(b, y)
    BY <1>0, <1>2, <2>2, Order DEF Before
  <2> QED BY <2>1, <2>2
<1>4. IsFirst(g[n][i], After(n, S \cup {n}))
  <2>1. \A y \in S \cup {n} : Before(n, y) <=> y \in S /\ PassedFor(n, y)
    BY <1>0, Order DEF Before
  <2>2. g[n][i] = x
    BY <1>1
  <2> QED BY <1>2, <1>3, <2>1, <2>2, FirstAfter
<1>5. IsFirst(g[b][i], After(b, S \cup {n}))
  BY <1>2, <1>3, FirstAfter
<1>6. ASSUME NEW m \in S \cup {header}, m # b
      PROVE  IsFirst(g[m][i], After(m, S \cup {n}))
  <2>1. PICK z : z = f[m][i]
    OBVIOUS
  <2>2. g[m][i] = z
    BY <1>6, <2>1
  <2>3. /\ z = NULL \/ z \in S
        /\ z \in S => Before(m, z)
        /\ \A y \in S : Before(m, y) => z \in S /\ (y = z \/ PassedFor(z, y))
    BY <2>1, NextIs
  <2>4. CASE Before(m, n)
    <3>1. b \in S /\ Before(m, b)
      <4>1. CASE m = header
        BY <1>2, <1>6, <4>1 DEF Before
      <4>2. CASE m \in S
        <5>1. PassedFor(m, n)
          BY <1>0, <2>4, <4>2 DEF Before
        <5>2. ~Before(b, m)
          BY <1>0, <1>3, <4>2, <5>1, Order
        <5> QED BY <1>0, <1>2, <1>6, <4>2, <5>2, Order DEF Before
      <4> QED BY <4>1, <4>2
    <3>2. z \in S /\ (b = z \/ PassedFor(z, b))
      BY <2>3, <3>1
    <3>3. PassedFor(b, n)
      BY <1>0, <1>2, <3>1 DEF Before
    <3>4. PassedFor(z, n)
      BY <1>0, <3>1, <3>2, <3>3, Order
    <3> QED BY <2>2, <2>3, <3>2, <3>4, FirstAfter
  <2>5. CASE ~Before(m, n)
    BY <2>2, <2>3, <2>5, FirstAfter
  <2> QED BY <2>4, <2>5
<1> QED BY <1>4, <1>5, <1>6 DEF Linked

Pointer == Node \cup {NULL, Garbage}

\* The pointers g are f with n put behind b[i] on the levels up to h.
Spliced(f, g, n, h, b) ==
    /\ g \in [Places -> [Levels -> Pointer]]
    /\ \A i \in Levels :
         /\ i <= h => g[n][i] = f[b[i]][i] /\ g[b[i]][i] = n
         /\ ~(i <= h) => g[n][i] = Garbage
         /\ \A m \in Places : m # n /\ ~(i <= h /\ m = b[i]) => g[m][i] = f[m][i]

\* The values z are v with w for n.
Stored(v, z, n, w) == z = [v EXCEPT ![n] = w]

LEMMA InsertShape ==
    ASSUME NEW v, NEW f, Shape(v, f), NEW n \in Node, n \notin LiveIn(v), NEW w \in Copies,
           NEW h \in Levels, NEW b, NEW g, Spliced(f, g, n, h, b),
           \A i \in Levels : Behind(f, i, OnLevel(v, f, i), n, b[i]),
           NEW z, Stored(v, z, n, w)
    PROVE  /\ Shape(z, g) /\ LiveIn(z) = LiveIn(v) \cup {n}
           /\ \A i \in Levels : OnLevel(z, g, i) =
                 IF i <= h THEN OnLevel(v, f, i) \cup {n} ELSE OnLevel(v, f, i)
<1> DEFINE S(i) == OnLevel(v, f, i)
<1>1. z = [v EXCEPT ![n] = w]
  BY DEF Stored
<1>2. /\ z \in [Node -> Copies \cup {NULL}]
      /\ z[n] # NULL /\ \A m \in Node : m # n => z[m] = v[m]
  BY <1>1, PointerAssumption DEF Shape
<1>3. LiveIn(z) = LiveIn(v) \cup {n}
  BY <1>2 DEF LiveIn
<1>4. \A i \in Levels : /\ S(i) \subseteq Node /\ n \notin S(i) /\ S(i) \subseteq LiveIn(v)
                        /\ Listed(f, i, S(i))
  BY LevelIs DEF OnLevel, LiveIn
<1>5. \A i \in Levels : b[i] \in S(i) \cup {header} /\ b[i] \in Places /\ b[i] # n
  BY <1>4, HeaderApart DEF Behind, Places
<1>6. ASSUME NEW i \in Levels
      PROVE  OnLevel(z, g, i) = IF i <= h THEN S(i) \cup {n} ELSE S(i)
  <2>1. ASSUME NEW m \in Node, m # n PROVE m \in OnLevel(z, g, i) <=> m \in S(i)
    <3>1. CASE i <= h /\ m = b[i]
      <4>1. m \in S(i)
        BY <1>5, <3>1, HeaderApart
      <4>2. g[m][i] = n /\ n # Garbage
        BY <3>1, Pointers DEF Spliced
      <4> QED BY <1>2, <2>1, <4>1, <4>2 DEF OnLevel
    <3>2. CASE ~(i <= h /\ m = b[i])
      <4>1. g[m][i] = f[m][i]
        BY <2>1, <3>2 DEF Spliced, Places
      <4> QED BY <1>2, <2>1, <4>1 DEF OnLevel
    <3> QED BY <3>1, <3>2
  <2>2. n \in OnLevel(z, g, i) <=> i <= h
    <3>1. CASE i <= h
      <4>1. f[b[i]][i] = NULL \/ f[b[i]][i] \in S(i)
        BY <1>4, <1>5, NextIs
      <4>2. g[n][i] # Garbage
        BY <1>4, <3>1, <4>1, Pointers DEF Spliced
      <4> QED BY <1>2, <3>1, <4>2 DEF OnLevel
    <3>2. CASE ~(i <= h)
      BY <3>2 DEF Spliced, OnLevel
    <3> QED BY <3>1, <3>2
  <2>3. OnLevel(z, g, i) \subseteq Node /\ S(i) \subseteq Node
    BY DEF OnLevel
  <2> HIDE DEF S
  <2> QED BY <1>4, <2>1, <2>2, <2>3
<1>7. ASSUME NEW i \in Levels PROVE Linked(g, i, OnLevel(z, g, i))
  <2>1. CASE i <= h
    <3>1. Linked(g, i, S(i) \cup {n})
      <4>1. g[n][i] = f[b[i]][i] /\ g[b[i]][i] = n
        BY <2>1 DEF Spliced
      <4>2. \A m \in S(i) \cup {header} : m # b[i] => g[m][i] = f[m][i]
        BY <1>4, HeaderApart DEF Spliced, Places
      <4>3. Behind(f, i, S(i), n, b[i]) /\ Listed(f, i, S(i)) /\ n \notin S(i)
        BY <1>4
      <4> HIDE DEF S
      <4> QED BY <4>1, <4>2, <4>3, LinkInsert
    <3> QED BY <1>6, <2>1, <3>1
  <2>2. CASE ~(i <= h)
    <3>1. \A m \in S(i) \cup {header} : g[m][i] = f[m][i]
      BY <1>4, <2>2, HeaderApart DEF Spliced, Places
    <3>2. Linked(f, i, S(i))
      BY <1>4 DEF Listed
    <3>3. Linked(g, i, S(i))
      <4> HIDE DEF S
      <4> QED BY <3>1, <3>2 DEF Linked
    <3> QED BY <1>6, <2>2, <3>3
  <2> QED BY <2>1, <2>2
<1>8. Shape(z, g)
  <2>1. g \in [Places -> [Levels -> Node \cup {NULL, Garbage}]]
    BY DEF Spliced, Pointer
  <2>2. IsFiniteSet(LiveIn(z))
    BY <1>3, FS_AddElement DEF Shape
  <2>3. OnLevel(z, g, 0) = LiveIn(z)
    <3>1. 0 \in Levels /\ 0 <= h
      BY SkipAssumption DEF Levels
    <3> QED BY <1>3, <1>6, <3>1 DEF Shape
  <2>4. ASSUME NEW i \in Levels, NEW j \in Levels, i <= j
        PROVE  OnLevel(z, g, j) \subseteq OnLevel(z, g, i)
    <3>1. S(j) \subseteq S(i)
      BY <2>4 DEF Shape
    <3>2. j <= h => i <= h
      BY <2>4, SkipAssumption DEF Levels
    <3> HIDE DEF S
    <3> QED BY <1>6, <3>1, <3>2
  <2>5. ASSUME NEW m \in Node \ LiveIn(z), NEW i \in Levels PROVE g[m][i] = Garbage
    <3>1. m \in Node \ LiveIn(v) /\ m # n /\ m \in Places
      BY <1>3 DEF Places
    <3>2. m # b[i]
      BY <1>4, <1>5, <3>1, HeaderApart
    <3>3. g[m][i] = f[m][i]
      BY <3>1, <3>2 DEF Spliced
    <3> QED BY <3>1, <3>3 DEF Shape
  <2> QED BY <1>2, <1>7, <2>1, <2>2, <2>3, <2>4, <2>5 DEF Shape
<1> QED BY <1>1, <1>3, <1>6, <1>8

LEMMA MaxIs ==
    ASSUME NEW T \in SUBSET Nat, NEW x \in T, \A y \in T : y <= x PROVE Max(T) = x
<1>1. \E m \in T : \A y \in T : m >= y
  OBVIOUS
<1>2. Max(T) \in T /\ \A y \in T : Max(T) >= y
  BY <1>1 DEF Max
<1>3. Max(T) >= x /\ Max(T) <= x /\ Max(T) \in Nat /\ x \in Nat
  BY <1>2
<1> QED BY <1>3

\* The place ZADD finds on each level for n: update[i], or the header above the list.
PlacesFor(u) == [i \in Levels |-> IF i <= level THEN u[i] ELSE header]

LEMMA ZaddPlace ==
    ASSUME Shape(value, forward), Top(value, forward, level), NEW n \in Node, NEW u,
           u = Update({m \in Node : PassedFor(m, n)})
    PROVE  \A i \in Levels :
              Behind(forward, i, OnLevel(value, forward, i), n, PlacesFor(u)[i])
<1> DEFINE passed == {m \in Node : PassedFor(m, n)}
<1>0. level \in Levels
  BY DEF Top
<1>1. \A i \in 0..level : Stage(u, i, passed)
  BY <1>0, UpdateIs
<1>2. ASSUME NEW i \in Levels, i <= level
      PROVE  Behind(forward, i, OnLevel(value, forward, i), n, u[i])
  <2>1. Stage(u, i, passed)
    BY <1>0, <1>1, <1>2 DEF Levels
  <2> QED BY <2>1 DEF Stage, IsEnd, Behind, Before
<1>3. ASSUME NEW i \in Levels, ~(i <= level)
      PROVE  Behind(forward, i, OnLevel(value, forward, i), n, header)
  <2>1. OnLevel(value, forward, i) = {}
    BY <1>0, <1>3, SkipAssumption DEF Top, Levels
  <2>2. forward[header][i] = NULL
    BY <2>1, LevelIs, NextIs
  <2> QED BY <2>2, Pointers DEF Behind, Before
<1> QED BY <1>2, <1>3 DEF PlacesFor

LEMMA SetKeepsShape ==
    ASSUME NEW v, NEW f, Shape(v, f), NEW n \in LiveIn(v), NEW w \in Copies
    PROVE  LET z == [v EXCEPT ![n] = w] IN
           /\ Shape(z, f) /\ LiveIn(z) = LiveIn(v)
           /\ \A i \in Levels : OnLevel(z, f, i) = OnLevel(v, f, i)
<1>1. PICK z : z = [v EXCEPT ![n] = w]
  OBVIOUS
<1>2. /\ z \in [Node -> Copies \cup {NULL}]
      /\ \A m \in Node : z[m] # NULL <=> v[m] # NULL
  BY <1>1, PointerAssumption DEF Shape, LiveIn
<1>3. LiveIn(z) = LiveIn(v)
  BY <1>2 DEF LiveIn
<1>4. \A i : OnLevel(z, f, i) = OnLevel(v, f, i)
  BY <1>2 DEF OnLevel
<1>5. Shape(z, f)
  BY <1>2, <1>3, <1>4 DEF Shape
<1> QED BY <1>1, <1>3, <1>4, <1>5

\* The walk of ZADD finds the node if it is there.
LEMMA ZaddFinds ==
    ASSUME Shape(value, forward), Top(value, forward, level), NEW n \in Node, NEW u,
           u = Update({m \in Node : PassedFor(m, n)})
    PROVE  forward[u[0]][0] = n <=> n \in LiveIn(value)
<1> DEFINE S == OnLevel(value, forward, 0)
<1>0. 0 \in Levels /\ level \in Levels /\ 0 <= level
  BY SkipAssumption DEF Levels, Top
<1>1. Behind(forward, 0, S, n, u[0])
  BY <1>0, ZaddPlace DEF PlacesFor
<1>2. Listed(forward, 0, S) /\ S = LiveIn(value)
  BY <1>0, LevelIs DEF Shape
<1> HIDE DEF S
<1>3. PICK x : x = forward[u[0]][0]
  OBVIOUS
<1>4. /\ u[0] \in S \cup {header} /\ Before(u[0], n)
      /\ x \notin {m \in Node : PassedFor(m, n)}
  BY <1>1, <1>3 DEF Behind
<1>5. /\ x = NULL \/ x \in S
      /\ n \in S => x \in S /\ (n = x \/ PassedFor(x, n))
  BY <1>2, <1>3, <1>4, NextIs
<1> QED BY <1>2, <1>3, <1>4, <1>5, Pointers DEF Listed

LEMMA ZaddStep ==
    ASSUME IInv, NEW k \in Keys, NEW w \in Copies, NEW s \in Scores,
           kvs_skiptable_zadd(k, w, s)
    PROVE  IInv'
<1>0. /\ Shape(value, forward) /\ Top(value, forward, level)
      /\ length = Cardinality(LiveIn(value)) /\ level \in Levels
  BY DEF IInv, List, Top
<1>1. PICK n \in Node : n = [score |-> s, key |-> k]
  BY DEF Node
<1>2. PICK u : u = Update({m \in Node : PassedFor(m, n)})
  OBVIOUS
<1>3. /\ value' = [value EXCEPT ![n] = w]
      /\ \/ /\ forward[u[0]][0] = n
            /\ UNCHANGED <<forward, level, length>>
         \/ /\ forward[u[0]][0] # n
            /\ \E h \in Levels : /\ forward' = Inserted(n, h, u)
                                 /\ level' = Max({level, h})
            /\ length' = length + 1
  BY <1>1, <1>2 DEF kvs_skiptable_zadd, Heights
<1>4. CASE forward[u[0]][0] = n
  <2>1. n \in LiveIn(value)
    BY <1>0, <1>2, <1>4, ZaddFinds
  <2>2. /\ Shape(value', forward) /\ LiveIn(value') = LiveIn(value)
        /\ \A i \in Levels : OnLevel(value', forward, i) = OnLevel(value, forward, i)
    BY <1>0, <1>3, <2>1, SetKeepsShape
  <2>3. forward' = forward /\ level' = level /\ length' = length
    BY <1>3, <1>4
  <2>4. Shape(value', forward')
    BY <2>2, <2>3
  <2>5. Top(value', forward', level')
    BY <1>0, <2>2, <2>3 DEF Top
  <2> QED BY <1>0, <2>2, <2>3, <2>4, <2>5 DEF IInv, List
<1>5. CASE forward[u[0]][0] # n
  <2>1. n \notin LiveIn(value)
    BY <1>0, <1>2, <1>5, ZaddFinds
  <2>2. PICK h \in Levels : forward' = Inserted(n, h, u) /\ level' = Max({level, h})
    BY <1>3, <1>5
  <2>3. PICK b : b = PlacesFor(u)
    OBVIOUS
  <2>4. \A i \in Levels : Behind(forward, i, OnLevel(value, forward, i), n, b[i])
    BY <1>0, <1>2, <2>3, ZaddPlace
  <2>5. Spliced(forward, forward', n, h, b)
    <3>1. DOMAIN forward = Places /\ forward \in [Places -> [Levels -> Pointer]]
      BY <1>0 DEF Shape, Pointer
    <3>2. \A i \in Levels : b[i] = IF i <= level THEN u[i] ELSE header
      BY <2>3 DEF PlacesFor
    <3>3. forward' = [m \in Places |-> [i \in Levels |->
             IF m = n THEN IF i <= h THEN forward[b[i]][i] ELSE Garbage
             ELSE IF i <= h /\ m = b[i] THEN n ELSE forward[m][i]]]
      BY <2>2, <3>1, <3>2 DEF Inserted
    <3>4. \A i \in Levels : b[i] \in Places /\ b[i] # n
      BY <2>1, <2>4, HeaderApart DEF Behind, OnLevel, LiveIn, Places
    <3>5. n \in Places
      BY DEF Places
    <3>6. forward' \in [Places -> [Levels -> Pointer]]
      BY <3>1, <3>3, <3>4 DEF Pointer
    <3>7. \A m \in Places, i \in Levels : forward'[m][i] =
             IF m = n THEN IF i <= h THEN forward[b[i]][i] ELSE Garbage
             ELSE IF i <= h /\ m = b[i] THEN n ELSE forward[m][i]
      BY <3>3
    <3> QED BY <3>4, <3>5, <3>6, <3>7 DEF Spliced
  <2>6. /\ Shape(value', forward') /\ LiveIn(value') = LiveIn(value) \cup {n}
        /\ \A i \in Levels : OnLevel(value', forward', i) =
              IF i <= h THEN OnLevel(value, forward, i) \cup {n}
              ELSE OnLevel(value, forward, i)
    <3>1. PICK g : g = forward'
      OBVIOUS
    <3>2. Spliced(forward, g, n, h, b)
      BY <2>5, <3>1
    <3>3. PICK z : z = value'
      OBVIOUS
    <3>4. Stored(value, z, n, w)
      BY <1>3, <3>3 DEF Stored
    <3>5. /\ Shape(z, g) /\ LiveIn(z) = LiveIn(value) \cup {n}
          /\ \A i \in Levels : OnLevel(z, g, i) =
                IF i <= h THEN OnLevel(value, forward, i) \cup {n}
                ELSE OnLevel(value, forward, i)
      BY <1>0, <2>1, <2>4, <3>2, <3>4, InsertShape
    <3> QED BY <3>1, <3>3, <3>5
  <2>7. Top(value', forward', level')
    <3>1. level \in Nat /\ h \in Nat
      BY <1>0, SkipAssumption DEF Levels
    <3>2. level' = IF level <= h THEN h ELSE level
      <4>1. CASE level <= h
        BY <2>2, <3>1, <4>1, MaxIs
      <4>2. CASE ~(level <= h)
        BY <2>2, <3>1, <4>2, MaxIs
      <4> QED BY <4>1, <4>2
    <3>3. level' \in Levels
      BY <1>0, <3>2
    <3>4. level' = 0 \/ OnLevel(value', forward', level') # {}
      BY <1>0, <2>6, <3>1, <3>2 DEF Top
    <3>5. ASSUME NEW i \in Levels, i > level' PROVE OnLevel(value', forward', i) = {}
      <4>1. ~(i <= h) /\ i > level
        BY <3>1, <3>2, <3>5 DEF Levels
      <4> QED BY <1>0, <2>6, <4>1 DEF Top
    <3> QED BY <3>3, <3>4, <3>5 DEF Top
  <2>8. length' = Cardinality(LiveIn(value'))
    <3>1. IsFiniteSet(LiveIn(value))
      BY <1>0 DEF Shape
    <3>2. Cardinality(LiveIn(value) \cup {n}) = Cardinality(LiveIn(value)) + 1
      BY <2>1, <3>1, FS_AddElement
    <3>3. length' = length + 1
      BY <1>3, <1>5
    <3> QED BY <1>0, <2>6, <3>2, <3>3
  <2> QED BY <2>6, <2>7, <2>8 DEF IInv, List
<1> QED BY <1>4, <1>5

-----------------------------------------------------------------------------
\* ZREM.

LEMMA LinkRemove ==
    ASSUME NEW f, NEW i, NEW S, Listed(f, i, S), NEW n \in S,
           NEW b \in S \cup {header}, f[b][i] = n,
           NEW g, g[b][i] = f[n][i],
           \A m \in S \cup {header} : m # b /\ m # n => g[m][i] = f[m][i]
    PROVE  Linked(g, i, S \ {n})
<1>0. S \subseteq Node /\ header \notin Node /\ NULL \notin Node
  BY HeaderApart, Pointers DEF Listed
<1>1. /\ Before(b, n)
      /\ \A y \in S : Before(b, y) => y = n \/ PassedFor(n, y)
  BY NextIs
<1>2. b # n
  BY <1>0, <1>1, Order DEF Before
<1>3. IsFirst(g[b][i], After(b, S \ {n}))
  <2>1. PICK x : x = f[n][i]
    OBVIOUS
  <2>2. /\ x = NULL \/ x \in S
        /\ x \in S => Before(n, x)
        /\ \A y \in S : Before(n, y) => x \in S /\ (y = x \/ PassedFor(x, y))
    BY <2>1, NextIs
  <2>3. \A y \in S \ {n} : Before(b, y) <=> Before(n, y)
    <3>1. \A y \in S : Before(n, y) <=> PassedFor(n, y)
      BY <1>0 DEF Before
    <3>2. ASSUME NEW y \in S, PassedFor(n, y) PROVE Before(b, y)
      BY <1>0, <1>1, <3>2, Order DEF Before
    <3> QED BY <1>1, <3>1, <3>2
  <2>4. ~Before(n, n)
    BY <1>0, Order DEF Before
  <2>5. g[b][i] = x
    BY <2>1
  <2>6. x \in S => x \in S \ {n}
    BY <2>2, <2>4
  <2> QED BY <2>2, <2>3, <2>5, <2>6, FirstAfter
<1>4. ASSUME NEW m \in S \cup {header}, m # b, m # n
      PROVE  IsFirst(g[m][i], After(m, S \ {n}))
  <2>1. PICK x : x = f[m][i]
    OBVIOUS
  <2>2. /\ x = NULL \/ x \in S
        /\ x \in S => Before(m, x)
        /\ \A y \in S : Before(m, y) => x \in S /\ (y = x \/ PassedFor(x, y))
    BY <2>1, NextIs
  <2>3. x # n
    <3> SUFFICES ASSUME x = n PROVE FALSE
      OBVIOUS
    <3>1. Before(m, n) /\ \A y \in S : Before(m, y) => y = n \/ PassedFor(n, y)
      BY <2>2
    <3>2. ~(b \in S /\ Before(m, b))
      BY <1>0, <1>1, <1>2, <3>1, Order DEF Before
    <3>3. ~(m \in S /\ Before(b, m))
      BY <1>0, <1>1, <1>4, <3>1, Order DEF Before
    <3> QED BY <1>0, <1>4, <3>2, <3>3, Order DEF Before
  <2>4. g[m][i] = x
    BY <1>4, <2>1
  <2> QED BY <2>2, <2>3, <2>4, FirstAfter
<1> QED BY <1>0, <1>2, <1>3, <1>4 DEF Linked

\* The pointers g are f without n, which b[i] was before on the levels L.
Cut(f, g, n, L, b) ==
    /\ g \in [Places -> [Levels -> Pointer]]
    /\ \A i \in Levels :
         /\ g[n][i] = Garbage
         /\ i \in L => g[b[i]][i] = f[n][i]
         /\ \A m \in Places : m # n /\ ~(i \in L /\ m = b[i]) => g[m][i] = f[m][i]

LEMMA RemoveShape ==
    ASSUME NEW v, NEW f, Shape(v, f), NEW n \in LiveIn(v), NEW L \in SUBSET Levels, NEW b,
           NEW g, Cut(f, g, n, L, b),
           \A i \in Levels : i \in L <=> n \in OnLevel(v, f, i),
           \A i \in L : b[i] \in OnLevel(v, f, i) \cup {header} /\ f[b[i]][i] = n,
           NEW z, Stored(v, z, n, NULL)
    PROVE  /\ Shape(z, g) /\ LiveIn(z) = LiveIn(v) \ {n}
           /\ \A i \in Levels : OnLevel(z, g, i) = OnLevel(v, f, i) \ {n}
<1> DEFINE S(i) == OnLevel(v, f, i)
<1>0. n \in Node
  BY DEF LiveIn
<1>1. z = [v EXCEPT ![n] = NULL]
  BY DEF Stored
<1>2. /\ z \in [Node -> Copies \cup {NULL}]
      /\ z[n] = NULL /\ \A m \in Node : m # n => z[m] = v[m]
  BY <1>0, <1>1 DEF Shape
<1>3. LiveIn(z) = LiveIn(v) \ {n}
  BY <1>0, <1>2 DEF LiveIn
<1>4. \A i \in Levels : /\ S(i) \subseteq Node /\ S(i) \subseteq LiveIn(v)
                        /\ Listed(f, i, S(i))
  BY LevelIs DEF OnLevel, LiveIn
<1>5. ASSUME NEW i \in L PROVE b[i] # n /\ b[i] \in Places /\ f[n][i] # Garbage
  <2>1. b[i] \in S(i) \cup {header} /\ f[b[i]][i] = n /\ n \in S(i) /\ i \in Levels
    OBVIOUS
  <2>2. Before(b[i], n)
    BY <1>4, <2>1, NextIs
  <2>3. f[n][i] # Garbage
    BY <2>1 DEF OnLevel
  <2> QED BY <1>0, <1>4, <2>1, <2>2, <2>3, Order, HeaderApart DEF Before, Places
<1>6. ASSUME NEW i \in Levels PROVE OnLevel(z, g, i) = S(i) \ {n}
  <2>1. ASSUME NEW m \in Node, m # n PROVE m \in OnLevel(z, g, i) <=> m \in S(i)
    <3>1. CASE i \in L /\ m = b[i]
      <4>1. m \in S(i)
        BY <2>1, <3>1, HeaderApart
      <4>2. g[m][i] = f[n][i] /\ f[n][i] # Garbage
        BY <1>5, <3>1 DEF Cut
      <4> QED BY <1>2, <2>1, <4>1, <4>2 DEF OnLevel
    <3>2. CASE ~(i \in L /\ m = b[i])
      <4>1. g[m][i] = f[m][i]
        BY <2>1, <3>2 DEF Cut, Places
      <4> QED BY <1>2, <2>1, <4>1 DEF OnLevel
    <3> QED BY <3>1, <3>2
  <2>2. n \notin OnLevel(z, g, i)
    BY <1>2 DEF OnLevel
  <2>3. OnLevel(z, g, i) \subseteq Node /\ S(i) \subseteq Node
    BY DEF OnLevel
  <2> HIDE DEF S
  <2> QED BY <2>1, <2>2, <2>3
<1>7. ASSUME NEW i \in Levels PROVE Linked(g, i, OnLevel(z, g, i))
  <2>1. CASE i \in L
    <3>1. n \in S(i) /\ b[i] \in S(i) \cup {header} /\ f[b[i]][i] = n /\ Listed(f, i, S(i))
      BY <1>4, <2>1
    <3>2. g[b[i]][i] = f[n][i]
      BY <2>1 DEF Cut
    <3>3. \A m \in S(i) \cup {header} : m # b[i] /\ m # n => g[m][i] = f[m][i]
      BY <1>4 DEF Cut, Places
    <3>4. Linked(g, i, S(i) \ {n})
      <4> HIDE DEF S
      <4> QED BY <3>1, <3>2, <3>3, LinkRemove
    <3> QED BY <1>6, <3>4
  <2>2. CASE i \notin L
    <3>1. n \notin S(i) /\ S(i) \ {n} = S(i)
      BY <2>2
    <3>2. \A m \in S(i) \cup {header} : g[m][i] = f[m][i]
      BY <1>0, <1>4, <2>2, <3>1, HeaderApart DEF Cut, Places
    <3>3. Linked(f, i, S(i))
      BY <1>4 DEF Listed
    <3>4. Linked(g, i, S(i))
      <4> HIDE DEF S
      <4> QED BY <3>2, <3>3 DEF Linked
    <3> QED BY <1>6, <3>1, <3>4
  <2> QED BY <2>1, <2>2
<1>8. Shape(z, g)
  <2>1. g \in [Places -> [Levels -> Node \cup {NULL, Garbage}]]
    BY DEF Cut, Pointer
  <2>2. IsFiniteSet(LiveIn(z))
    BY <1>3, FS_RemoveElement DEF Shape
  <2>3. OnLevel(z, g, 0) = LiveIn(z)
    <3>1. 0 \in Levels
      BY SkipAssumption DEF Levels
    <3> QED BY <1>3, <1>6, <3>1 DEF Shape
  <2>4. ASSUME NEW i \in Levels, NEW j \in Levels, i <= j
        PROVE  OnLevel(z, g, j) \subseteq OnLevel(z, g, i)
    <3>1. S(j) \subseteq S(i)
      BY <2>4 DEF Shape
    <3> HIDE DEF S
    <3> QED BY <1>6, <3>1
  <2>5. ASSUME NEW m \in Node \ LiveIn(z), NEW i \in Levels PROVE g[m][i] = Garbage
    <3>1. CASE m = n
      BY <3>1 DEF Cut
    <3>2. CASE m # n
      <4>1. m \in Node \ LiveIn(v) /\ m \in Places
        BY <1>3, <3>2 DEF Places
      <4>2. ~(i \in L /\ m = b[i])
        BY <1>4, <4>1, HeaderApart
      <4>3. g[m][i] = f[m][i]
        BY <3>2, <4>1, <4>2 DEF Cut
      <4> QED BY <4>1, <4>3 DEF Shape
    <3> QED BY <3>1, <3>2
  <2> QED BY <1>2, <1>7, <2>1, <2>2, <2>3, <2>4, <2>5 DEF Shape
<1> QED BY <1>3, <1>6, <1>8

\* What the walks of ZREM hold to, for the n they find on level 0: the first
\* node after u[0] has the key, and on no level does a walk pass beyond it.
Found(u, k, n) ==
    /\ \A i \in 0..level : Stage(u, i, {m \in Node : m.key < k})
    /\ n = forward[u[0]][0] /\ n \in LiveIn(value) /\ n.key = k

LEMMA ZremBefore ==
    ASSUME Shape(value, forward), level \in Levels, NEW k \in Keys, NEW u, NEW n, Found(u, k, n)
    PROVE  \A i \in 0..level : Before(u[i], n)
<1> DEFINE T == {i \in 0..level : ~Before(u[i], n)}
<1>0. level \in Nat /\ n \in Node /\ 0 \in Levels /\ 0 \in 0..level
  BY SkipAssumption DEF Levels, Found, LiveIn
<1>1. Before(u[0], n)
  <2>1. Listed(forward, 0, OnLevel(value, forward, 0)) /\ n \in OnLevel(value, forward, 0)
    BY <1>0, LevelIs DEF Found, Shape
  <2>2. u[0] \in OnLevel(value, forward, 0) \cup {header}
    BY <1>0 DEF Found, Stage
  <2> QED BY <2>1, <2>2, NextIs DEF Found
<1>2. ASSUME NEW i \in 0..level, i + 1 \in 0..level, Before(u[i], n) PROVE Before(u[i + 1], n)
  <2>1. Stage(u, i, {m \in Node : m.key < k}) /\ Start(u, i) = u[i + 1]
    BY <1>0, <1>2 DEF Found, Start
  <2>2. u[i] = u[i + 1] \/ (u[i] \in Node /\ Before(u[i + 1], u[i]))
    BY <2>1 DEF Stage, IsEnd, OnLevel
  <2>3. u[i + 1] \in Node \cup {header}
    BY <2>1 DEF Stage, OnLevel
  <2>4. CASE u[i] = u[i + 1]
    BY <1>2, <2>4
  <2>5. CASE u[i] \in Node /\ Before(u[i + 1], u[i])
    BY <1>0, <1>2, <2>3, <2>5, Order, HeaderApart DEF Before
  <2> QED BY <2>2, <2>4, <2>5
<1>3. T = {}
  <2> SUFFICES ASSUME T # {} PROVE FALSE
    OBVIOUS
  <2>0. T \in SUBSET Nat
    BY <1>0
  <2>1. PICK i \in T : \A j \in T : i <= j
    <3> HIDE DEF T
    <3> QED BY <2>0, Smallest
  <2>2. i # 0 /\ i \in 0..level /\ ~Before(u[i], n)
    BY <1>1, <2>1
  <2>3. i - 1 \in 0..level /\ (i - 1) + 1 = i /\ ~(i <= i - 1)
    BY <1>0, <2>2
  <2>4. Before(u[i - 1], n)
    BY <2>1, <2>3
  <2> QED BY <1>2, <2>2, <2>3, <2>4
<1> QED BY <1>3

LEMMA ZremFinds ==
    ASSUME Shape(value, forward), level \in Levels, NEW k \in Keys, NEW u, NEW n, Found(u, k, n),
           NEW i \in 0..level, n \in OnLevel(value, forward, i)
    PROVE  forward[u[i]][i] = n
<1> DEFINE passed == {m \in Node : m.key < k}
           S(j) == OnLevel(value, forward, j)
<1>0. /\ level \in Nat /\ n \in Node /\ 0 \in Levels /\ 0 \in 0..level
      /\ \A j \in 0..level : j \in Levels /\ S(j) \subseteq Node
  BY SkipAssumption DEF Levels, Found, LiveIn, OnLevel
<1>1. \A j \in 0..level : Stage(u, j, passed)
  BY DEF Found
<1>2. PICK x : x = forward[u[i]][i]
  OBVIOUS
<1>3. x \in S(i) /\ x \notin passed /\ Before(u[i], x) /\ (n = x \/ PassedFor(x, n))
  <2>1. u[i] \in S(i) \cup {header} /\ Listed(forward, i, S(i)) /\ n \in S(i)
    BY <1>0, <1>1, LevelIs DEF Stage
  <2>2. Before(u[i], n)
    BY ZremBefore
  <2>3. x \notin passed
    BY <1>1, <1>2 DEF Stage, IsEnd
  <2> HIDE DEF passed, S
  <2> QED BY <1>2, <2>1, <2>2, <2>3, NextIs
<1> DEFINE T == {d \in 0..i : ~Before(u[i - d], x)}
<1>4. ASSUME NEW j \in 0..i, j + 1 \in 0..i, Before(u[j + 1], x) PROVE Before(u[j], x)
  <2>0. j \in 0..level /\ j < level /\ j <= i
    BY <1>0, <1>4
  <2>1. Stage(u, j, passed) /\ Start(u, j) = u[j + 1]
    BY <1>0, <1>1, <2>0 DEF Start
  <2>2. x \in S(j) /\ x \in Node
    BY <1>0, <1>3, <2>0 DEF Shape
  <2>3. ~UpTo(x, u[j])
    BY <1>3, <1>4, <2>1, <2>2 DEF Stage, IsEnd
  <2>4. u[j] \in Node \cup {header}
    BY <1>0, <2>0, <2>1 DEF Stage
  <2> QED BY <2>2, <2>3, <2>4, Order, HeaderApart DEF UpTo, Before
<1>5. T = {}
  <2> SUFFICES ASSUME T # {} PROVE FALSE
    OBVIOUS
  <2>0. T \in SUBSET Nat
    BY <1>0
  <2>1. PICK d \in T : \A e \in T : d <= e
    <3> HIDE DEF T
    <3> QED BY <2>0, Smallest
  <2>2. d \in 0..i /\ ~Before(u[i - d], x)
    BY <2>1
  <2>3. d # 0
    <3> SUFFICES ASSUME d = 0 PROVE FALSE
      OBVIOUS
    <3>1. i - d = i
      BY <1>0
    <3> QED BY <1>3, <2>2, <3>1
  <2>4. /\ d - 1 \in 0..i /\ ~(d <= d - 1)
        /\ i - d \in 0..i /\ (i - d) + 1 \in 0..i /\ (i - d) + 1 = i - (d - 1)
    BY <1>0, <2>2, <2>3
  <2>5. Before(u[i - (d - 1)], x)
    BY <2>1, <2>4
  <2> QED BY <1>4, <2>2, <2>4, <2>5
<1>6. Before(u[0], x)
  <2>1. i \in 0..i /\ i - i = 0
    BY <1>0
  <2> QED BY <1>5, <2>1
<1>7. x \in S(0)
  BY <1>0, <1>3 DEF Shape
<1>8. u[0] \in S(0) \cup {header} /\ Listed(forward, 0, S(0))
  BY <1>0, <1>1, LevelIs DEF Stage
<1>9. x = n \/ PassedFor(n, x)
  <2>1. n = forward[u[0]][0]
    BY DEF Found
  <2> HIDE DEF S
  <2> QED BY <1>6, <1>7, <1>8, <2>1, NextIs
<1> QED BY <1>0, <1>2, <1>3, <1>7, <1>9, Order

\* A non-empty set of numbers up to l has a largest one.
LEMMA Largest ==
    ASSUME NEW l \in Nat, NEW T \in SUBSET (0..l), T # {}
    PROVE  \E x \in T : \A y \in T : y <= x
<1> DEFINE D == {d \in 0..l : l - d \in T}
<1>1. PICK t \in T : TRUE
  OBVIOUS
<1>2. l - t \in 0..l /\ l - (l - t) = t
  BY <1>1
<1>3. l - t \in D /\ D \in SUBSET Nat
  BY <1>1, <1>2
<1>4. PICK d \in D : \A e \in D : d <= e
  <2> HIDE DEF D
  <2> QED BY <1>3, Smallest
<1>5. ASSUME NEW y \in T PROVE y <= l - d
  <2>1. l - y \in 0..l /\ l - (l - y) = y
    OBVIOUS
  <2>2. d <= l - y
    BY <1>4, <2>1
  <2> QED BY <1>4, <2>1, <2>2
<1> QED BY <1>4, <1>5

\* The header points to something exactly on the levels in use.
LEMMA HeaderShows ==
    ASSUME NEW v, NEW f, Shape(v, f), NEW i \in Levels
    PROVE  f[header][i] = NULL <=> OnLevel(v, f, i) = {}
<1> DEFINE S == OnLevel(v, f, i)
<1>1. Listed(f, i, S) /\ NULL \notin S
  BY LevelIs, Pointers DEF Listed
<1> HIDE DEF S
<1>2. /\ f[header][i] = NULL \/ f[header][i] \in S
      /\ \A x \in S : f[header][i] \in S
  BY <1>1, NextIs DEF Before
<1>3. f[header][i] = NULL <=> S = {}
  BY <1>1, <1>2
<1> QED BY <1>3 DEF S

LEMMA LoweredIsTop ==
    ASSUME level \in Levels, NEW v, NEW f, Shape(v, f),
           \A i \in Levels : i > level => OnLevel(v, f, i) = {}
    PROVE  Top(v, f, Lowered(f))
<1> DEFINE H == {0} \cup {i \in 1..level : f[header][i] # NULL}
<1>0. level \in Nat /\ 0..level \subseteq Levels /\ 0 \in Levels
  BY SkipAssumption DEF Levels
<1>1. H \in SUBSET (0..level) /\ 0 \in H /\ H \in SUBSET Nat
  BY <1>0
<1>2. PICK x \in H : \A y \in H : y <= x
  <2> HIDE DEF H
  <2> QED BY <1>0, <1>1, Largest
<1>3. Lowered(f) = x
  <2>1. Max(H) = x
    <3> HIDE DEF H
    <3> QED BY <1>1, <1>2, MaxIs
  <2> QED BY <2>1 DEF Lowered
<1>4. x \in Levels /\ x \in 0..level
  BY <1>0, <1>1, <1>2
<1>5. x = 0 \/ OnLevel(v, f, x) # {}
  BY <1>2, <1>4, HeaderShows
<1>6. ASSUME NEW i \in Levels, i > x PROVE OnLevel(v, f, i) = {}
  <2>1. CASE i > level
    BY <2>1
  <2>2. CASE ~(i > level)
    <3>1. i \in 1..level /\ ~(i <= x)
      BY <1>0, <1>4, <1>6, <2>2 DEF Levels
    <3>2. f[header][i] = NULL
      BY <1>2, <3>1
    <3> QED BY <3>2, HeaderShows
  <2> QED BY <2>1, <2>2
<1> QED BY <1>3, <1>4, <1>5, <1>6 DEF Top

\* n is taken from the levels it is on.
LEMMA ZremLevels ==
    ASSUME Shape(value, forward), Top(value, forward, level),
           NEW k \in Keys, NEW u, NEW n, Found(u, k, n)
    PROVE  /\ LevelsOf(n, u) \subseteq Levels
           /\ \A i \in Levels : i \in LevelsOf(n, u) <=> n \in OnLevel(value, forward, i)
<1>0. level \in Levels /\ level \in Nat /\ 0..level \subseteq Levels /\ n \in Node
  BY SkipAssumption DEF Top, Levels, Found, LiveIn
<1>1. LevelsOf(n, u) \subseteq 0..level
  BY DEF LevelsOf
<1>2. ASSUME NEW i \in LevelsOf(n, u) PROVE n \in OnLevel(value, forward, i)
  <2>1. i \in 0..level /\ i \in Levels
    BY <1>0, <1>1
  <2>2. forward[u[i]][i] = n
    <3>1. i \in 0..i
      BY <1>0, <2>1
    <3> QED BY <3>1 DEF LevelsOf
  <2>3. u[i] \in OnLevel(value, forward, i) \cup {header}
    BY <2>1 DEF Found, Stage
  <2>4. Listed(forward, i, OnLevel(value, forward, i))
    BY <2>1, LevelIs
  <2> QED BY <1>0, <2>2, <2>3, <2>4, NextIs, Pointers
<1>3. ASSUME NEW i \in Levels, n \in OnLevel(value, forward, i) PROVE i \in LevelsOf(n, u)
  <2>1. i \in 0..level
    <3>1. ~(i > level)
      BY <1>3 DEF Top
    <3> QED BY <1>0, <3>1 DEF Levels
  <2>2. ASSUME NEW j \in 0..i PROVE forward[u[j]][j] = n
    <3>1. j \in 0..level /\ j \in Levels /\ j <= i
      BY <1>0, <2>1
    <3>2. n \in OnLevel(value, forward, j)
      BY <1>3, <3>1 DEF Shape
    <3> QED BY <1>0, <3>1, <3>2, ZremFinds
  <2> QED BY <2>1, <2>2 DEF LevelsOf
<1> QED BY <1>0, <1>1, <1>2, <1>3

LEMMA ZremStep ==
    ASSUME IInv, NEW k \in Keys, kvs_skiptable_zrem(k) PROVE IInv'
<1>0. /\ Shape(value, forward) /\ Top(value, forward, level)
      /\ length = Cardinality(LiveIn(value)) /\ level \in Levels
  BY DEF IInv, List, Top
<1>1. PICK u : u = Update({m \in Node : m.key < k})
  OBVIOUS
<1>2. PICK n : n = forward[u[0]][0]
  OBVIOUS
<1>3. \/ /\ n # NULL /\ n.key = k
         /\ value' = [value EXCEPT ![n] = NULL]
         /\ forward' = Removed(n, u) /\ level' = Lowered(forward')
         /\ length' = length - 1
      \/ UNCHANGED <<value, forward, level, length>>
  BY <1>1, <1>2 DEF kvs_skiptable_zrem
<1>4. CASE UNCHANGED <<value, forward, level, length>>
  BY <1>4 DEF IInv, List, Shape, Top, Linked, OnLevel, LiveIn
<1>5. CASE /\ n # NULL /\ n.key = k
           /\ value' = [value EXCEPT ![n] = NULL]
           /\ forward' = Removed(n, u) /\ level' = Lowered(forward')
           /\ length' = length - 1
  <2>0. level \in Nat /\ 0 \in 0..level /\ 0 \in Levels
    BY <1>0, SkipAssumption DEF Levels
  <2>1. \A i \in 0..level : Stage(u, i, {m \in Node : m.key < k})
    <3>1. {m \in Node : m.key < k} \subseteq Node
      OBVIOUS
    <3> QED BY <1>0, <1>1, <3>1, UpdateIs
  <2>2. n \in LiveIn(value)
    <3>1. u[0] \in OnLevel(value, forward, 0) \cup {header}
      BY <2>0, <2>1 DEF Stage
    <3>2. /\ Listed(forward, 0, OnLevel(value, forward, 0))
          /\ OnLevel(value, forward, 0) = LiveIn(value)
      BY <1>0, <2>0, LevelIs DEF Shape
    <3> QED BY <1>2, <1>5, <3>1, <3>2, NextIs
  <2>3. Found(u, k, n)
    BY <1>2, <1>5, <2>1, <2>2 DEF Found
  <2>4. PICK L : L = LevelsOf(n, u)
    OBVIOUS
  <2>5. L \in SUBSET Levels /\ \A i \in Levels : i \in L <=> n \in OnLevel(value, forward, i)
    BY <1>0, <2>3, <2>4, ZremLevels
  <2>6. ASSUME NEW i \in L
        PROVE  /\ u[i] \in OnLevel(value, forward, i) \cup {header}
               /\ forward[u[i]][i] = n /\ u[i] # n
    <3>1. i \in 0..level /\ n \in OnLevel(value, forward, i)
      BY <2>4, <2>5 DEF LevelsOf
    <3>2. forward[u[i]][i] = n /\ Before(u[i], n)
      BY <1>0, <2>3, <3>1, ZremFinds, ZremBefore
    <3>3. u[i] # n
      BY <2>2, <3>2, Order, HeaderApart DEF Before, LiveIn
    <3> QED BY <2>1, <3>1, <3>2, <3>3 DEF Stage
  <2>7. Cut(forward, forward', n, L, u)
    <3>1. DOMAIN forward = Places /\ forward \in [Places -> [Levels -> Pointer]]
      BY <1>0 DEF Shape, Pointer
    <3>2. forward' = [m \in Places |-> [i \in Levels |->
             IF m = n THEN Garbage
             ELSE IF i \in L /\ m = u[i] THEN forward[n][i] ELSE forward[m][i]]]
      BY <1>5, <2>4, <3>1 DEF Removed
    <3>3. n \in Places /\ \A i \in L : u[i] \in Places
      BY <2>2, <2>6 DEF Places, LiveIn, OnLevel
    <3>4. forward' \in [Places -> [Levels -> Pointer]]
      BY <3>1, <3>2, <3>3 DEF Pointer
    <3>5. \A m \in Places, i \in Levels : forward'[m][i] =
             IF m = n THEN Garbage
             ELSE IF i \in L /\ m = u[i] THEN forward[n][i] ELSE forward[m][i]
      BY <3>2
    <3> QED BY <2>6, <3>3, <3>4, <3>5 DEF Cut
  <2>8. /\ Shape(value', forward') /\ LiveIn(value') = LiveIn(value) \ {n}
        /\ \A i \in Levels :
              OnLevel(value', forward', i) = OnLevel(value, forward, i) \ {n}
    <3>1. PICK g : g = forward'
      OBVIOUS
    <3>2. PICK z : z = value'
      OBVIOUS
    <3>3. Cut(forward, g, n, L, u) /\ Stored(value, z, n, NULL)
      BY <1>5, <2>7, <3>1, <3>2 DEF Stored
    <3>4. \A i \in L : /\ u[i] \in OnLevel(value, forward, i) \cup {header}
                       /\ forward[u[i]][i] = n
      BY <2>6
    <3>5. /\ Shape(z, g) /\ LiveIn(z) = LiveIn(value) \ {n}
          /\ \A i \in Levels : OnLevel(z, g, i) = OnLevel(value, forward, i) \ {n}
      BY <1>0, <2>2, <2>5, <3>3, <3>4, RemoveShape
    <3> QED BY <3>1, <3>2, <3>5
  <2>9. Top(value', forward', level')
    <3>1. \A i \in Levels : i > level => OnLevel(value', forward', i) = {}
      BY <1>0, <2>8 DEF Top
    <3>2. PICK g : g = forward'
      OBVIOUS
    <3>3. PICK z : z = value'
      OBVIOUS
    <3>4. Top(z, g, Lowered(g))
      BY <1>0, <2>8, <3>1, <3>2, <3>3, LoweredIsTop
    <3>5. level' = Lowered(g)
      BY <1>5, <3>2
    <3> QED BY <3>2, <3>3, <3>4, <3>5
  <2>10. length' = Cardinality(LiveIn(value'))
    <3>1. IsFiniteSet(LiveIn(value))
      BY <1>0 DEF Shape
    <3>2. Cardinality(LiveIn(value) \ {n}) = Cardinality(LiveIn(value)) - 1
      BY <2>2, <3>1, FS_RemoveElement
    <3> QED BY <1>0, <1>5, <2>8, <3>2
  <2> QED BY <2>8, <2>9, <2>10 DEF IInv, List
<1> QED BY <1>3, <1>4, <1>5

-----------------------------------------------------------------------------
\* ZRANGE.

Rank(S, e) == Cardinality({d \in S : PassedFor(d, e)})
IsNth(S, i, e) == e \in S /\ Rank(S, e) = i - 1
Nth(S, i) == CHOOSE e \in S : Rank(S, e) = i - 1
AllNth(S) == \A i \in 1..Cardinality(S) : IsNth(S, i, Nth(S, i))

LEMMA OneNth ==
    ASSUME NEW S, S \subseteq Node, IsFiniteSet(S), NEW i \in Nat,
           NEW a, NEW b, IsNth(S, i, a), IsNth(S, i, b)
    PROVE  a = b
<1>1. ASSUME NEW c \in S, NEW e \in S, PassedFor(c, e) PROVE Rank(S, c) # Rank(S, e)
  <2> DEFINE C == {d \in S : PassedFor(d, c)}
             E == {d \in S : PassedFor(d, e)}
  <2>1. C \cup {c} \subseteq E /\ c \notin C
    BY <1>1, Order
  <2>2. IsFiniteSet(C) /\ IsFiniteSet(E)
    BY FS_Subset
  <2> HIDE DEF C, E
  <2>3. Cardinality(C \cup {c}) = Cardinality(C) + 1 /\ IsFiniteSet(C \cup {c})
    BY <2>1, <2>2, FS_AddElement
  <2>4. Cardinality(C \cup {c}) <= Cardinality(E)
    BY <2>1, <2>2, FS_Subset
  <2>5. Cardinality(C) \in Nat /\ Cardinality(E) \in Nat
    BY <2>2, FS_CardinalityType
  <2>6. Cardinality(C) # Cardinality(E)
    BY <2>3, <2>4, <2>5
  <2> QED BY <2>6 DEF C, E, Rank
<1> QED BY <1>1, Order DEF IsNth

\* The entries S are a and, behind it, R.
LeadsTo(a, R, S) == /\ a \in Node /\ R \subseteq Node /\ IsFiniteSet(R)
                    /\ (\A x \in R : PassedFor(a, x)) /\ S = R \cup {a}

LEMMA NthBehindFirst ==
    ASSUME NEW a, NEW R, NEW S, LeadsTo(a, R, S), AllNth(R)
    PROVE  /\ IsFiniteSet(S) /\ Cardinality(S) = Cardinality(R) + 1 /\ Cardinality(R) \in Nat
           /\ AllNth(S) /\ Nth(S, 1) = a
           /\ \A i \in 1..Cardinality(R) : Nth(S, i + 1) = Nth(R, i)
<1>0. /\ a \in Node /\ R \subseteq Node /\ IsFiniteSet(R) /\ a \notin R /\ S = R \cup {a}
      /\ \A x \in R : PassedFor(a, x)
  BY Order DEF LeadsTo
<1>1. IsFiniteSet(S) /\ Cardinality(S) = Cardinality(R) + 1 /\ Cardinality(R) \in Nat
  BY <1>0, FS_AddElement, FS_CardinalityType
<1>2. IsNth(S, 1, a)
  <2>1. {d \in S : PassedFor(d, a)} = {}
    BY <1>0, Order
  <2> QED BY <1>0, <2>1, FS_EmptySet DEF IsNth, Rank
<1>3. ASSUME NEW i \in 1..Cardinality(R) PROVE IsNth(S, i + 1, Nth(R, i))
  <2>1. PICK e : e = Nth(R, i)
    OBVIOUS
  <2>2. e \in R /\ Rank(R, e) = i - 1
    BY <2>1 DEF AllNth, IsNth
  <2> DEFINE D == {d \in R : PassedFor(d, e)}
  <2>3. {d \in S : PassedFor(d, e)} = D \cup {a} /\ a \notin D
    BY <1>0, <2>2
  <2>4. IsFiniteSet(D)
    BY <1>0, FS_Subset
  <2>5. Cardinality(D \cup {a}) = Cardinality(D) + 1
    BY <2>3, <2>4, FS_AddElement
  <2>6. Rank(S, e) = Rank(R, e) + 1
    BY <2>3, <2>5 DEF Rank
  <2>7. e \in S /\ Rank(S, e) = (i + 1) - 1
    BY <1>0, <1>1, <2>2, <2>6
  <2> QED BY <2>1, <2>7 DEF IsNth
<1>4. S \subseteq Node
  BY <1>0
<1>5. ASSUME NEW i \in Nat, NEW e, IsNth(S, i, e) PROVE Nth(S, i) = e /\ IsNth(S, i, Nth(S, i))
  <2>1. IsNth(S, i, Nth(S, i))
    BY <1>5 DEF IsNth, Nth
  <2> QED BY <1>1, <1>4, <1>5, <2>1, OneNth
<1>6. Nth(S, 1) = a /\ IsNth(S, 1, Nth(S, 1))
  BY <1>2, <1>5
<1>7. \A i \in 1..Cardinality(R) : Nth(S, i + 1) = Nth(R, i) /\ IsNth(S, i + 1, Nth(S, i + 1))
  BY <1>1, <1>3, <1>5
<1>8. ASSUME NEW i \in 1..Cardinality(S) PROVE IsNth(S, i, Nth(S, i))
  <2>1. CASE i = 1
    BY <1>6, <2>1
  <2>2. CASE i # 1
    <3>1. i - 1 \in 1..Cardinality(R) /\ (i - 1) + 1 = i
      BY <1>1, <2>2
    <3> QED BY <1>7, <3>1
  <2> QED BY <2>1, <2>2
<1>9. AllNth(S)
  BY <1>8 DEF AllNth
<1> QED BY <1>1, <1>6, <1>7, <1>9

\* The lines of the entries S.
Pair == Node \X (Copies \cup {NULL})
Line(S, i) == <<Nth(S, i), value[Nth(S, i)]>>
Listing(S) == [i \in 1..Cardinality(S) |-> Line(S, i)]

LEMMA ListingBehindFirst ==
    ASSUME value \in [Node -> Copies \cup {NULL}], NEW a, NEW R, NEW S,
           LeadsTo(a, R, S), AllNth(R)
    PROVE  Listing(S) = <<<<a, value[a]>>>> \o Listing(R)
<1>1. /\ Cardinality(S) = Cardinality(R) + 1 /\ Cardinality(R) \in Nat
      /\ Nth(S, 1) = a /\ \A i \in 1..Cardinality(R) : Nth(S, i + 1) = Nth(R, i)
  BY NthBehindFirst
<1>2. PICK n \in Nat : n = Cardinality(R)
  BY <1>1
<1>3. Line(S, 1) = <<a, value[a]>> /\ \A i \in 1..n : Line(S, i + 1) = Line(R, i)
  BY <1>1, <1>2 DEF Line
<1>4. PICK p : p = <<a, value[a]>>
  OBVIOUS
<1>5. p \in Pair /\ \A i \in 1..n : Line(R, i) \in Pair
  <2>1. a \in Node /\ \A i \in 1..n : Nth(R, i) \in Node
    BY <1>2 DEF AllNth, IsNth, LeadsTo
  <2> QED BY <1>4, <2>1 DEF Pair, Line
<1> DEFINE s == [i \in 1..n |-> Line(R, i)]
<1>6. s \in Seq(Pair) /\ Len(s) = n /\ \A i \in 1..n : s[i] = Line(R, i)
  BY <1>5
<1>7. <<p>> \in Seq(Pair) /\ Len(<<p>>) = 1 /\ <<p>>[1] = p
  BY <1>5
<1> HIDE DEF s
<1>8. PICK t : t = <<p>> \o s
  OBVIOUS
<1>9. t \in Seq(Pair) /\ Len(t) = n + 1 /\ t[1] = p /\ \A i \in 1..n : t[i + 1] = s[i]
  BY <1>6, <1>7, <1>8, ConcatProperties
<1>10. ASSUME NEW i \in 1..(n + 1) PROVE t[i] = Line(S, i)
  <2>1. CASE i = 1
    BY <1>3, <1>4, <1>9, <2>1
  <2>2. CASE i # 1
    <3>1. i - 1 \in 1..n /\ (i - 1) + 1 = i
      BY <2>2
    <3> QED BY <1>3, <1>6, <1>9, <3>1
  <2> QED BY <2>1, <2>2
<1>11. t = [i \in 1..(n + 1) |-> Line(S, i)]
  BY <1>9, <1>10
<1>12. s = Listing(R)
  BY <1>2 DEF s, Listing
<1> QED BY <1>1, <1>2, <1>4, <1>8, <1>11, <1>12 DEF Listing

\* The entries ZRANGE comes to from n.
Rest(n, max) == {x \in Live : Before(n, x) /\ x.score <= max}

LEMMA RestStep ==
    ASSUME IInv, NEW max \in Int, NEW n \in Live \cup {header}, NEW next, next = forward[n][0]
    PROVE  /\ next = NULL \/ (next \in Live /\ Before(n, next))
           /\ next = NULL \/ next.score > max => Rest(n, max) = {}
           /\ ~(next = NULL \/ next.score > max) =>
                 LeadsTo(next, Rest(next, max), Rest(n, max))
<1>0. 0 \in Levels /\ Shape(value, forward) /\ Live = LiveIn(value)
  BY SkipAssumption DEF Levels, IInv, List, Live, LiveIn
<1>1. Listed(forward, 0, Live)
  BY <1>0, LevelIs DEF Shape
<1>2. Live \subseteq Node /\ IsFiniteSet(Live) /\ NULL \notin Live /\ header \notin Node
  BY <1>1, Pointers, HeaderApart DEF Listed
<1>3. /\ next = NULL \/ next \in Live
      /\ next \in Live => Before(n, next)
      /\ \A x \in Live : Before(n, x) => next \in Live /\ (x = next \/ PassedFor(next, x))
  BY <1>1, NextIs
<1>4. \A x \in Live : x.score \in Int
  BY <1>2, Fields
<1>5. ASSUME next = NULL \/ next.score > max PROVE Rest(n, max) = {}
  <2>1. ASSUME NEW x \in Live, Before(n, x) PROVE ~(x.score <= max)
    <3>1. next \in Live /\ (x = next \/ PassedFor(next, x))
      BY <1>3, <2>1
    <3>2. next.score > max /\ next.score <= x.score
      BY <1>2, <1>4, <1>5, <3>1 DEF PassedFor
    <3> QED BY <1>4, <3>1, <3>2
  <2> QED BY <2>1 DEF Rest
<1>6. ASSUME ~(next = NULL \/ next.score > max)
      PROVE  LeadsTo(next, Rest(next, max), Rest(n, max))
  <2>1. next \in Live /\ next \in Node /\ next.score <= max /\ Before(n, next)
    BY <1>2, <1>3, <1>4, <1>6
  <2>2. \A x \in Live : Before(next, x) <=> PassedFor(next, x)
    BY <1>2, <2>1 DEF Before
  <2>3. \A x \in Rest(next, max) : PassedFor(next, x)
    BY <2>2 DEF Rest
  <2>4. \A x \in Live : PassedFor(next, x) => Before(n, x)
    BY <1>2, <2>1, Order DEF Before
  <2>5. Rest(n, max) = Rest(next, max) \cup {next}
    BY <1>3, <2>1, <2>2, <2>4 DEF Rest
  <2>6. Rest(next, max) \subseteq Node /\ IsFiniteSet(Rest(next, max))
    BY <1>2, FS_Subset DEF Rest
  <2> QED BY <2>1, <2>3, <2>5, <2>6 DEF LeadsTo
<1> QED BY <1>3, <1>5, <1>6

LEMMA LiveFacts ==
    ASSUME IInv
    PROVE  Live \subseteq Node /\ IsFiniteSet(Live) /\ value \in [Node -> Copies \cup {NULL}]
<1>1. Live = LiveIn(value)
  BY DEF Live, LiveIn
<1> QED BY <1>1 DEF IInv, List, Shape, LiveIn

LEMMA RestNth ==
    ASSUME IInv, NEW max \in Int
    PROVE  \A n \in Live \cup {header} : AllNth(Rest(n, max))
<1> DEFINE B == {n \in Live : ~AllNth(Rest(n, max))}
<1>1. ASSUME NEW n \in Live \cup {header}, ~AllNth(Rest(n, max))
      PROVE  \E m \in B : Before(n, m)
  <2>1. PICK next : next = forward[n][0]
    OBVIOUS
  <2>2. CASE next = NULL \/ next.score > max
    <3>1. Rest(n, max) = {}
      BY <2>1, <2>2, RestStep
    <3>2. AllNth({})
      BY FS_EmptySet DEF AllNth
    <3> QED BY <1>1, <3>1, <3>2
  <2>3. CASE ~(next = NULL \/ next.score > max)
    <3>1. LeadsTo(next, Rest(next, max), Rest(n, max)) /\ next \in Live /\ Before(n, next)
      BY <2>1, <2>3, RestStep
    <3>2. ~AllNth(Rest(next, max))
      BY <1>1, <3>1, NthBehindFirst
    <3> QED BY <3>1, <3>2
  <2> QED BY <2>2, <2>3
<1>2. \A m \in B : \E x \in B : PassedFor(m, x)
  BY <1>1, LiveFacts, HeaderApart DEF Before
<1>3. B = {}
  BY <1>2, LiveFacts, NoLast
<1> QED BY <1>1, <1>3

\* What the recursion of kvs_skiptable_zrange_entries demands of a function.
Collects(max, g) ==
    g = [n \in Live \cup {header} |->
           LET next == forward[n][0]
           IN IF next = NULL \/ next.score > max THEN <<>>
              ELSE <<<<next, value[next]>>>> \o g[next]]

LEMMA EmptyListing == Listing({}) = <<>>
<1>1. Cardinality({}) = 0
  BY FS_EmptySet
<1>2. [i \in 1..0 |-> Line({}, i)] = <<>>
  OBVIOUS
<1> QED BY <1>1, <1>2 DEF Listing

LEMMA ListingStep ==
    ASSUME IInv, NEW max \in Int, NEW n \in Live \cup {header}, NEW next, next = forward[n][0]
    PROVE  Listing(Rest(n, max)) =
              IF next = NULL \/ next.score > max THEN <<>>
              ELSE <<<<next, value[next]>>>> \o Listing(Rest(next, max))
<1>1. CASE next = NULL \/ next.score > max
  BY <1>1, RestStep, EmptyListing
<1>2. CASE ~(next = NULL \/ next.score > max)
  <2>1. LeadsTo(next, Rest(next, max), Rest(n, max)) /\ next \in Live
    BY <1>2, RestStep
  <2>2. AllNth(Rest(next, max))
    BY <2>1, RestNth
  <2>3. value \in [Node -> Copies \cup {NULL}]
    BY LiveFacts
  <2> QED BY <1>2, <2>1, <2>2, <2>3, ListingBehindFirst
<1> QED BY <1>1, <1>2

LEMMA CollectsListing ==
    ASSUME IInv, NEW max \in Int, NEW g, Collects(max, g)
    PROVE  \A n \in Live \cup {header} : g[n] = Listing(Rest(n, max))
<1> DEFINE B == {n \in Live : g[n] # Listing(Rest(n, max))}
<1>1. ASSUME NEW n \in Live \cup {header}, g[n] # Listing(Rest(n, max))
      PROVE  \E m \in B : Before(n, m)
  <2>1. PICK next : next = forward[n][0]
    OBVIOUS
  <2>2. g[n] = IF next = NULL \/ next.score > max THEN <<>>
               ELSE <<<<next, value[next]>>>> \o g[next]
    BY <2>1 DEF Collects
  <2>3. Listing(Rest(n, max)) =
              IF next = NULL \/ next.score > max THEN <<>>
              ELSE <<<<next, value[next]>>>> \o Listing(Rest(next, max))
    BY <2>1, ListingStep
  <2>4. ~(next = NULL \/ next.score > max) /\ g[next] # Listing(Rest(next, max))
    BY <1>1, <2>2, <2>3
  <2>5. next \in Live /\ Before(n, next)
    BY <2>1, <2>4, RestStep
  <2> QED BY <2>4, <2>5
<1>2. \A m \in B : \E x \in B : PassedFor(m, x)
  BY <1>1, LiveFacts, HeaderApart DEF Before
<1>3. B = {}
  BY <1>2, LiveFacts, NoLast
<1> QED BY <1>1, <1>3

LEMMA CollectsDefined ==
    ASSUME IInv, NEW max \in Int PROVE \E g : Collects(max, g)
<1> DEFINE g == [n \in Live \cup {header} |-> Listing(Rest(n, max))]
<1>1. ASSUME NEW n \in Live \cup {header}
      PROVE  g[n] = LET next == forward[n][0]
                    IN IF next = NULL \/ next.score > max THEN <<>>
                       ELSE <<<<next, value[next]>>>> \o g[next]
  <2>1. PICK next : next = forward[n][0]
    OBVIOUS
  <2>2. ~(next = NULL \/ next.score > max) => g[next] = Listing(Rest(next, max))
    BY <2>1, RestStep
  <2>3. g[n] = Listing(Rest(n, max))
    OBVIOUS
  <2> HIDE DEF g
  <2> QED BY <2>1, <2>2, <2>3, ListingStep
<1>2. g = [n \in Live \cup {header} |-> g[n]]
  OBVIOUS
<1> HIDE DEF g
<1>3. Collects(max, g)
  BY <1>1, <1>2 DEF Collects
<1> QED BY <1>3

\* The walk of ZRANGE stops before the first entry with a score of at least min.
Within(min, max) == {x \in Live : min <= x.score /\ x.score <= max}

LEMMA RangeStart ==
    ASSUME IInv, NEW min \in Int, NEW max \in Int, NEW e,
           e = Walk(0, header, {m \in Node : m.score < min})
    PROVE  e \in Live \cup {header} /\ Rest(e, max) = Within(min, max)
<1> DEFINE passed == {m \in Node : m.score < min}
<1>0. 0 \in Levels /\ Shape(value, forward) /\ Live = LiveIn(value)
  BY SkipAssumption DEF Levels, IInv, List, Live, LiveIn
<1>1. OnLevel(value, forward, 0) = Live /\ Live \subseteq Node
  BY <1>0, LiveFacts DEF Shape
<1>2. Listed(forward, 0, Live)
  BY <1>0, <1>1, LevelIs
<1>3. IsEnd(forward, 0, Live, header, passed, e)
  <2>1. passed \subseteq Node
    OBVIOUS
  <2> HIDE DEF passed
  <2>2. IsEnd(forward, 0, OnLevel(value, forward, 0), header, passed, Walk(0, header, passed))
    BY <1>0, <2>1, WalkEnds
  <2> QED BY <1>1, <2>2 DEF passed
<1>4. e \in Live \cup {header} /\ forward[e][0] \notin passed
  BY <1>3 DEF IsEnd
<1>5. \A x \in Live : x.score \in Int
  BY <1>1, Fields
<1>6. ASSUME NEW x \in Live, Before(e, x) PROVE min <= x.score
  <2>1. PICK y : y = forward[e][0]
    OBVIOUS
  <2>2. y \in Live /\ (x = y \/ PassedFor(y, x))
    BY <1>2, <1>4, <1>6, <2>1, NextIs
  <2>3. min <= y.score
    BY <1>1, <1>4, <1>5, <2>1, <2>2
  <2> QED BY <1>5, <2>2, <2>3 DEF PassedFor
<1>7. ASSUME NEW x \in Live, min <= x.score PROVE Before(e, x)
  <2>1. ~UpTo(x, e)
    <3>1. x \notin passed
      BY <1>5, <1>7
    <3>2. Before(header, x)
      BY DEF Before
    <3> HIDE DEF passed
    <3> QED BY <1>3, <3>1, <3>2 DEF IsEnd
  <2> QED BY <1>1, <1>4, <2>1, Order DEF UpTo, Before
<1> QED BY <1>4, <1>6, <1>7 DEF Rest, Within

\* A prefix of a list that is given by its elements.
LEMMA PrefixIs ==
    ASSUME NEW n \in Nat, NEW r \in Nat, NEW s, s \in [1..n -> Pair]
    PROVE  LET k == IF n < r THEN n ELSE r IN
           Prefix(s, r) \in [1..k -> Pair] /\ \A i \in 1..k : Prefix(s, r)[i] = s[i]
<1> DEFINE k == IF n < r THEN n ELSE r
<1>1. s \in Seq(Pair) /\ Len(s) = n
  OBVIOUS
<1>2. Min({n, r}) = k
  <2>1. \E m \in {n, r} : \A y \in {n, r} : m <= y
    OBVIOUS
  <2>2. Min({n, r}) \in {n, r} /\ \A y \in {n, r} : Min({n, r}) <= y
    BY <2>1 DEF Min
  <2> QED BY <2>2
<1>3. k \in Nat /\ k <= n
  OBVIOUS
<1> HIDE DEF k
<1>4. SubSeq(s, 1, k) = [i \in 1..k |-> s[i]]
  BY <1>1, <1>3
<1>5. Prefix(s, r) = [i \in 1..k |-> s[i]]
  BY <1>1, <1>2, <1>4 DEF Prefix
<1>6. \A i \in 1..k : s[i] \in Pair
  BY <1>3
<1> QED BY <1>5, <1>6 DEF k

\* What ZRANGE prints: the first of the entries within the range, in order.
LEMMA RangeIs ==
    ASSUME IInv, NEW min \in Int, NEW max \in Int
    PROVE  LET W == Within(min, max)
               F == IF Cardinality(W) < MAX_RESULTS THEN Cardinality(W) ELSE MAX_RESULTS
               K == IF F < RESULT_LINES THEN F ELSE RESULT_LINES
           IN Printed(kvs_skiptable_zrange_entries(min, max)) =
                [ret |-> "LIST", cut |-> F > RESULT_LINES,
                 lines |-> [i \in 1..K |-> Line(W, i)]]
<1> DEFINE F(n) == IF n < MAX_RESULTS THEN n ELSE MAX_RESULTS
           K(n) == IF n < RESULT_LINES THEN n ELSE RESULT_LINES
<1>0. MAX_RESULTS \in Nat /\ RESULT_LINES \in Nat
  BY SkipAssumption
<1>1. PICK g : g = CHOOSE h : Collects(max, h)
  OBVIOUS
<1>2. Collects(max, g)
  BY <1>1, CollectsDefined
<1>3. PICK e : e = Walk(0, header, {m \in Node : m.score < min})
  OBVIOUS
<1>4. PICK W : W = Within(min, max)
  OBVIOUS
<1>5. e \in Live \cup {header} /\ Rest(e, max) = W
  BY <1>3, <1>4, RangeStart
<1>6. kvs_skiptable_zrange_entries(min, max) = Prefix(g[e], MAX_RESULTS)
  BY <1>1, <1>3 DEF kvs_skiptable_zrange_entries, Collects
<1>7. g[e] = Listing(W)
  BY <1>2, <1>5, CollectsListing
<1>8. AllNth(W)
  BY <1>5, RestNth
<1>9. W \subseteq Node /\ IsFiniteSet(W)
  BY <1>4, LiveFacts, FS_Subset DEF Within
<1>10. PICK n \in Nat : n = Cardinality(W)
  BY <1>9, FS_CardinalityType
<1>11. \A i \in 1..n : Line(W, i) \in Pair
  BY <1>8, <1>9, <1>10, LiveFacts DEF AllNth, IsNth, Line, Pair
<1>12. Listing(W) \in [1..n -> Pair] /\ \A i \in 1..n : Listing(W)[i] = Line(W, i)
  BY <1>10, <1>11 DEF Listing
<1>13. PICK s : s = kvs_skiptable_zrange_entries(min, max)
  OBVIOUS
<1>14. PICK f \in Nat : f = F(n) /\ f <= n
  BY <1>0
<1>15. s \in [1..f -> Pair] /\ \A i \in 1..f : s[i] = Line(W, i)
  <2>1. s \in [1..f -> Pair] /\ \A i \in 1..f : s[i] = Listing(W)[i]
    BY <1>0, <1>6, <1>7, <1>12, <1>13, <1>14, PrefixIs
  <2> QED BY <1>12, <1>14, <2>1
<1>16. PICK k \in Nat : k = K(f) /\ k <= f
  BY <1>0
<1>17. Prefix(s, RESULT_LINES) = [i \in 1..k |-> Line(W, i)]
  <2>1. /\ Prefix(s, RESULT_LINES) \in [1..k -> Pair]
        /\ \A i \in 1..k : Prefix(s, RESULT_LINES)[i] = s[i]
    BY <1>0, <1>15, <1>16, PrefixIs
  <2> QED BY <1>15, <1>16, <2>1
<1>18. Len(s) = f
  BY <1>15
<1>19. Printed(s) = [ret |-> "LIST", cut |-> f > RESULT_LINES,
                     lines |-> [i \in 1..k |-> Line(W, i)]]
  BY <1>17, <1>18 DEF Printed
<1> QED BY <1>4, <1>10, <1>13, <1>14, <1>16, <1>19

-----------------------------------------------------------------------------
\* The list implements the sorted set.

LEMMA SameNotions ==
    /\ SortedSet!Entry = Node /\ SortedSet!Present = Live
    /\ \A d, e : SortedSet!Precedes(d, e) <=> PassedFor(d, e)
    /\ \A S : SortedSet!Cardinality(S) = Cardinality(S)
    /\ \A S, i : SortedSet!Nth(S, i) = Nth(S, i)
<1>1. SortedSet!Entry = Node /\ SortedSet!Present = Live
  BY DEF SortedSet!Entry, SortedSet!Present, Node, Live
<1>2. \A d, e : SortedSet!Precedes(d, e) <=> PassedFor(d, e)
  BY DEF SortedSet!Precedes, PassedFor
<1>3. \A S : SortedSet!Cardinality(S) = Cardinality(S)
  BY DEF SortedSet!Cardinality, Cardinality
<1>4. \A S, i : SortedSet!Nth(S, i) = Nth(S, i)
  BY Zenon DEF SortedSet!Nth, SortedSet!Precedes, SortedSet!Cardinality,
               PassedFor, Nth, Rank, Cardinality
<1> QED BY <1>1, <1>2, <1>3, <1>4

LEMMA ZaddImplements ==
    ASSUME IInv, NEW k \in Keys, NEW w \in Copies, NEW s \in Scores,
           kvs_skiptable_zadd(k, w, s)
    PROVE  SortedSet!ZAdd(k, w, s)
<1>1. PICK n \in Node : n = [score |-> s, key |-> k]
  BY DEF Node
<1>2. PICK u : u = Update({m \in Node : PassedFor(m, n)})
  OBVIOUS
<1>3. /\ value' = [value EXCEPT ![n] = w]
      /\ \/ forward[u[0]][0] = n /\ resp' = Answer("EXIST")
         \/ forward[u[0]][0] # n /\ resp' = Answer("OK")
  BY <1>1, <1>2 DEF kvs_skiptable_zadd
<1>4. forward[u[0]][0] = n <=> n \in SortedSet!Present
  <2>1. Live = LiveIn(value) /\ Shape(value, forward) /\ Top(value, forward, level)
    BY DEF IInv, List, Live, LiveIn
  <2> QED BY <1>2, <2>1, ZaddFinds, SameNotions
<1>5. resp' = Answer(IF n \in SortedSet!Present THEN "EXIST" ELSE "OK")
  BY <1>3, <1>4
<1>6. SortedSet!Says(IF n \in SortedSet!Present THEN "EXIST" ELSE "OK")
  BY <1>5 DEF SortedSet!Says, Answer
<1> QED BY <1>1, <1>3, <1>6 DEF SortedSet!ZAdd

\* A key that ZREM misses is out of place: the walk stopped before it at a larger
\* key, or went beyond it on a smaller one.
LEMMA ZremMisses ==
    ASSUME IInv, NEW k \in Keys, NEW u, u = Update({m \in Node : m.key < k}),
           NEW n, n = forward[u[0]][0], ~(n # NULL /\ n.key = k),
           NEW e \in Live, e.key = k
    PROVE  SortedSet!OutOfPlace(e)
<1>0. /\ 0 \in Levels /\ 0 \in 0..level /\ level \in Levels
      /\ Shape(value, forward) /\ Live = LiveIn(value)
  BY SkipAssumption DEF Levels, IInv, List, Top, Live, LiveIn
<1>1. OnLevel(value, forward, 0) = Live /\ Live \subseteq Node
  BY <1>0, LiveFacts DEF Shape
<1>2. Listed(forward, 0, Live)
  BY <1>0, <1>1, LevelIs
<1>3. Stage(u, 0, {m \in Node : m.key < k})
  <2>1. {m \in Node : m.key < k} \subseteq Node
    OBVIOUS
  <2> QED BY <1>0, <2>1, UpdateIs
<1>4. /\ u[0] \in Live \cup {header} /\ n \notin {m \in Node : m.key < k}
      /\ u[0] = header \/ u[0].key < k
  BY <1>1, <1>3 DEF Stage, IsEnd
<1>5. \A x \in Live : x.key \in Int
  BY <1>1, Fields
<1>6. CASE Before(u[0], e)
  <2>1. n \in Live /\ (e = n \/ PassedFor(n, e))
    BY <1>2, <1>4, <1>6, NextIs
  <2>2. n.key > e.key /\ PassedFor(n, e)
    BY <1>1, <1>4, <1>5, <2>1, Pointers
  <2>3. \E d \in Live : PassedFor(d, e) /\ d.key > e.key
    BY <2>1, <2>2
  <2> QED BY <2>3, SameNotions DEF SortedSet!OutOfPlace
<1>7. CASE ~Before(u[0], e)
  <2>1. u[0] \in Live /\ u[0].key < e.key
    BY <1>4, <1>7 DEF Before
  <2>2. PassedFor(e, u[0])
    BY <1>1, <1>5, <1>7, <2>1, Order DEF Before
  <2>3. \E d \in Live : PassedFor(e, d) /\ d.key < e.key
    BY <2>1, <2>2
  <2> QED BY <2>3, SameNotions DEF SortedSet!OutOfPlace
<1> QED BY <1>6, <1>7

LEMMA ZremImplements ==
    ASSUME IInv, NEW k \in Keys, kvs_skiptable_zrem(k) PROVE SortedSet!ZRem(k)
<1>1. PICK u : u = Update({m \in Node : m.key < k})
  OBVIOUS
<1>2. PICK n : n = forward[u[0]][0]
  OBVIOUS
<1>3. \/ /\ n # NULL /\ n.key = k
         /\ value' = [value EXCEPT ![n] = NULL] /\ resp' = Answer("OK")
      \/ /\ ~(n # NULL /\ n.key = k)
         /\ resp' = Answer("NO_EXIST") /\ value' = value
  BY <1>1, <1>2 DEF kvs_skiptable_zrem
<1>4. CASE n # NULL /\ n.key = k
  <2>1. n \in Live
    <3>0. /\ 0 \in Levels /\ 0 \in 0..level /\ level \in Levels
          /\ Shape(value, forward) /\ Live = LiveIn(value)
      BY SkipAssumption DEF Levels, IInv, List, Top, Live, LiveIn
    <3>1. OnLevel(value, forward, 0) = Live
      BY <3>0 DEF Shape
    <3>2. Listed(forward, 0, Live)
      BY <3>0, <3>1, LevelIs
    <3>3. Stage(u, 0, {m \in Node : m.key < k})
      <4>1. {m \in Node : m.key < k} \subseteq Node
        OBVIOUS
      <4> QED BY <1>1, <3>0, <4>1, UpdateIs
    <3>4. u[0] \in Live \cup {header}
      BY <3>1, <3>3 DEF Stage
    <3> QED BY <1>2, <1>4, <3>2, <3>4, NextIs
  <2>2. value' = [value EXCEPT ![n] = NULL] /\ resp' = Answer("OK")
    BY <1>3, <1>4
  <2>3. n \in SortedSet!Present /\ n.key = k /\ SortedSet!Says("OK")
    BY <1>4, <2>1, <2>2, SameNotions DEF SortedSet!Says, Answer
  <2> QED BY <2>2, <2>3 DEF SortedSet!ZRem
<1>5. CASE ~(n # NULL /\ n.key = k)
  <2>1. \A e \in SortedSet!Present : e.key = k => SortedSet!OutOfPlace(e)
    BY <1>1, <1>2, <1>5, ZremMisses, SameNotions
  <2>2. SortedSet!Says("NO_EXIST") /\ value' = value
    BY <1>3, <1>5 DEF SortedSet!Says, Answer
  <2> QED BY <2>1, <2>2 DEF SortedSet!ZRem
<1> QED BY <1>4, <1>5

LEMMA ZrangeImplements ==
    ASSUME IInv, NEW min \in Scores, NEW max \in Scores, CMD_ZRANGE(min, max)
    PROVE  SortedSet!ZRange(min, max)
<1>0. min \in Int /\ max \in Int
  BY SkipAssumption
<1>1. PICK W : W = Within(min, max)
  OBVIOUS
<1>2. W = {e \in SortedSet!Present : min <= e.score /\ e.score <= max}
  BY <1>1, SameNotions DEF Within
<1> DEFINE F == IF Cardinality(W) < MAX_RESULTS THEN Cardinality(W) ELSE MAX_RESULTS
           K == IF F < RESULT_LINES THEN F ELSE RESULT_LINES
<1>3. Printed(kvs_skiptable_zrange_entries(min, max)) =
         [ret |-> "LIST", cut |-> F > RESULT_LINES, lines |-> [i \in 1..K |-> Line(W, i)]]
  BY <1>0, <1>1, RangeIs
<1>4. resp' = [ret |-> "LIST", cut |-> F > RESULT_LINES, lines |-> [i \in 1..K |-> Line(W, i)]]
  BY <1>3 DEF CMD_ZRANGE
<1>5. [i \in 1..K |-> Line(W, i)] =
        [i \in 1..K |-> <<SortedSet!Nth(W, i), value[SortedSet!Nth(W, i)]>>]
  BY SameNotions DEF Line
<1>6. F = SortedSet!AtMost(Cardinality(W), MAX_RESULTS) /\ K = SortedSet!AtMost(F, RESULT_LINES)
  BY DEF SortedSet!AtMost
<1>7. value' = value
  BY DEF CMD_ZRANGE
<1> HIDE DEF F, K
<1>8. PICK lines : lines = [i \in 1..K |-> <<SortedSet!Nth(W, i), value[SortedSet!Nth(W, i)]>>]
  OBVIOUS
<1>9. resp' = [ret |-> "LIST", cut |-> F > RESULT_LINES, lines |-> lines]
  BY <1>4, <1>5, <1>8
<1>10. lines = LET within == {e \in SortedSet!Present : min <= e.score /\ e.score <= max}
                  found == SortedSet!AtMost(SortedSet!Cardinality(within), MAX_RESULTS)
              IN [i \in 1..SortedSet!AtMost(found, RESULT_LINES) |->
                    <<SortedSet!Nth(within, i), value[SortedSet!Nth(within, i)]>>]
  BY <1>2, <1>6, <1>8, SameNotions
<1>11. SortedSet!Cardinality(W) = Cardinality(W)
  BY SameNotions
<1> QED BY <1>2, <1>6, <1>7, <1>9, <1>10, <1>11 DEF SortedSet!ZRange

-----------------------------------------------------------------------------
\* The theorems.

LEMMA EmptyList ==
    List(NoNodes, OnlyHeader, 0, 0)
<1>1. LiveIn(NoNodes) = {} /\ \A i : OnLevel(NoNodes, OnlyHeader, i) = {}
  BY DEF LiveIn, OnLevel, NoNodes
<1>2. /\ NoNodes \in [Node -> Copies \cup {NULL}]
      /\ OnlyHeader \in [Places -> [Levels -> Node \cup {NULL, Garbage}]]
  BY DEF NoNodes, OnlyHeader, Places
<1>3. \A i \in Levels : OnlyHeader[header][i] = NULL
  BY DEF OnlyHeader
<1>4. \A n \in Node, i \in Levels : OnlyHeader[n][i] = Garbage
  BY HeaderApart DEF OnlyHeader
<1>5. \A i \in Levels : Linked(OnlyHeader, i, {})
  BY <1>3 DEF Linked, IsFirst, After
<1>6. Shape(NoNodes, OnlyHeader)
  BY <1>1, <1>2, <1>4, <1>5, FS_EmptySet DEF Shape
<1>7. Top(NoNodes, OnlyHeader, 0)
  BY <1>1, SkipAssumption DEF Top, Levels
<1> QED BY <1>1, <1>6, <1>7, FS_EmptySet DEF List

\* The list's shape is kept by every step.
THEOREM Invariance == Spec => []IInv
<1>1. Init => IInv
  BY EmptyList DEF Init, IInv
<1>2. IInv /\ [Next]_vars => IInv'
  <2> SUFFICES ASSUME IInv, [Next]_vars PROVE IInv'
    OBVIOUS
  <2>1. ASSUME NEW k \in Keys, NEW v \in Copies, NEW s \in Scores,
               kvs_skiptable_zadd(k, v, s)
        PROVE  IInv'
    BY <2>1, ZaddStep
  <2>2. ASSUME NEW k \in Keys, kvs_skiptable_zrem(k) PROVE IInv'
    BY <2>2, ZremStep
  <2>3. CASE UNCHANGED <<value, forward, level, length>>
    BY <2>3 DEF IInv, List, Shape, Top, Linked, OnLevel, LiveIn
  <2>4. ASSUME NEW min \in Scores, NEW max \in Scores, CMD_ZRANGE(min, max) PROVE IInv'
    BY <2>3, <2>4 DEF CMD_ZRANGE
  <2>5. CASE MissingArgument
    BY <2>3, <2>5 DEF MissingArgument
  <2>6. CASE kvs_skiptable_create
    BY <2>6, EmptyList DEF kvs_skiptable_create, IInv
  <2>7. CASE UNCHANGED vars
    BY <2>3, <2>7 DEF vars
  <2> QED BY <2>1, <2>2, <2>4, <2>5, <2>6, <2>7 DEF Next
<1> QED BY <1>1, <1>2, PTL DEF Spec

\* The list's level stays within the header's array and every pointer is a node,
\* NULL or out of reach, for any number of nodes and levels.
THEOREM TypeCorrect == Spec => []TypeOK
<1>1. IInv => TypeOK
  <2> SUFFICES ASSUME IInv PROVE TypeOK
    OBVIOUS
  <2>1. length \in Nat
    BY FS_CardinalityType DEF IInv, List, Shape
  <2> QED BY <2>1 DEF IInv, List, Shape, Top, TypeOK, Places
<1> QED BY <1>1, Invariance, PTL

\* Every level stays the ordered list of exactly the nodes that reach it, for any
\* keys, scores and heights: ZREM, whose walk compares keys alone, takes the node
\* it found on level 0 off every level it is on (kvs_skiptable.c:75-90).
THEOREM AlwaysLinked == Spec => []LevelsLinked
<1>1. IInv => LevelsLinked
  <2> SUFFICES ASSUME IInv PROVE LevelsLinked
    OBVIOUS
  <2>1. Live = LiveIn(value) /\ \A i : On(i) = OnLevel(value, forward, i)
    BY DEF Live, On, LiveIn, OnLevel
  <2>2. On(0) = Live
    BY <2>1 DEF IInv, List, Shape
  <2>3. \A i \in Levels : Linked(forward, i, On(i))
    BY <2>1 DEF IInv, List, Shape
  <2>4. \A i \in Levels : \A n \in On(i) \cup {header} :
           IsFirst(forward[n][i], {m \in On(i) : n = header \/ PassedFor(n, m)})
    BY <2>3 DEF Linked, After
  <2> QED BY <2>2, <2>4 DEF LevelsLinked
<1> QED BY <1>1, Invariance, PTL

\* length is the number of nodes and level the highest level in use, after any
\* sequence of ZADD and ZREM (kvs_skiptable.c:56-66, 91-93).
THEOREM CountsAreRight == Spec => []CountsMatch
<1>1. IInv => CountsMatch
  <2> SUFFICES ASSUME IInv PROVE CountsMatch
    OBVIOUS
  <2> DEFINE H == {0} \cup {i \in Levels : On(i) # {}}
  <2>1. Live = LiveIn(value) /\ \A i : On(i) = OnLevel(value, forward, i)
    BY DEF Live, On, LiveIn, OnLevel
  <2>2. /\ level \in Levels /\ (level = 0 \/ On(level) # {})
        /\ \A i \in Levels : i > level => On(i) = {}
    BY <2>1 DEF IInv, List, Top
  <2>3. H \in SUBSET Nat /\ level \in H /\ level \in Nat
    BY <2>2, SkipAssumption DEF Levels
  <2>4. \A i \in H : i <= level
    BY <2>2, <2>3 DEF Levels
  <2>5. Max(H) = level
    <3> HIDE DEF H
    <3> QED BY <2>3, <2>4, MaxIs
  <2>6. length = Cardinality(Live)
    BY <2>1 DEF IInv, List
  <2> QED BY <2>5, <2>6 DEF CountsMatch
<1> QED BY <1>1, Invariance, PTL

\* ZADD, ZREM and ZRANGE act and answer as on a set of entries, for any keys,
\* scores, heights and number of nodes: ZADD never misses an entry, ZRANGE prints
\* the first entries of the range in order, and ZREM misses a key only if every
\* entry of it is out of place (kvs_skiptable.c:39-145).
THEOREM Refinement == Spec => ImplementsSortedSet
<1>1. Init => SortedSet!SetInit
  BY SameNotions DEF Init, NoNodes, Answer, SortedSet!SetInit
<1>2. IInv /\ [Next]_vars => [SortedSet!SetNext]_(SortedSet!setVars)
  <2> SUFFICES ASSUME IInv, [Next]_vars
               PROVE  SortedSet!SetNext \/ UNCHANGED SortedSet!setVars
    OBVIOUS
  <2>1. ASSUME NEW k \in Keys, NEW v \in Copies, NEW s \in Scores,
               kvs_skiptable_zadd(k, v, s)
        PROVE  SortedSet!SetNext
    BY <2>1, ZaddImplements DEF SortedSet!SetNext, Copies
  <2>2. ASSUME NEW k \in Keys, kvs_skiptable_zrem(k) PROVE SortedSet!SetNext
    BY <2>2, ZremImplements DEF SortedSet!SetNext
  <2>3. ASSUME NEW min \in Scores, NEW max \in Scores, CMD_ZRANGE(min, max)
        PROVE  SortedSet!SetNext
    BY <2>3, ZrangeImplements DEF SortedSet!SetNext
  <2>4. CASE MissingArgument
    BY <2>4 DEF MissingArgument, Answer, SortedSet!SetNext, SortedSet!Refused, SortedSet!Says
  <2>5. CASE kvs_skiptable_create
    <3>1. SortedSet!Emptied
      BY <2>5, SameNotions DEF kvs_skiptable_create, NoNodes, Answer,
                               SortedSet!Emptied, SortedSet!Says
    <3> QED BY <3>1 DEF SortedSet!SetNext
  <2>6. CASE UNCHANGED vars
    BY <2>6 DEF vars, SortedSet!setVars
  <2> QED BY <2>1, <2>2, <2>3, <2>4, <2>5, <2>6 DEF Next
<1> QED BY <1>1, <1>2, Invariance, PTL DEF Spec, ImplementsSortedSet, SortedSet!SetSpec

=============================================================================
