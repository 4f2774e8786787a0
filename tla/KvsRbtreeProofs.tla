-------------------------- MODULE KvsRbtreeProofs --------------------------
(***************************************************************************)
(* The invariant of KvsRbtree and the theorems, for any finite or infinite *)
(* set of keys.                                                            *)
(*                                                                         *)
(* Besides U of KvsRbtreeOrder, the invariant names H[n], the number of    *)
(* black nodes on every way down from n, which the code does not keep      *)
(* either.  The order of the keys cannot be proved without the colours: a  *)
(* round of the deletion's loop may rotate only because the sibling of its *)
(* node is not nil, and that follows from the black nodes the ways through *)
(* both must have.  The states between the rounds of the two loops are     *)
(* Climbing (the insertion's node may have a red parent) and Falling (the  *)
(* ways through the deletion's node are one black node short); Sound is    *)
(* the tree when no operation is under way.                                *)
(***************************************************************************)
EXTENDS KvsRbtreeOrder

\* What n, and what the link from p to x, adds to the black nodes on a way down.
Black(t, n) == IF t.color[n] = "BLACK" THEN 1 ELSE 0
More(x, p, c, n) == IF c = x /\ n = p THEN 1 ELSE 0

\* All ways down from a node meet H black nodes; no node counts twice.
Level(t, H) ==
    /\ H \in [Nodes -> Nat] /\ H[nil] = 0
    /\ \A n \in Keys : \A s \in Sides : H[n] = Black(t, n) + H[t.kid[s][n]]

\* The same when the link from p to x counts as a black node.
Heights(t, H, x, p) ==
    /\ H \in [Nodes -> Nat] /\ H[nil] = 0
    /\ \A n \in Keys : \A s \in Sides :
          H[n] = Black(t, n) + H[t.kid[s][n]] + More(x, p, t.kid[s][n], n)

\* The colours are right, except at the nodes in D.
Reds(t, D) ==
    /\ t.color[nil] = "BLACK"
    /\ t.color[t.root] = "BLACK" \/ t.root \in D
    /\ \A n \in Keys : \A s \in Sides :
          t.color[n] = "RED" /\ n \notin D /\ t.kid[s][n] \notin D
             => t.color[t.kid[s][n]] = "BLACK"

\* The insertion's loop is at x.
Inserting(t, U, x) ==
    /\ x \in U[t.root] /\ t.color[x] = "RED"
    /\ \A n \in Keys : \A s \in Sides :
          t.color[n] = "RED" => t.kid[s][n] = x \/ t.color[t.kid[s][n]] = "BLACK"

\* The deletion's loop is at x.
Deleting(t, U, x) ==
    \/ x = t.root /\ t.parent[x] = nil
    \/ /\ x # t.root /\ t.parent[x] \in U[t.root]
       /\ \E s \in Sides : /\ t.kid[s][t.parent[x]] = x
                           /\ t.kid[Other(s)][t.parent[x]] # x

\* The tree between operations, between two rounds of the insertion's loop at x,
\* and between two rounds of the deletion's loop at x.
Sound(t, U, H) == Good(t, U) /\ Level(t, H) /\ Reds(t, {})
Climbing(t, U, H, x) == Good(t, U) /\ Level(t, H) /\ Reds(t, {x}) /\ Inserting(t, U, x)
Falling(t, U, H, x) ==
    Good(t, U) /\ Heights(t, H, x, t.parent[x]) /\ Reds(t, {x}) /\ Deleting(t, U, x)

\* A key has a value if and only if it is in the tree.
Inv(U, H) ==
    /\ pc \in {"idle", "free"} => Sound(T, U, H)
    /\ pc = "insert_fixup" => Climbing(T, U, H, z)
    /\ pc = "delete_fixup" => Falling(T, U, H, z)
    /\ \A k \in Keys : val[k] = NULL <=> k \notin U[T.root]
    /\ up \/ pc = "idle"
IInv == TypeOK /\ \E U, H : Inv(U, H)
-----------------------------------------------------------------------------
\* Colours.

SameLinks(t, r) == r \in Tree /\ r.root = t.root /\ r.kid = t.kid /\ r.parent = t.parent

LEMMA OneColor ==
    ASSUME NEW t \in Tree, NEW a \in Nodes, NEW h \in {"RED", "BLACK"},
           NEW r, r = [t EXCEPT !.color[a] = h]
    PROVE  /\ SameLinks(t, r)
           /\ \A n \in Nodes : r.color[n] = IF n = a THEN h ELSE t.color[n]
<1>1. SameLinks(t, r)
  BY DEF Tree, SameLinks
<1>2. r.color = [t.color EXCEPT ![a] = h] /\ t.color \in [Nodes -> {"RED", "BLACK"}]
  BY DEF Tree
<1> QED BY <1>1, <1>2

\* t with the colours h and i for a and b.
Paint(t, a, h, b, i) == [t EXCEPT !.color[a] = h, !.color[b] = i]

LEMMA TwoColors ==
    ASSUME NEW t \in Tree, NEW a \in Nodes, NEW b \in Nodes, NEW h \in {"RED", "BLACK"},
           NEW i \in {"RED", "BLACK"}, NEW r, r = Paint(t, a, h, b, i)
    PROVE  /\ SameLinks(t, r)
           /\ \A n \in Nodes : r.color[n] = IF n = b THEN i ELSE IF n = a THEN h ELSE t.color[n]
<1>1. SameLinks(t, r)
  BY DEF Tree, SameLinks, Paint
<1>2. r.color = [t.color EXCEPT ![a] = h, ![b] = i] /\ t.color \in [Nodes -> {"RED", "BLACK"}]
  BY DEF Tree, Paint
<1> QED BY <1>1, <1>2

Paints(t, a, h, b, i, c, j) == [t EXCEPT !.color[a] = h, !.color[b] = i, !.color[c] = j]

\* Nodes and colours as the lemma needs them.
Hues(t, a, h, b, i, c, j) ==
    /\ t \in Tree /\ a \in Nodes /\ b \in Nodes /\ c \in Nodes
    /\ h \in {"RED", "BLACK"} /\ i \in {"RED", "BLACK"} /\ j \in {"RED", "BLACK"}

LEMMA ThreeColors ==
    ASSUME NEW t, NEW a, NEW b, NEW c, NEW h, NEW i, NEW j, Hues(t, a, h, b, i, c, j),
           NEW r, r = Paints(t, a, h, b, i, c, j)
    PROVE  /\ SameLinks(t, r)
           /\ \A n \in Nodes : r.color[n] = IF n = c THEN j ELSE IF n = b THEN i
                                            ELSE IF n = a THEN h ELSE t.color[n]
<1>1. SameLinks(t, r)
  BY DEF Tree, SameLinks, Paints, Hues
<1>2. /\ r.color = [t.color EXCEPT ![a] = h, ![b] = i, ![c] = j]
      /\ t.color \in [Nodes -> {"RED", "BLACK"}]
  BY DEF Tree, Paints, Hues
<1> QED BY <1>1, <1>2 DEF Hues

LEMMA RecolorGood ==
    ASSUME NEW t, NEW U, Good(t, U), NEW r, SameLinks(t, r)
    PROVE  Good(r, U)
BY DEF Good, SameLinks

LEMMA HeightsLevel ==
    ASSUME NEW t \in Tree, NEW H, NEW x PROVE Heights(t, H, x, nil) <=> Level(t, H)
<1>1. \A n \in Keys : \A c : More(x, nil, c, n) = 0
  BY KeyFacts DEF More
<1>2. \A n \in Keys : \A s \in Sides : t.kid[s][n] \in Nodes /\ n \in Nodes
  BY TreeFacts, KeyFacts
<1>3. ASSUME H \in [Nodes -> Nat], NEW n \in Keys, NEW s \in Sides
      PROVE  Black(t, n) + H[t.kid[s][n]] + More(x, nil, t.kid[s][n], n) = Black(t, n) + H[t.kid[s][n]]
  <2>1. Black(t, n) \in Nat /\ H[t.kid[s][n]] \in Nat
    BY <1>2, <1>3 DEF Black
  <2> QED BY <1>1, <2>1
<1> QED BY <1>3 DEF Heights, Level

\* The loop of the insertion is at x, below a red parent p.
AtRed(t, U, H, x, p, g) ==
    /\ Good(t, U) /\ Level(t, H) /\ Reds(t, {x}) /\ Inserting(t, U, x)
    /\ p = t.parent[x] /\ t.color[p] = "RED" /\ g = t.parent[p]

\* What holds around x then.
Family(t, U, x, p, g, s) ==
    /\ x \in Keys /\ p \in Keys /\ g \in Keys /\ s \in Sides
    /\ x # p /\ x # g /\ p # g
    /\ p \in U[t.root] /\ g \in U[t.root] /\ x # t.root /\ p # t.root
    /\ t.kid[s][g] = p
    /\ \E a \in Sides : t.kid[a][p] = x
    /\ \A n \in Nodes : \A a \in Sides : t.kid[a][n] = x => n = p
    /\ \A n \in Nodes : \A a \in Sides : t.kid[a][n] = p => n = g /\ a = s
    /\ t.color[g] = "BLACK" /\ t.color[t.root] = "BLACK" /\ t.color[nil] = "BLACK"

LEMMA RedParent ==
    ASSUME NEW t, NEW U, NEW H, NEW x, NEW p, NEW g, AtRed(t, U, H, x, p, g), NEW s, s = SideOf(t, p)
    PROVE  Family(t, U, x, p, g, s)
<1>1. Good(t, U) /\ x \in U[t.root] /\ t.color[nil] = "BLACK" /\ p # nil
  BY DEF AtRed, Reds, Inserting
<1>2. x \in Keys /\ x # t.root /\ p \in U[t.root] /\ p \in Keys
  BY <1>1, Hangs DEF AtRed
<1>3. SideOf(t, x) \in Sides /\ t.kid[SideOf(t, x)][p] = x
  BY <1>1, <1>2, Hangs DEF AtRed
<1>4. x # p
  BY <1>1, <1>2, <1>3, Around
<1>5. t.color[t.root] = "BLACK" /\ p # t.root
  BY <1>2 DEF AtRed, Reds
<1>6. g \in U[t.root] /\ g \in Keys /\ s \in Sides /\ t.kid[s][g] = p
  BY <1>1, <1>2, <1>5, Hangs DEF AtRed
<1>7. p # g
  BY <1>1, <1>6, Around
<1>8. x # g
  <2>1. U[p] \subseteq U[t.kid[s][g]] /\ g \notin U[t.kid[s][g]]
    BY <1>1, <1>6, Around
  <2>2. x \in U[p]
    BY <1>1, <1>2, <1>3, Around, KeyFacts
  <2> QED BY <2>1, <2>2
<1>9. t.color[g] = "BLACK"
  <2>1. t.color[g] = "RED" => t.kid[s][g] = x \/ t.color[t.kid[s][g]] = "BLACK"
    BY <1>6 DEF AtRed, Inserting
  <2>2. t.color[g] = "RED" \/ t.color[g] = "BLACK"
    BY <1>1, <1>6, GoodFacts, TreeFacts, KeyFacts
  <2> QED BY <1>4, <1>6, <2>1, <2>2 DEF AtRed
<1>10. \A n \in Nodes : \A a \in Sides : t.kid[a][n] = x => n = p
  BY <1>1, Hangs DEF AtRed
<1>11. \A n \in Nodes : \A a \in Sides : t.kid[a][n] = p => n = g /\ a = s
  BY <1>1, <1>2, Hangs DEF AtRed
<1> QED BY <1>1, <1>2, <1>3, <1>4, <1>5, <1>6, <1>7, <1>8, <1>9, <1>10, <1>11 DEF Family

-----------------------------------------------------------------------------
\* What a rotation with a change of colours does to the black heights and to
\* the red nodes.

\* r has the links of t after the rotation.
Relinked(t, r, x, s, y, c) ==
    /\ r \in Tree
    /\ r.root = IF t.root = x THEN y ELSE t.root
    /\ \A a \in Sides : \A n \in Nodes :
          r.kid[a][n] = IF n = x /\ a = Other(s) THEN c
                        ELSE IF n = y /\ a = s THEN x
                        ELSE IF t.kid[a][n] = x THEN y ELSE t.kid[a][n]
    /\ \A n \in Nodes :
          r.parent[n] = IF n = y THEN t.parent[x] ELSE IF n = x THEN y
                        ELSE IF n = c /\ c # nil THEN x ELSE t.parent[n]

LEMMA RecolorRotate ==
    ASSUME NEW t, NEW U, Good(t, U), NEW x, NEW s, NEW y, NEW c, Turned(t, U, x, s, y, c),
           NEW q, SameLinks(t, q), NEW r, r = Rotate(q, x, s)
    PROVE  /\ Relinked(t, r, x, s, y, c) /\ r.color = q.color
           /\ \E V : Good(r, V) /\ V[r.root] = U[t.root]
<1>1. Good(q, U)
  BY RecolorGood
<1>2. Turned(q, U, x, s, y, c)
  BY DEF Turned, SameLinks
<1>3. IsRotated(q, r, x, s, y, c)
  BY <1>1, <1>2, RotateIs
<1>4. \E V : Good(r, V) /\ V[r.root] = U[q.root]
  BY <1>1, <1>2, <1>3, RotateGood
<1>5. Relinked(t, r, x, s, y, c) /\ r.color = q.color
  BY <1>3 DEF Relinked, IsRotated, SameLinks
<1> QED BY <1>4, <1>5 DEF SameLinks

\* The part of Heights that is about n.
Weighs(r, G, e, q, n) ==
    \A a \in Sides : G[n] = Black(r, n) + G[r.kid[a][n]] + More(e, q, r.kid[a][n], n)

\* The nodes a rotation does not touch: only the link to x is another one.
LEMMA Untouched ==
    ASSUME NEW t, NEW U, Good(t, U), NEW x, NEW s, NEW y, NEW c, Turned(t, U, x, s, y, c),
           NEW r, Relinked(t, r, x, s, y, c), NEW b, b = t.kid[Other(s)][y],
           NEW n \in Keys \ {x, y, b}, NEW a \in Sides
    PROVE  /\ r.kid[a][n] = IF t.kid[a][n] = x THEN y ELSE t.kid[a][n]
           /\ t.kid[a][n] \in Nodes /\ t.kid[a][n] # y /\ (t.kid[a][n] = b => b = nil)
           /\ n \in Nodes
<1>1. /\ x \in Keys /\ y \in Keys /\ s \in Sides /\ Other(s) \in Sides /\ y = t.kid[Other(s)][x]
      /\ t.parent[y] = x /\ n \in Nodes /\ y # nil /\ t \in Tree /\ y \in Nodes
  BY TurnedFacts, SideFacts, KeyFacts, GoodFacts DEF Turned
<1>2. t.kid[a][n] \in Nodes
  BY <1>1, TreeFacts
<1>3. t.kid[a][n] # y
  BY <1>1, KidsInTree
<1>4. t.kid[a][n] = b => b = nil
  BY <1>1, KidsInTree
<1>5. r.kid[a][n] = IF t.kid[a][n] = x THEN y ELSE t.kid[a][n]
  BY <1>1 DEF Relinked
<1> QED BY <1>1, <1>2, <1>3, <1>4, <1>5

LEMMA RotateHeights ==
    ASSUME NEW t, NEW U, Good(t, U), NEW x, NEW s, NEW y, NEW c, Turned(t, U, x, s, y, c),
           NEW r, Relinked(t, r, x, s, y, c), NEW b, b = t.kid[Other(s)][y],
           \A n \in Keys \ {x, y, b} : r.color[n] = t.color[n],
           NEW H, NEW e, NEW q, Heights(t, H, e, q), NEW G, NEW f, NEW u,
           G \in [Nodes -> Nat], G[nil] = 0, G[y] = H[x],
           \A n \in Keys \ {x, y, b} : G[n] = H[n],
           \A n \in Keys \ {x, y, b} : \A a \in Sides :
              More(f, u, r.kid[a][n], n) = More(e, q, t.kid[a][n], n),
           Weighs(r, G, f, u, x), Weighs(r, G, f, u, y), b # nil => Weighs(r, G, f, u, b)
    PROVE  Heights(r, G, f, u)
<1>1. ASSUME NEW n \in Keys, n \notin {x, y, b}, NEW a \in Sides
      PROVE  G[n] = Black(r, n) + G[r.kid[a][n]] + More(f, u, r.kid[a][n], n)
  <2>1. n \in Keys \ {x, y, b}
    BY <1>1
  <2>2. /\ r.kid[a][n] = IF t.kid[a][n] = x THEN y ELSE t.kid[a][n]
        /\ t.kid[a][n] \in Nodes /\ t.kid[a][n] # y /\ (t.kid[a][n] = b => b = nil)
    BY <2>1, Untouched
  <2>3. H[n] = Black(t, n) + H[t.kid[a][n]] + More(e, q, t.kid[a][n], n) /\ H[nil] = 0
    BY <2>1 DEF Heights
  <2>4. G[r.kid[a][n]] = H[t.kid[a][n]]
    <3>1. CASE t.kid[a][n] = nil
      <4>1. x # nil
        BY TurnedFacts, KeyFacts
      <4> QED BY <2>2, <2>3, <3>1, <4>1
    <3>2. CASE t.kid[a][n] = x
      BY <2>2, <3>2
    <3>3. CASE t.kid[a][n] # nil /\ t.kid[a][n] # x
      <4>1. t.kid[a][n] \in Keys \ {x, y, b}
        BY <2>2, <3>3, KeyFacts
      <4> QED BY <2>2, <3>3, <4>1
    <3> QED BY <3>1, <3>2, <3>3
  <2>5. Black(r, n) = Black(t, n)
    BY <2>1 DEF Black
  <2> QED BY <2>1, <2>3, <2>4, <2>5
<1>2. ASSUME NEW n \in Keys, n \in {x, y, b}, NEW a \in Sides
      PROVE  G[n] = Black(r, n) + G[r.kid[a][n]] + More(f, u, r.kid[a][n], n)
  BY <1>2, KeyFacts DEF Weighs
<1> QED BY <1>1, <1>2 DEF Heights

\* A red node has black children, except the ones in X.
Calm(t, X, n) == \A a \in Sides : t.color[n] = "RED" => t.kid[a][n] \in X \/ t.color[t.kid[a][n]] = "BLACK"
AllCalm(t, X) == \A n \in Keys : Calm(t, X, n)

LEMMA RotateCalm ==
    ASSUME NEW t, NEW U, Good(t, U), NEW x, NEW s, NEW y, NEW c, Turned(t, U, x, s, y, c),
           NEW r, Relinked(t, r, x, s, y, c), NEW b, b = t.kid[Other(s)][y],
           \A n \in Keys \ {x, y, b} : r.color[n] = t.color[n], r.color[nil] = "BLACK",
           \A n \in Keys \ {x, y, b} : Calm(t, {}, n), r.color[y] \in {"BLACK", t.color[x]},
           NEW X, Calm(r, X, x), Calm(r, X, y), b # nil => Calm(r, X, b)
    PROVE  AllCalm(r, X)
<1>1. ASSUME NEW n \in Keys, n \notin {x, y, b}, NEW a \in Sides, r.color[n] = "RED"
      PROVE  r.color[r.kid[a][n]] = "BLACK"
  <2>1. n \in Keys \ {x, y, b}
    BY <1>1
  <2>2. /\ r.kid[a][n] = IF t.kid[a][n] = x THEN y ELSE t.kid[a][n]
        /\ t.kid[a][n] \in Nodes /\ t.kid[a][n] # y /\ (t.kid[a][n] = b => b = nil)
    BY <2>1, Untouched
  <2>3. t.color[t.kid[a][n]] = "BLACK"
    BY <1>1, <2>1 DEF Calm
  <2>4. CASE t.kid[a][n] = nil
    <3>1. x # nil
      BY TurnedFacts, KeyFacts
    <3> QED BY <2>2, <2>4, <3>1
  <2>5. CASE t.kid[a][n] = x
    BY <2>2, <2>3, <2>5
  <2>6. CASE t.kid[a][n] # nil /\ t.kid[a][n] # x
    <3>1. t.kid[a][n] \in Keys \ {x, y, b}
      BY <2>2, <2>6, KeyFacts
    <3> QED BY <2>2, <2>3, <2>6, <3>1
  <2> QED BY <2>4, <2>5, <2>6
<1>2. ASSUME NEW n \in Keys, n \notin {x, y, b} PROVE Calm(r, X, n)
  BY <1>1, <1>2 DEF Calm
<1>3. ASSUME NEW n \in Keys, n \in {x, y, b} PROVE Calm(r, X, n)
  BY <1>3, KeyFacts
<1> QED BY <1>2, <1>3 DEF AllCalm

\* The children of the nodes a rotation touches.
LEMMA NewKids ==
    ASSUME NEW t, NEW U, Good(t, U), NEW x, NEW s, NEW y, NEW c, Turned(t, U, x, s, y, c),
           NEW r, Relinked(t, r, x, s, y, c), NEW b, b = t.kid[Other(s)][y],
           NEW d, d = t.kid[s][x]
    PROVE  /\ r.kid[Other(s)][x] = c /\ r.kid[s][x] = d
           /\ r.kid[s][y] = x /\ r.kid[Other(s)][y] = b
           /\ \A a \in Sides : b # nil => r.kid[a][b] = t.kid[a][b]
           /\ b \in Nodes /\ d \in Nodes /\ b # x /\ b # y /\ d # x /\ d # y
           /\ (b # nil => b # c /\ b # d) /\ (c # nil => c # d)
<1>1. /\ x \in Keys /\ y \in Keys /\ c \in Nodes /\ s \in Sides /\ Other(s) \in Sides
      /\ x # y /\ x # c /\ y # c /\ t.parent[y] = x /\ Other(s) # s
      /\ x \in Nodes /\ y \in Nodes /\ t \in Tree /\ y = t.kid[Other(s)][x] /\ c = t.kid[s][y]
      /\ y # nil
  BY TurnedFacts, SideFacts, KeyFacts, GoodFacts DEF Turned
<1>2. d \in Nodes /\ d # x /\ d # y
  <2>1. d \in Nodes /\ d # x
    BY <1>1, Around
  <2>2. y # d
    BY <1>1, Around, SideFacts
  <2> QED BY <2>1, <2>2
<1>3. b \in Nodes /\ b # y /\ (b # nil => b # c)
  BY <1>1, Around, SideFacts
<1>4. b # x
  <2>1. U[y] = {y} \cup U[t.kid[s][y]] \cup U[b]
    BY <1>1, Around
  <2>2. x \notin U[y]
    BY <1>1, Around, SideFacts
  <2>3. b # nil => b \in U[b]
    BY <1>3, KeyFacts, SideFacts, Around
  <2> QED BY <1>1, <2>1, <2>2, <2>3, KeyFacts
<1>5. (b # nil => t.parent[b] = y) /\ (c # nil => t.parent[c] = y) /\ (d # nil => t.parent[d] = x)
  BY <1>1, KidsInTree
<1>6. r.kid[Other(s)][x] = c /\ r.kid[s][x] = d /\ r.kid[s][y] = x /\ r.kid[Other(s)][y] = b
  BY <1>1, <1>2, <1>4 DEF Relinked
<1>7. ASSUME NEW a \in Sides, b # nil PROVE r.kid[a][b] = t.kid[a][b]
  <2>1. t.kid[a][b] # x
    <3>1. SUFFICES ASSUME t.kid[a][b] = x PROVE FALSE
      OBVIOUS
    <3>2. b \in Keys /\ U[t.kid[a][b]] \subseteq U[b]
      BY <1>3, <1>7, KeyFacts, Around
    <3>3. U[b] \subseteq U[y] /\ x \in U[x]
      BY <1>1, Around, SideFacts
    <3>4. x \notin U[y]
      BY <1>1, Around, SideFacts
    <3> QED BY <3>1, <3>2, <3>3, <3>4
  <2> QED BY <1>3, <1>4, <2>1 DEF Relinked
<1> QED BY <1>1, <1>2, <1>3, <1>4, <1>5, <1>6, <1>7

\* A black node has at least one black node on the ways down from it.
LEMMA LevelAt ==
    ASSUME NEW t, NEW H, Level(t, H), t \in Tree, NEW n \in Keys, NEW a \in Sides
    PROVE  /\ H[n] \in Nat /\ H[t.kid[a][n]] \in Nat
           /\ H[n] = (IF t.color[n] = "BLACK" THEN 1 ELSE 0) + H[t.kid[a][n]]
<1>1. t.kid[a][n] \in Nodes /\ n \in Nodes
  BY TreeFacts, KeyFacts
<1> QED BY <1>1 DEF Level, Black

\* x is the outer child of a red node whose sibling is black.
Outer(t, U, H, x, p, g, s) ==
    /\ Good(t, U) /\ Level(t, H) /\ AllCalm(t, {x})
    /\ t.color[t.root] = "BLACK" /\ t.color[nil] = "BLACK"
    /\ g \in U[t.root] /\ s \in Sides /\ t.kid[s][g] = p /\ t.kid[s][p] = x
    /\ t.color[x] = "RED" /\ t.color[p] = "RED" /\ t.color[g] = "BLACK"
    /\ t.color[t.kid[Other(s)][g]] = "BLACK"

\* The insertion's defect is gone; x is where it was.
Mended(t, U, H, x) ==
    /\ Good(t, U) /\ Level(t, H) /\ AllCalm(t, {}) /\ x \in U[t.root] /\ t.color[x] = "RED"
    /\ t.color[t.root] = "BLACK" /\ t.color[nil] = "BLACK"

LEMMA OuterMended ==
    ASSUME NEW t, NEW U, NEW H, NEW x, NEW p, NEW g, NEW s, Outer(t, U, H, x, p, g, s),
           NEW r, r = Rotate(Paint(t, p, "BLACK", g, "RED"), g, Other(s))
    PROVE  \E V, G : Mended(r, V, G, x) /\ V[r.root] = U[t.root]
<1> DEFINE o == Other(s)
           c == t.kid[o][p]
           d == t.kid[o][g]
           G == [H EXCEPT ![g] = H[g] - 1, ![p] = H[g]]
<1>1. /\ Good(t, U) /\ Level(t, H) /\ t \in Tree /\ g \in U[t.root] /\ s \in Sides
      /\ t.kid[s][g] = p /\ t.kid[s][p] = x /\ p # nil /\ x # nil
      /\ o \in Sides /\ Other(o) = s /\ o # s
  BY GoodFacts, SideFacts DEF Outer
<1>2. Turned(t, U, g, o, p, c)
  BY <1>1 DEF Turned
<1>3. /\ g \in Keys /\ p \in Keys /\ c \in Nodes /\ g # p /\ g # c /\ p # c /\ p # t.root
      /\ g \in Nodes /\ p \in Nodes
  BY <1>1, <1>2, TurnedFacts, KeyFacts
<1> HIDE DEF o, c, d, G
<1>4. PICK q : q = Paint(t, p, "BLACK", g, "RED")
  OBVIOUS
<1>5. /\ SameLinks(t, q)
      /\ \A n \in Nodes : q.color[n] = IF n = g THEN "RED" ELSE IF n = p THEN "BLACK" ELSE t.color[n]
  <2>1. t \in Tree /\ p \in Nodes /\ g \in Nodes /\ "RED" \in {"RED", "BLACK"} /\ "BLACK" \in {"RED", "BLACK"}
    BY <1>1, <1>3
  <2> QED BY <1>4, <2>1, TwoColors
<1>6. Relinked(t, r, g, o, p, c) /\ r.color = q.color /\ \E V : Good(r, V) /\ V[r.root] = U[t.root]
  <2>1. r = Rotate(q, g, o) /\ Good(t, U) /\ SameLinks(t, q)
    BY <1>1, <1>4, <1>5 DEF o
  <2> QED BY <1>2, <2>1, RecolorRotate
<1>7. PICK V : Good(r, V) /\ V[r.root] = U[t.root]
  BY <1>6
<1>8. /\ r.kid[s][g] = c /\ r.kid[o][g] = d /\ r.kid[o][p] = g /\ r.kid[s][p] = x
      /\ \A a \in Sides : r.kid[a][x] = t.kid[a][x]
      /\ x \in Nodes /\ d \in Nodes /\ x # g /\ x # p /\ d # g /\ d # p /\ x # c /\ x # d
  <2>1. x = t.kid[Other(o)][p] /\ Other(o) = s /\ d = t.kid[o][g] /\ x # nil
    BY <1>1 DEF d
  <2>2. Good(t, U)
    BY <1>1
  <2>3. Relinked(t, r, g, o, p, c)
    BY <1>6
  <2> QED BY <1>2, <2>1, <2>2, <2>3, NewKids
<1>9. x \in Keys /\ nil \notin Keys /\ nil # g /\ nil # p
  BY <1>1, <1>3, <1>8, KeyFacts
<1>10. \A n \in Nodes : r.color[n] = IF n = g THEN "RED" ELSE IF n = p THEN "BLACK" ELSE t.color[n]
  BY <1>5, <1>6
<1>11. /\ t.color[x] = "RED" /\ t.color[p] = "RED" /\ t.color[g] = "BLACK" /\ t.color[d] = "BLACK"
       /\ t.color[nil] = "BLACK" /\ t.color[t.root] = "BLACK" /\ AllCalm(t, {x})
  BY DEF Outer, d, o
<1>12. /\ H[g] \in Nat /\ H[p] \in Nat /\ H[d] \in Nat /\ H[c] \in Nat /\ H[x] \in Nat
       /\ H[g] = 1 + H[p] /\ H[g] = 1 + H[d] /\ H[p] = 0 + H[c] /\ H[p] = 0 + H[x]
       /\ \A a \in Sides : H[x] = 0 + H[t.kid[a][x]]
  <2>1. H[g] \in Nat /\ H[p] \in Nat /\ H[g] = 1 + H[p]
    BY <1>1, <1>3, <1>11, LevelAt
  <2>2. H[d] \in Nat /\ H[g] = 1 + H[d]
    BY <1>1, <1>3, <1>11, LevelAt DEF d
  <2>3. H[c] \in Nat /\ H[p] = 0 + H[c]
    BY <1>1, <1>3, <1>11, LevelAt DEF c
  <2>4. H[x] \in Nat /\ H[p] = 0 + H[x]
    BY <1>1, <1>3, <1>11, LevelAt
  <2>5. \A a \in Sides : H[x] = 0 + H[t.kid[a][x]]
    BY <1>1, <1>9, <1>11, LevelAt
  <2> QED BY <2>1, <2>2, <2>3, <2>4, <2>5
<1>13. H \in [Nodes -> Nat] /\ H[nil] = 0 /\ Heights(t, H, nil, nil)
  BY <1>1, HeightsLevel DEF Level
<1>14. /\ G \in [Nodes -> Nat] /\ G[g] = H[g] - 1 /\ G[p] = H[g]
       /\ \A n \in Nodes : n # g /\ n # p => G[n] = H[n]
  BY <1>3, <1>12, <1>13 DEF G
<1>15. ASSUME NEW m, NEW n \in Keys PROVE More(nil, nil, m, n) = 0
  BY KeyFacts DEF More
<1>16. Weighs(r, G, nil, nil, g)
  <2>1. Black(r, g) = 0
    BY <1>3, <1>10 DEF Black
  <2>2. \A a \in Sides : r.kid[a][g] = c \/ r.kid[a][g] = d
    BY <1>1, <1>8, SideFacts DEF o
  <2>3. G[c] = H[g] - 1 /\ G[d] = H[g] - 1 /\ G[g] = H[g] - 1
    BY <1>3, <1>8, <1>12, <1>14
  <2> QED BY <1>3, <1>12, <1>15, <2>1, <2>2, <2>3 DEF Weighs
<1>17. Weighs(r, G, nil, nil, p)
  <2>1. Black(r, p) = 1
    BY <1>3, <1>10 DEF Black
  <2>2. \A a \in Sides : r.kid[a][p] = g \/ r.kid[a][p] = x
    BY <1>1, <1>8, SideFacts DEF o
  <2>3. G[x] = H[g] - 1 /\ G[g] = H[g] - 1 /\ G[p] = H[g]
    BY <1>3, <1>8, <1>12, <1>14
  <2> QED BY <1>3, <1>12, <1>15, <2>1, <2>2, <2>3 DEF Weighs
<1>18. Weighs(r, G, nil, nil, x)
  <2>1. Black(r, x) = 0
    BY <1>8, <1>10, <1>11 DEF Black
  <2>2. ASSUME NEW a \in Sides PROVE G[r.kid[a][x]] = H[g] - 1
    <3>1. t.kid[a][x] \in Nodes /\ t.kid[a][x] # g /\ t.kid[a][x] # p
      <4>1. t.kid[a][x] # p
        BY <1>1, <1>3, <1>8, KidsInTree
      <4>2. t.kid[a][x] # g
        <5>1. U[x] \subseteq U[p] /\ g \notin U[p]
          BY <1>1, <1>3, Around
        <5>2. U[t.kid[a][x]] \subseteq U[x]
          BY <1>1, <1>9, Around
        <5>3. g \in U[g]
          BY <1>1, <1>3, Around
        <5> QED BY <5>1, <5>2, <5>3
      <4> QED BY <1>1, <1>8, <4>1, <4>2, TreeFacts
    <3> QED BY <1>8, <1>12, <1>14, <3>1
  <2>3. G[x] = H[g] - 1
    BY <1>8, <1>12, <1>14
  <2> QED BY <1>9, <1>12, <1>15, <2>1, <2>2, <2>3 DEF Weighs
<1>19. Level(r, G)
  <2>1. \A n \in Keys \ {g, p, x} : r.color[n] = t.color[n] /\ G[n] = H[n]
    BY <1>10, <1>14, KeyFacts
  <2>2. \A n \in Keys \ {g, p, x} : \A a \in Sides :
           More(nil, nil, r.kid[a][n], n) = More(nil, nil, t.kid[a][n], n)
    BY <1>15
  <2>3. G[nil] = 0 /\ x = t.kid[Other(o)][p]
    BY <1>1, <1>3, <1>9, <1>13, <1>14, KeyFacts
  <2>4. Heights(r, G, nil, nil)
    BY <1>1, <1>2, <1>6, <1>13, <1>14, <1>16, <1>17, <1>18, <2>1, <2>2, <2>3, RotateHeights
  <2> QED BY <1>7, <2>4, HeightsLevel, GoodFacts
<1>20. AllCalm(r, {})
  <2>1. ASSUME NEW n \in Keys \ {g, p, x}, NEW a \in Sides, t.color[n] = "RED"
        PROVE  t.color[t.kid[a][n]] = "BLACK"
    <3>1. t.kid[a][n] # x
      BY <1>1, <1>3, <1>8, <2>1, KidsInTree, KeyFacts
    <3> QED BY <1>11, <2>1, <3>1 DEF AllCalm, Calm
  <2>2. ASSUME NEW a \in Sides, NEW m \in {p, x}, t.kid[a][m] # x
        PROVE  t.color[t.kid[a][m]] = "BLACK"
    BY <1>3, <1>9, <1>11, <2>2 DEF AllCalm, Calm
  <2>3. Calm(r, {}, g)
    <3>1. t.color[c] = "BLACK"
      BY <1>1, <1>8, <2>2 DEF c
    <3>2. r.color[c] = "BLACK" /\ r.color[d] = "BLACK"
      BY <1>3, <1>8, <1>10, <1>11, <3>1
    <3> QED BY <1>1, <1>8, <3>2, SideFacts DEF Calm, o
  <2>4. Calm(r, {}, p)
    BY <1>3, <1>10 DEF Calm
  <2>5. Calm(r, {}, x)
    <3>1. ASSUME NEW a \in Sides PROVE r.color[r.kid[a][x]] = "BLACK"
      <4>1. t.kid[a][x] # x /\ t.kid[a][x] \in Nodes
        BY <1>1, <1>9, Around
      <4>2. t.color[t.kid[a][x]] = "BLACK"
        BY <2>2, <4>1
      <4>3. t.kid[a][x] # g
        <5>1. U[x] \subseteq U[p] /\ g \notin U[p]
          BY <1>1, <1>3, Around
        <5>2. U[t.kid[a][x]] \subseteq U[x]
          BY <1>1, <1>9, Around
        <5>3. g \in U[g]
          BY <1>1, <1>3, Around
        <5> QED BY <5>1, <5>2, <5>3
      <4> QED BY <1>8, <1>10, <4>1, <4>2, <4>3
    <3> QED BY <3>1 DEF Calm
  <2>6. \A n \in Keys \ {g, p, x} : r.color[n] = t.color[n] /\ Calm(t, {}, n)
    BY <1>10, <2>1, KeyFacts DEF Calm
  <2>7. r.color[nil] = "BLACK" /\ r.color[p] \in {"BLACK", t.color[g]} /\ x = t.kid[Other(o)][p]
    BY <1>1, <1>3, <1>9, <1>10, <1>11, KeyFacts
  <2> QED BY <1>1, <1>2, <1>6, <2>3, <2>4, <2>5, <2>6, <2>7, RotateCalm
<1>21. r.color[r.root] = "BLACK" /\ r.color[nil] = "BLACK"
  <2>1. r.root = (IF t.root = g THEN p ELSE t.root) /\ t.root \in Nodes
    BY <1>1, <1>6, TreeFacts DEF Relinked
  <2> QED BY <1>3, <1>9, <1>10, <1>11, <2>1, KeyFacts
<1>22. x \in V[r.root] /\ r.color[x] = "RED"
  <2>1. x \in U[t.root]
    BY <1>1, <1>3, KidsInTree
  <2> QED BY <1>7, <1>8, <1>10, <1>11, <2>1
<1> QED BY <1>7, <1>19, <1>20, <1>21, <1>22 DEF Mended

\* x is the inner child of a red node whose sibling is black.
Inner(t, U, H, x, p, g, s) ==
    /\ AtRed(t, U, H, x, p, g) /\ s = SideOf(t, p)
    /\ t.kid[Other(s)][p] = x /\ t.color[t.kid[Other(s)][g]] = "BLACK"

\* A rotation makes it an outer one.
LEMMA InnerOuter ==
    ASSUME NEW t, NEW U, NEW H, NEW x, NEW p, NEW g, NEW s, Inner(t, U, H, x, p, g, s),
           NEW r, r = Rotate(t, p, s)
    PROVE  /\ \E V : Outer(r, V, H, p, x, g, s) /\ V[r.root] = U[t.root]
           /\ r.parent[p] = x /\ r.parent[x] = g
<1> DEFINE o == Other(s)
           c == t.kid[s][x]
           b == t.kid[o][x]
           d == t.kid[s][p]
<1>0. /\ AtRed(t, U, H, x, p, g) /\ s = SideOf(t, p)
      /\ t.kid[o][p] = x /\ t.color[t.kid[o][g]] = "BLACK"
  BY DEF Inner
<1>1. Family(t, U, x, p, g, s) /\ Good(t, U) /\ Level(t, H) /\ t \in Tree
  BY <1>0, RedParent, GoodFacts DEF AtRed
<1>2. /\ x \in Keys /\ p \in Keys /\ g \in Keys /\ s \in Sides /\ o \in Sides /\ o # s
      /\ x # p /\ x # g /\ p # g /\ p \in U[t.root] /\ g \in U[t.root] /\ p # t.root
      /\ t.kid[s][g] = p /\ t.kid[o][p] = x
      /\ x # nil /\ p # nil /\ g # nil /\ x \in Nodes /\ p \in Nodes /\ g \in Nodes
  BY <1>0, <1>1, SideFacts, KeyFacts DEF Family
<1>3. /\ t.color[x] = "RED" /\ t.color[p] = "RED" /\ t.color[g] = "BLACK"
      /\ t.color[t.root] = "BLACK" /\ t.color[nil] = "BLACK" /\ g = t.parent[p]
      /\ t.color[t.kid[o][g]] = "BLACK"
      /\ \A n \in Keys : \A a \in Sides :
           t.color[n] = "RED" => t.kid[a][n] = x \/ t.color[t.kid[a][n]] = "BLACK"
  BY <1>0, <1>1 DEF AtRed, Inserting, Family
<1>4. Turned(t, U, p, s, x, c)
  BY <1>2 DEF Turned
<1> HIDE DEF o, b, c, d
<1>5. SameLinks(t, t)
  BY <1>1 DEF SameLinks
<1>6. Relinked(t, r, p, s, x, c) /\ r.color = t.color /\ \E V : Good(r, V) /\ V[r.root] = U[t.root]
  BY <1>1, <1>4, <1>5, RecolorRotate
<1>7. PICK V : Good(r, V) /\ V[r.root] = U[t.root]
  BY <1>6
<1>8. /\ r.kid[o][p] = c /\ r.kid[s][p] = d /\ r.kid[s][x] = p /\ r.kid[o][x] = b
      /\ \A a \in Sides : b # nil => r.kid[a][b] = t.kid[a][b]
      /\ b \in Nodes /\ d \in Nodes /\ b # x /\ b # p /\ d # x /\ d # p
  <2>1. b = t.kid[Other(s)][x] /\ d = t.kid[s][p] /\ Good(t, U) /\ Relinked(t, r, p, s, x, c)
    BY <1>1, <1>6 DEF b, d, o
  <2> QED BY <1>4, <2>1, NewKids DEF o
<1>9. c \in Nodes /\ c # p /\ c # x /\ b = t.kid[Other(s)][x]
  BY <1>1, <1>4, TurnedFacts DEF b, o
<1>10. /\ H \in [Nodes -> Nat] /\ H[nil] = 0 /\ Heights(t, H, nil, nil)
  BY <1>1, HeightsLevel DEF Level
<1>11. /\ H[p] \in Nat /\ H[x] \in Nat /\ H[d] \in Nat /\ H[b] \in Nat /\ H[c] \in Nat
       /\ H[p] = 0 + H[x] /\ H[p] = 0 + H[d] /\ H[x] = 0 + H[b] /\ H[x] = 0 + H[c]
  <2>1. H[p] \in Nat /\ H[x] \in Nat /\ H[p] = 0 + H[x]
    BY <1>1, <1>2, <1>3, LevelAt
  <2>2. H[d] \in Nat /\ H[p] = 0 + H[d]
    BY <1>1, <1>2, <1>3, LevelAt DEF d
  <2>3. H[b] \in Nat /\ H[x] = 0 + H[b]
    BY <1>1, <1>2, <1>3, LevelAt DEF b
  <2>4. H[c] \in Nat /\ H[x] = 0 + H[c]
    BY <1>1, <1>2, <1>3, LevelAt DEF c
  <2> QED BY <2>1, <2>2, <2>3, <2>4
<1>12. ASSUME NEW m, NEW n \in Keys PROVE More(nil, nil, m, n) = 0
  BY KeyFacts DEF More
<1>13. \A n \in Nodes : Black(r, n) = Black(t, n)
  BY <1>6 DEF Black
<1>14. Level(r, H)
  <2>1. Weighs(r, H, nil, nil, p)
    <3>1. \A a \in Sides : r.kid[a][p] = c \/ r.kid[a][p] = d
      BY <1>2, <1>8, SideFacts DEF o
    <3>2. Black(r, p) = 0
      BY <1>2, <1>3, <1>6 DEF Black
    <3> QED BY <1>2, <1>11, <1>12, <3>1, <3>2 DEF Weighs
  <2>2. Weighs(r, H, nil, nil, x)
    <3>1. \A a \in Sides : r.kid[a][x] = p \/ r.kid[a][x] = b
      BY <1>2, <1>8, SideFacts DEF o
    <3>2. Black(r, x) = 0
      BY <1>2, <1>3, <1>6 DEF Black
    <3> QED BY <1>2, <1>11, <1>12, <3>1, <3>2 DEF Weighs
  <2>3. ASSUME b # nil PROVE Weighs(r, H, nil, nil, b)
    <3>1. b \in Keys
      BY <1>8, <2>3, KeyFacts
    <3>2. \A a \in Sides : H[b] = Black(t, b) + H[t.kid[a][b]] + More(nil, nil, t.kid[a][b], b)
      BY <1>10, <3>1 DEF Heights
    <3> QED BY <1>8, <1>13, <2>3, <3>2 DEF Weighs
  <2>4. \A n \in Keys \ {p, x, b} : r.color[n] = t.color[n] /\ H[n] = H[n]
    BY <1>6
  <2>5. \A n \in Keys \ {p, x, b} : \A a \in Sides :
           More(nil, nil, r.kid[a][n], n) = More(nil, nil, t.kid[a][n], n)
    BY <1>12
  <2>6. H[x] = H[p]
    BY <1>11
  <2>7. Heights(r, H, nil, nil)
    BY <1>1, <1>4, <1>6, <1>9, <1>10, <2>1, <2>2, <2>3, <2>4, <2>5, <2>6, RotateHeights
  <2> QED BY <1>7, <2>7, HeightsLevel, GoodFacts
<1>15. AllCalm(r, {p})
  <2>1. ASSUME NEW n \in Keys \ {p, x, b} PROVE Calm(t, {}, n)
    <3>1. \A a \in Sides : t.kid[a][n] # x
      BY <1>1, <2>1, KeyFacts DEF Family
    <3> QED BY <1>3, <3>1 DEF Calm
  <2>2. Calm(r, {p}, p)
    <3>1. t.color[d] = "BLACK"
      BY <1>2, <1>3, <1>8 DEF d
    <3>2. t.color[c] = "BLACK"
      BY <1>2, <1>3, <1>9 DEF c
    <3> QED BY <1>2, <1>6, <1>8, <3>1, <3>2, SideFacts DEF Calm, o
  <2>3. Calm(r, {p}, x)
    <3>1. t.color[b] = "BLACK"
      BY <1>2, <1>3, <1>8 DEF b
    <3> QED BY <1>2, <1>6, <1>8, <3>1, SideFacts DEF Calm, o
  <2>4. ASSUME b # nil PROVE Calm(r, {p}, b)
    <3>1. t.color[b] = "BLACK"
      BY <1>2, <1>3, <1>8 DEF b
    <3> QED BY <1>6, <3>1 DEF Calm
  <2>5. \A n \in Keys \ {p, x, b} : r.color[n] = t.color[n]
    BY <1>6
  <2>6. r.color[nil] = "BLACK" /\ r.color[x] \in {"BLACK", t.color[p]}
    BY <1>3, <1>6
  <2> QED BY <1>1, <1>4, <1>6, <1>9, <2>1, <2>2, <2>3, <2>4, <2>5, <2>6, RotateCalm
<1>16. r.root = t.root /\ r.parent[p] = x /\ r.parent[x] = g
  BY <1>2, <1>3, <1>6 DEF Relinked
<1>17. r.kid[s][g] = x /\ r.kid[o][g] = t.kid[o][g]
  <2>1. t.kid[o][g] # p
    BY <1>1, <1>2 DEF Family
  <2> QED BY <1>2, <1>6, <2>1 DEF Relinked
<1>18. Outer(r, V, H, p, x, g, s)
  BY <1>2, <1>3, <1>6, <1>7, <1>8, <1>14, <1>15, <1>16, <1>17 DEF Outer, o
<1> QED BY <1>7, <1>16, <1>18

LEMMA StraightMended ==
    ASSUME NEW t, NEW U, NEW H, NEW x, NEW p, NEW g, AtRed(t, U, H, x, p, g), NEW s, s = SideOf(t, p),
           t.color[t.kid[Other(s)][g]] = "BLACK", NEW r, r = Straightened(t, x, s)
    PROVE  \E V, G : /\ V[r.root] = U[t.root]
                     /\ Mended(r, V, G, IF x = t.kid[Other(s)][p] THEN p ELSE x)
<1>1. Family(t, U, x, p, g, s) /\ Good(t, U) /\ Level(t, H) /\ t.parent[x] = p /\ t.parent[p] = g
  BY RedParent DEF AtRed
<1>2. CASE x = t.kid[Other(s)][p]
  <2>1. PICK q : q = Rotate(t, p, s)
    OBVIOUS
  <2>2. /\ \E V : Outer(q, V, H, p, x, g, s) /\ V[q.root] = U[t.root]
        /\ q.parent[p] = x /\ q.parent[x] = g
    <3>1. Inner(t, U, H, x, p, g, s)
      BY <1>2 DEF Inner
    <3> QED BY <2>1, <3>1, InnerOuter
  <2>3. PICK V : Outer(q, V, H, p, x, g, s) /\ V[q.root] = U[t.root]
    BY <2>2
  <2>4. r = Rotate(Paint(q, x, "BLACK", g, "RED"), g, Other(s))
    BY <1>1, <1>2, <2>1, <2>2 DEF Straightened, Paint
  <2>5. \E W, G : Mended(r, W, G, p) /\ W[r.root] = V[q.root]
    BY <2>3, <2>4, OuterMended
  <2> QED BY <1>2, <2>3, <2>5
<1>3. CASE x # t.kid[Other(s)][p]
  <2>1. r = Rotate(Paint(t, p, "BLACK", g, "RED"), g, Other(s))
    BY <1>1, <1>3 DEF Straightened, Paint
  <2>2. t.kid[s][p] = x /\ s \in Sides
    BY <1>1, <1>3, SideFacts DEF Family
  <2>3. AllCalm(t, {x})
    BY DEF AtRed, Inserting, AllCalm, Calm
  <2>4. Outer(t, U, H, x, p, g, s)
    BY <1>1, <2>2, <2>3 DEF Outer, Family, AtRed, Inserting
  <2>5. \E W, G : Mended(r, W, G, x) /\ W[r.root] = U[t.root]
    BY <2>1, <2>4, OuterMended
  <2> QED BY <1>3, <2>5
<1> QED BY <1>2, <1>3

\* A red uncle: the defect moves to the grandparent.
LEMMA RecoloredClimbs ==
    ASSUME NEW t, NEW U, NEW H, NEW x, NEW p, NEW g, AtRed(t, U, H, x, p, g), NEW s, s = SideOf(t, p),
           NEW y, y = t.kid[Other(s)][g], t.color[y] = "RED", NEW r, r = Recolored(t, x, g, y)
    PROVE  r.root = t.root /\ \E G : Climbing(r, U, G, g)
<1> DEFINE G == [H EXCEPT ![p] = H[p] + 1, ![y] = H[y] + 1]
<1>1. Family(t, U, x, p, g, s) /\ Good(t, U) /\ Level(t, H) /\ t \in Tree
  BY RedParent, GoodFacts DEF AtRed
<1>2. /\ x \in Keys /\ p \in Keys /\ g \in Keys /\ s \in Sides /\ Other(s) \in Sides /\ Other(s) # s
      /\ x # p /\ x # g /\ p # g /\ g \in U[t.root] /\ t.kid[s][g] = p
      /\ t.color[nil] = "BLACK" /\ t.color[t.root] = "BLACK" /\ t.color[g] = "BLACK"
      /\ x \in Nodes /\ p \in Nodes /\ g \in Nodes
  BY <1>1, SideFacts, KeyFacts DEF Family
<1>3. y \in Keys /\ y # g /\ y # p /\ y \in Nodes
  <2>1. y # nil
    BY <1>2
  <2>2. y \in Keys /\ y # g
    BY <1>1, <1>2, <2>1, KidsInTree, Around
  <2>3. y # p
    BY <1>1, <1>2, <2>1, Around
  <2> QED BY <2>2, <2>3, KeyFacts
<1>4. /\ t.color[x] = "RED" /\ t.color[p] = "RED" /\ t.parent[x] = p
      /\ \A n \in Keys : \A a \in Sides :
           t.color[n] = "RED" => t.kid[a][n] = x \/ t.color[t.kid[a][n]] = "BLACK"
  BY DEF AtRed, Inserting
<1>5. /\ SameLinks(t, r)
      /\ \A n \in Nodes : r.color[n] = IF n = g THEN "RED" ELSE IF n = y THEN "BLACK"
                                       ELSE IF n = p THEN "BLACK" ELSE t.color[n]
  <2>1. r = Paints(t, p, "BLACK", y, "BLACK", g, "RED")
    BY <1>4 DEF Recolored, Paints
  <2>2. Hues(t, p, "BLACK", y, "BLACK", g, "RED")
    BY <1>1, <1>2, <1>3 DEF Hues
  <2> QED BY <2>1, <2>2, ThreeColors
<1>6. Good(r, U) /\ r.root = t.root /\ r.kid = t.kid
  BY <1>1, <1>5, RecolorGood DEF SameLinks
<1>7. H \in [Nodes -> Nat] /\ H[nil] = 0
  BY <1>1 DEF Level
<1>8. /\ G \in [Nodes -> Nat] /\ G[p] = H[p] + 1 /\ G[y] = H[y] + 1
      /\ \A n \in Nodes : n # p /\ n # y => G[n] = H[n]
  BY <1>2, <1>3, <1>7
<1> HIDE DEF G
<1>9. Level(r, G)
  <2>1. ASSUME NEW n \in Keys, NEW a \in Sides, n # g
        PROVE  G[n] = Black(r, n) + G[r.kid[a][n]]
    <3>1. t.kid[a][n] # p /\ t.kid[a][n] # y /\ t.kid[a][n] \in Nodes /\ n \in Nodes
      BY <1>1, <1>2, <1>3, <2>1, KidsInTree, KeyFacts, TreeFacts
    <3>2. G[r.kid[a][n]] = H[t.kid[a][n]] /\ H[t.kid[a][n]] \in Nat
      BY <1>6, <1>7, <1>8, <3>1
    <3>3. H[n] = (IF t.color[n] = "BLACK" THEN 1 ELSE 0) + H[t.kid[a][n]]
      BY <1>1, <2>1, LevelAt
    <3>4. Black(r, n) = IF n = y \/ n = p \/ t.color[n] = "BLACK" THEN 1 ELSE 0
      BY <1>5, <2>1, <3>1 DEF Black
    <3>5. t.color[y] = "RED" /\ t.color[p] = "RED"
      BY <1>4
    <3> QED BY <1>8, <3>1, <3>2, <3>3, <3>4, <3>5
  <2>2. ASSUME NEW a \in Sides PROVE G[g] = Black(r, g) + G[r.kid[a][g]]
    <3>1. r.kid[a][g] = p \/ r.kid[a][g] = y
      BY <1>2, <1>6, <2>2, SideFacts
    <3>2. H[g] = 1 + H[p] /\ H[g] = 1 + H[y] /\ H[p] \in Nat /\ H[y] \in Nat
      BY <1>1, <1>2, LevelAt
    <3>3. Black(r, g) = 0
      BY <1>2, <1>5 DEF Black
    <3> QED BY <1>2, <1>3, <1>8, <3>1, <3>2, <3>3
  <2>3. G[nil] = 0
    BY <1>2, <1>3, <1>7, <1>8, KeyFacts
  <2> QED BY <1>8, <2>1, <2>2, <2>3 DEF Level
<1>10. ASSUME NEW n \in Keys, NEW a \in Sides, r.color[n] = "RED"
       PROVE  r.kid[a][n] = g \/ r.color[r.kid[a][n]] = "BLACK"
  <2>1. n \in Nodes /\ t.kid[a][n] \in Nodes /\ r.kid[a][n] = t.kid[a][n]
    BY <1>1, <1>6, KeyFacts, TreeFacts
  <2>2. CASE n = g
    <3>1. r.kid[a][n] = p \/ r.kid[a][n] = y
      BY <1>2, <2>1, <2>2, <1>10, SideFacts
    <3> QED BY <1>2, <1>3, <1>5, <3>1
  <2>3. CASE n # g
    <3>1. n # p /\ n # y /\ t.color[n] = "RED"
      BY <1>5, <1>10, <2>1, <2>3
    <3>2. t.kid[a][n] # x
      BY <1>1, <2>1, <3>1 DEF Family
    <3>3. t.color[t.kid[a][n]] = "BLACK"
      BY <1>4, <3>1, <3>2
    <3> QED BY <1>5, <2>1, <3>3
  <2> QED BY <2>2, <2>3
<1>11. Inserting(r, U, g)
  BY <1>2, <1>5, <1>6, <1>10 DEF Inserting
<1>12. Reds(r, {g})
  <2>1. r.color[nil] = "BLACK"
    BY <1>2, <1>3, <1>5, KeyFacts
  <2>2. r.color[r.root] = "BLACK" \/ r.root \in {g}
    <3>1. t.root \in Nodes
      BY <1>1, TreeFacts
    <3> QED BY <1>2, <1>5, <1>6, <3>1
  <2> QED BY <1>10, <2>1, <2>2 DEF Reds
<1> QED BY <1>6, <1>9, <1>11, <1>12 DEF Climbing

\* The end of the insertion: the root becomes black.
LEMMA RootBlackened ==
    ASSUME NEW t, NEW U, NEW H, NEW x, Climbing(t, U, H, x), t.color[t.parent[x]] = "BLACK",
           NEW r, r = [t EXCEPT !.color[t.root] = "BLACK"]
    PROVE  r.root = t.root /\ \E G : Sound(r, U, G)
<1> DEFINE o == t.root
           G == [H EXCEPT ![o] = H[o] + 1 - Black(t, o)]
<1>1. Good(t, U) /\ Level(t, H) /\ t \in Tree /\ o \in Nodes /\ x \in U[t.root]
  BY GoodFacts, TreeFacts DEF Climbing, Inserting
<1>2. o \in Keys /\ x \in Keys
  <2>1. o # nil
    BY <1>1, GoodFacts
  <2> QED BY <1>1, <2>1, KeyFacts, Hangs
<1>3. SameLinks(t, r) /\ \A n \in Nodes : r.color[n] = IF n = o THEN "BLACK" ELSE t.color[n]
  <2>1. "BLACK" \in {"RED", "BLACK"} /\ r = [t EXCEPT !.color[o] = "BLACK"]
    OBVIOUS
  <2> HIDE DEF o
  <2>2. SameLinks(t, r)
    BY <1>1, <2>1 DEF SameLinks, Tree
  <2>3. r.color = [t.color EXCEPT ![o] = "BLACK"] /\ t.color \in [Nodes -> {"RED", "BLACK"}]
    BY <1>1, <2>1 DEF Tree
  <2> QED BY <1>1, <2>2, <2>3
<1>4. Good(r, U) /\ r.root = t.root /\ r.kid = t.kid
  BY <1>1, <1>3, RecolorGood DEF SameLinks
<1>5. H \in [Nodes -> Nat] /\ H[nil] = 0 /\ Black(t, o) \in {0, 1}
  BY <1>1 DEF Level, Black
<1>6. H[o] + 1 - Black(t, o) \in Nat
  <2>1. H[o] \in Nat
    BY <1>1, <1>5
  <2> QED BY <1>5, <2>1
<1>7. /\ G \in [Nodes -> Nat] /\ G[o] = H[o] + 1 - Black(t, o)
      /\ \A n \in Nodes : n # o => G[n] = H[n]
  BY <1>1, <1>5, <1>6
<1>8. \A n \in Keys : \A a \in Sides : t.kid[a][n] # o
  BY <1>1, <1>2, KidsInTree, Hangs, KeyFacts
<1> HIDE DEF o, G
<1>9. ASSUME NEW n \in Keys, NEW a \in Sides PROVE G[n] = Black(r, n) + G[r.kid[a][n]]
  <2>1. n \in Nodes /\ t.kid[a][n] \in Nodes /\ t.kid[a][n] # o
    BY <1>1, <1>8, KeyFacts, TreeFacts
  <2>2. H[n] = Black(t, n) + H[t.kid[a][n]]
    BY <1>1 DEF Level
  <2>3. G[r.kid[a][n]] = H[t.kid[a][n]] /\ H[t.kid[a][n]] \in Nat
    BY <1>4, <1>5, <1>7, <2>1
  <2>4. CASE n = o
    <3>1. Black(r, n) = 1
      BY <1>3, <2>1, <2>4 DEF Black
    <3> QED BY <1>5, <1>7, <2>2, <2>3, <2>4, <3>1
  <2>5. CASE n # o
    <3>1. Black(r, n) = Black(t, n)
      BY <1>3, <2>1, <2>5 DEF Black
    <3> QED BY <1>7, <2>1, <2>2, <2>3, <2>5, <3>1
  <2> QED BY <2>4, <2>5
<1>10. Level(r, G)
  BY <1>2, <1>5, <1>7, <1>9, KeyFacts DEF Level
<1>11. ASSUME NEW n \in Keys, NEW a \in Sides, r.color[n] = "RED"
       PROVE  r.color[r.kid[a][n]] = "BLACK"
  <2>1. n \in Nodes /\ t.kid[a][n] \in Nodes /\ t.kid[a][n] # o /\ t.color[n] = "RED"
    BY <1>1, <1>3, <1>8, <1>11, KeyFacts, TreeFacts
  <2>2. t.kid[a][n] = x \/ t.color[t.kid[a][n]] = "BLACK"
    BY <2>1 DEF Climbing, Inserting
  <2>3. t.kid[a][n] # x
    <3>1. t.kid[a][n] = x => t.parent[x] = n
      BY <1>1, <1>2, <2>1, KidsInTree, KeyFacts
    <3> QED BY <2>1, <3>1
  <2> QED BY <1>3, <1>4, <2>1, <2>2, <2>3
<1>12. r.color[nil] = "BLACK" /\ r.color[r.root] = "BLACK"
  BY <1>1, <1>3, <1>4, KeyFacts DEF Climbing, Reds, o
<1>13. Reds(r, {})
  BY <1>11, <1>12 DEF Reds
<1> QED BY <1>4, <1>10, <1>13 DEF Sound

\* The new node is red and makes no way down longer.
LEMMA LinkClimbs ==
    ASSUME NEW t, NEW U, NEW H, Sound(t, U, H), NEW k \in Keys, k \notin U[t.root],
           NEW r, r = Linked(t, k)
    PROVE  \E V, G : Climbing(r, V, G, k) /\ V[r.root] = U[t.root] \cup {k}
<1> DEFINE G == [H EXCEPT ![k] = 0]
<1>1. Good(t, U) /\ Level(t, H) /\ Reds(t, {}) /\ t \in Tree /\ k \in Nodes /\ t.root \in Nodes
  BY GoodFacts, KeyFacts, TreeFacts DEF Sound
<1>2. PICK y : y = LastOnPath(t, k)
  OBVIOUS
<1>3. /\ IsLinked(t, r, k, y) /\ y \in Nodes /\ y # k
      /\ y # nil => y \in U[t.root] /\ t.kid[Toward(k, y)][y] = nil
      /\ \E V : Good(r, V) /\ V[r.root] = U[t.root] \cup {k}
  BY <1>1, <1>2, LinkGood
<1>4. PICK V : Good(r, V) /\ V[r.root] = U[t.root] \cup {k}
  BY <1>3
<1>5. /\ r.root = IF y = nil THEN k ELSE t.root
      /\ \A a \in Sides : \A n \in Nodes :
            r.kid[a][n] = IF n = k THEN nil
                          ELSE IF n = y /\ y # nil /\ a = Toward(k, y) THEN k ELSE t.kid[a][n]
      /\ \A n \in Nodes : r.color[n] = IF n = k THEN "RED" ELSE t.color[n]
  BY <1>3 DEF IsLinked
<1>6. \A n \in Nodes : \A a \in Sides : t.kid[a][n] # k /\ t.kid[a][n] \in Nodes
  BY <1>1, NobodysKid, TreeFacts
<1>7. H \in [Nodes -> Nat] /\ H[nil] = 0
  BY <1>1 DEF Level
<1>8. G \in [Nodes -> Nat] /\ G[k] = 0 /\ \A n \in Nodes : n # k => G[n] = H[n]
  BY <1>1, <1>7
<1>9. nil \in Nodes /\ nil \notin Keys /\ k # nil /\ G[nil] = 0 /\ t.color[nil] = "BLACK"
  BY <1>1, <1>7, <1>8, KeyFacts DEF Reds
<1> HIDE DEF G
<1>10. ASSUME NEW n \in Keys, NEW a \in Sides PROVE G[n] = Black(r, n) + G[r.kid[a][n]]
  <2>1. n \in Nodes
    BY KeyFacts
  <2>2. CASE n = k
    BY <1>1, <1>5, <1>8, <1>9, <2>1, <2>2 DEF Black
  <2>3. CASE n # k
    <3>1. H[n] = Black(t, n) + H[t.kid[a][n]]
      BY <1>1 DEF Level
    <3>2. Black(r, n) = Black(t, n) /\ G[n] = H[n]
      BY <1>5, <1>8, <2>1, <2>3 DEF Black
    <3>3. G[r.kid[a][n]] = H[t.kid[a][n]]
      <4>1. CASE n = y /\ y # nil /\ a = Toward(k, y)
        <5>1. r.kid[a][n] = k /\ t.kid[a][n] = nil
          BY <1>3, <1>5, <2>1, <2>3, <4>1
        <5> QED BY <1>7, <1>8, <5>1
      <4>2. CASE ~(n = y /\ y # nil /\ a = Toward(k, y))
        BY <1>5, <1>6, <1>8, <2>1, <2>3, <4>2
      <4> QED BY <4>1, <4>2
    <3> QED BY <3>1, <3>2, <3>3
  <2> QED BY <2>2, <2>3
<1>11. Level(r, G)
  BY <1>8, <1>9, <1>10 DEF Level
<1>12. ASSUME NEW n \in Keys, NEW a \in Sides, r.color[n] = "RED"
       PROVE  r.kid[a][n] = k \/ r.color[r.kid[a][n]] = "BLACK"
  <2>1. n \in Nodes
    BY KeyFacts
  <2>2. CASE n = k
    BY <1>1, <1>5, <1>9, <2>1, <2>2, <1>12
  <2>3. CASE n # k
    <3>1. t.color[n] = "RED"
      BY <1>5, <1>12, <2>1, <2>3
    <3>2. t.color[t.kid[a][n]] = "BLACK"
      BY <1>1, <3>1 DEF Reds
    <3> QED BY <1>5, <1>6, <2>1, <2>3, <3>2
  <2> QED BY <2>2, <2>3
<1>13. Inserting(r, V, k)
  BY <1>1, <1>4, <1>5, <1>12 DEF Inserting
<1>14. r.color[nil] = "BLACK" /\ (r.color[r.root] = "BLACK" \/ r.root \in {k})
  BY <1>1, <1>5, <1>9 DEF Reds
<1>15. Reds(r, {k})
  BY <1>12, <1>14 DEF Reds
<1> QED BY <1>4, <1>11, <1>13, <1>15 DEF Climbing

-----------------------------------------------------------------------------
\* Cutting a node out takes a black node from the ways through it, or none.

\* What is left after the cut; P is nil when y was red.
Remains(t, U, F, y, x, P) ==
    /\ \E G : Heights(F, G, x, P)
    /\ Reds(F, IF t.color[y] = "BLACK" THEN {x} ELSE {})
    /\ F.parent[x] = t.parent[y]
    /\ t.color[y] = "BLACK" =>
          \/ x = F.root /\ F.parent[x] = nil
          \/ /\ x # F.root /\ t.parent[y] \in U[t.root] \ {y}
             /\ \E s \in Sides : /\ F.kid[s][t.parent[y]] = x
                                 /\ F.kid[Other(s)][t.parent[y]] # x

LEMMA CutColors ==
    ASSUME NEW t, NEW U, NEW H, Sound(t, U, H), NEW y \in U[t.root], NEW x, HasOnly(t, y, x),
           NEW F, IsCut(t, F, y, x), NEW P, P = IF t.color[y] = "BLACK" THEN t.parent[y] ELSE nil
    PROVE  Remains(t, U, F, y, x, P)
<1> DEFINE G == [H EXCEPT ![y] = 1]
           q == t.parent[y]
<1>1. Good(t, U) /\ Level(t, H) /\ Reds(t, {}) /\ t \in Tree /\ t.root \in Nodes
  BY GoodFacts, TreeFacts DEF Sound
<1>2. y \in Keys /\ y \in Nodes /\ y # nil /\ x \in Nodes /\ x # y
  BY <1>1, OnlyFacts, KeyFacts
<1>3. PICK a0 \in Sides : x = t.kid[a0][y]
  BY DEF HasOnly
<1>4. /\ F.root = IF t.root = y THEN x ELSE t.root
      /\ \A a \in Sides : \A n \in Nodes :
            F.kid[a][n] = IF n = y THEN nil ELSE IF t.kid[a][n] = y THEN x ELSE t.kid[a][n]
      /\ F.parent[x] = t.parent[y]
      /\ \A n \in Nodes : F.color[n] = IF n = y THEN "BLACK" ELSE t.color[n]
  BY <1>2 DEF IsCut
<1>5. H \in [Nodes -> Nat] /\ H[nil] = 0 /\ H[y] \in Nat /\ H[x] \in Nat
  BY <1>1, <1>2 DEF Level
<1>6. H[y] = Black(t, y) + H[x]
  BY <1>1, <1>2, <1>3 DEF Level
<1>7. /\ G \in [Nodes -> Nat] /\ G[y] = 1 /\ \A n \in Nodes : n # y => G[n] = H[n]
  BY <1>2, <1>5
<1>8. G[nil] = 0 /\ nil \in Nodes
  BY <1>2, <1>5, <1>7, KeyFacts
<1> HIDE DEF G
<1>9. x # nil => t.parent[x] = y /\ x # t.root
  <2>1. ASSUME x # nil PROVE t.parent[x] = y /\ x \in U[t.root]
    BY <1>1, <1>2, <1>3, <2>1, KidsInTree
  <2>2. ASSUME x # nil, x = t.root PROVE FALSE
    BY <1>1, <1>2, <2>1, <2>2, Hangs
  <2> QED BY <2>1, <2>2
\* The sibling of a black node is not nil.
<1>10. ASSUME NEW n \in Keys, NEW a \in Sides, n # y, t.kid[a][n] # y, t.kid[a][n] = x
       PROVE  n # P
  <2>1. SUFFICES ASSUME n = P PROVE FALSE
    OBVIOUS
  <2>2. t.color[y] = "BLACK" /\ n = q /\ q \in Keys
    BY <2>1, KeyFacts
  <2>3. y # t.root
    <3>1. y = t.root => t.parent[y] = nil
      BY <1>1, Hangs
    <3> QED BY <2>2, <3>1, KeyFacts
  <2>4. t.kid[SideOf(t, y)][n] = y /\ SideOf(t, y) \in Sides
    BY <1>1, <2>2, <2>3, Hangs
  <2>5. x = nil
    <3>1. x # nil => t.parent[x] = n
      BY <1>1, <1>10, KidsInTree, KeyFacts
    <3> QED BY <1>9, <1>10, <3>1
  <2>6. H[n] = Black(t, n) + H[y] /\ H[n] = Black(t, n) + H[nil] /\ Black(t, y) = 1
    <3>1. Black(t, y) = 1
      BY <2>2 DEF Black
    <3>2. \A b \in Sides : H[n] = Black(t, n) + H[t.kid[b][n]]
      BY <1>1 DEF Level
    <3> QED BY <1>10, <2>4, <2>5, <3>1, <3>2
  <2>7. Black(t, n) \in Nat
    BY DEF Black
  <2> QED BY <1>5, <1>6, <2>5, <2>6, <2>7
<1>11. ASSUME NEW n \in Keys, NEW a \in Sides
       PROVE  G[n] = Black(F, n) + G[F.kid[a][n]] + More(x, P, F.kid[a][n], n)
  <2>1. n \in Nodes /\ t.kid[a][n] \in Nodes
    BY <1>1, KeyFacts, TreeFacts
  <2>2. CASE n = y
    <3>1. F.kid[a][n] = nil /\ Black(F, n) = 1
      BY <1>2, <1>4, <2>2 DEF Black
    <3>2. More(x, P, nil, n) = 0
      <4>1. n # P
        <5>1. y # t.parent[y]
          <6>1. y = t.root => t.parent[y] = nil
            BY <1>1, Hangs
          <6>2. y # t.root => /\ t.parent[y] \in Keys
                              /\ \E s \in Sides : t.kid[s][t.parent[y]] = y
            BY <1>1, Hangs
          <6>3. \A s \in Sides : t.kid[s][y] # y
            BY <1>1, <1>2, Around
          <6> QED BY <1>2, <6>1, <6>2, <6>3
        <5> QED BY <1>2, <2>2, <5>1
      <4> QED BY <4>1 DEF More
    <3> QED BY <1>7, <1>8, <2>2, <3>1, <3>2
  <2>3. CASE n # y
    <3>1. G[n] = H[n] /\ H[n] = Black(t, n) + H[t.kid[a][n]] /\ Black(F, n) = Black(t, n)
      BY <1>1, <1>4, <1>7, <2>1, <2>3 DEF Level, Black
    <3>2. CASE t.kid[a][n] = y
      <4>1. F.kid[a][n] = x /\ G[x] = H[x] /\ n = q
        <5>1. t.parent[y] = n
          BY <1>1, <1>2, <3>2, KidsInTree, <2>1
        <5> QED BY <1>2, <1>4, <1>7, <2>1, <2>3, <3>2, <5>1
      <4>2. More(x, P, x, n) = Black(t, y)
        BY <4>1, KeyFacts DEF More, Black
      <4>3. Black(t, y) \in Nat /\ Black(t, n) \in Nat
        BY DEF Black
      <4> QED BY <1>5, <1>6, <3>1, <3>2, <4>1, <4>2, <4>3
    <3>3. CASE t.kid[a][n] # y
      <4>1. F.kid[a][n] = t.kid[a][n] /\ G[F.kid[a][n]] = H[t.kid[a][n]]
        BY <1>4, <1>7, <2>1, <2>3, <3>3
      <4>2. More(x, P, F.kid[a][n], n) = 0
        BY <1>10, <2>3, <3>3, <4>1 DEF More
      <4>3. Black(t, n) \in Nat /\ H[t.kid[a][n]] \in Nat
        BY <1>5, <2>1 DEF Black
      <4> QED BY <3>1, <4>1, <4>2, <4>3
    <3> QED BY <3>2, <3>3
  <2> QED BY <2>2, <2>3
<1>12. Heights(F, G, x, P)
  BY <1>7, <1>8, <1>11 DEF Heights
<1>13. F.color[nil] = "BLACK" /\ (F.color[F.root] = "BLACK" \/ (F.root = x /\ y = t.root))
  BY <1>1, <1>4, <1>8, <1>2 DEF Reds
<1>14. ASSUME NEW n \in Keys, NEW a \in Sides, F.color[n] = "RED"
       PROVE  F.kid[a][n] = x \/ F.color[F.kid[a][n]] = "BLACK"
  <2>1. n \in Nodes /\ t.kid[a][n] \in Nodes /\ n # y /\ t.color[n] = "RED"
    BY <1>1, <1>4, <1>14, KeyFacts, TreeFacts
  <2>2. t.color[t.kid[a][n]] = "BLACK"
    BY <1>1, <2>1 DEF Reds
  <2> QED BY <1>4, <2>1, <2>2
<1>15. ASSUME t.color[y] # "BLACK" PROVE F.color[x] = "BLACK" /\ y # t.root
  <2>1. t.color[y] = "RED"
    BY <1>1, <1>2, <1>15, TreeFacts
  <2>2. t.color[x] = "BLACK" /\ t.color[t.root] = "BLACK"
    BY <1>1, <1>2, <1>3, <2>1 DEF Reds
  <2> QED BY <1>2, <1>4, <1>15, <2>2
<1>16. Reds(F, IF t.color[y] = "BLACK" THEN {x} ELSE {})
  BY <1>13, <1>14, <1>15 DEF Reds
<1>17. CASE y = t.root
  BY <1>1, <1>4, <1>12, <1>16, <1>17, Hangs DEF Remains
<1>18. CASE y # t.root
  <2>1. /\ q \in U[t.root] /\ q \in Keys /\ SideOf(t, y) \in Sides /\ t.kid[SideOf(t, y)][q] = y
    BY <1>1, <1>18, Hangs
  <2>2. q # y
    BY <1>1, <1>2, <2>1, Around
  <2>3. x # F.root
    <3>1. t.root # nil
      BY <1>1, GoodFacts
    <3> QED BY <1>4, <1>9, <1>18, <3>1
  <2>4. F.kid[SideOf(t, y)][q] = x
    BY <1>4, <2>1, <2>2, KeyFacts
  <2>5. ASSUME t.color[y] = "BLACK" PROVE F.kid[Other(SideOf(t, y))][q] # x
    <3>1. Other(SideOf(t, y)) \in Sides /\ q \in Nodes
      BY <2>1, SideFacts, KeyFacts
    <3>2. t.kid[Other(SideOf(t, y))][q] # y
      BY <1>1, <1>2, <2>1, Around
    <3>3. t.kid[Other(SideOf(t, y))][q] # x
      BY <1>10, <2>1, <2>2, <2>5, <3>1, <3>2
    <3> QED BY <1>4, <2>2, <3>1, <3>2, <3>3
  <2> QED BY <1>4, <1>12, <1>16, <2>1, <2>2, <2>3, <2>4, <2>5 DEF Remains
<1> QED BY <1>17, <1>18

\* Names do not matter to the colours.
LEMMA RenameColors ==
    ASSUME NEW F \in Tree, NEW a \in Keys, NEW b \in Keys, NEW r, IsRenamed(F, r, a, b),
           NEW H, NEW e \in Nodes, NEW q \in Nodes, Heights(F, H, e, q)
    PROVE  /\ \E G : Heights(r, G, Swap(a, b, e), Swap(a, b, q))
           /\ Reds(F, {e}) => Reds(r, {Swap(a, b, e)})
           /\ Reds(F, {}) => Reds(r, {})
<1> DEFINE N(n) == Swap(a, b, n)
           G == [n \in Nodes |-> H[N(n)]]
<1>1. /\ \A n \in Nodes : N(n) \in Nodes /\ N(N(n)) = n
      /\ \A n \in Keys : N(n) \in Keys
      /\ N(nil) = nil
      /\ \A m, n \in Nodes : N(m) = N(n) => m = n
  BY SwapFacts
<1>2. /\ r.root = N(F.root)
      /\ \A s \in Sides : \A n \in Nodes : r.kid[s][n] = N(F.kid[s][N(n)])
      /\ \A n \in Nodes : r.color[n] = F.color[N(n)]
  BY DEF IsRenamed
<1>3. /\ \A n \in Keys : n \in Nodes /\ nil \in Nodes
      /\ \A s \in Sides : \A n \in Nodes : F.kid[s][n] \in Nodes
      /\ F.root \in Nodes /\ nil \in Nodes
  BY KeyFacts, TreeFacts
<1> HIDE DEF N
<1>4. H \in [Nodes -> Nat] /\ H[nil] = 0
  BY DEF Heights
<1>5. G \in [Nodes -> Nat] /\ G[nil] = 0 /\ \A n \in Nodes : G[n] = H[N(n)]
  BY <1>1, <1>3, <1>4
<1> HIDE DEF G
<1>6. ASSUME NEW n \in Keys, NEW s \in Sides
      PROVE  G[n] = Black(r, n) + G[r.kid[s][n]] + More(N(e), N(q), r.kid[s][n], n)
  <2>1. N(n) \in Keys /\ n \in Nodes /\ N(n) \in Nodes /\ F.kid[s][N(n)] \in Nodes
    BY <1>1, <1>3
  <2>2. H[N(n)] = Black(F, N(n)) + H[F.kid[s][N(n)]] + More(e, q, F.kid[s][N(n)], N(n))
    BY <2>1 DEF Heights
  <2>3. Black(r, n) = Black(F, N(n))
    BY <1>2, <2>1 DEF Black
  <2>4. G[r.kid[s][n]] = H[F.kid[s][N(n)]] /\ G[n] = H[N(n)]
    BY <1>1, <1>2, <1>5, <2>1
  <2>5. More(N(e), N(q), r.kid[s][n], n) = More(e, q, F.kid[s][N(n)], N(n))
    <3>1. r.kid[s][n] = N(e) <=> F.kid[s][N(n)] = e
      BY <1>1, <1>2, <2>1
    <3>2. n = N(q) <=> N(n) = q
      BY <1>1, <2>1
    <3> QED BY <3>1, <3>2 DEF More
  <2> QED BY <2>2, <2>3, <2>4, <2>5
<1>7. Heights(r, G, N(e), N(q))
  BY <1>5, <1>6 DEF Heights
<1>8. ASSUME NEW D \in {{}, {e}}, Reds(F, D) PROVE Reds(r, {N(n) : n \in D})
  <2>1. r.color[nil] = "BLACK"
    BY <1>1, <1>2, <1>3, <1>8 DEF Reds
  <2>2. r.color[r.root] = "BLACK" \/ r.root \in {N(n) : n \in D}
    <3>1. r.color[r.root] = F.color[F.root]
      BY <1>1, <1>2, <1>3
    <3> QED BY <1>2, <1>8, <3>1 DEF Reds
  <2>3. ASSUME NEW n \in Keys, NEW s \in Sides, r.color[n] = "RED", n \notin {N(m) : m \in D},
               r.kid[s][n] \notin {N(m) : m \in D}
        PROVE  r.color[r.kid[s][n]] = "BLACK"
    <3>1. N(n) \in Keys /\ n \in Nodes /\ F.kid[s][N(n)] \in Nodes /\ F.color[N(n)] = "RED"
      BY <1>1, <1>2, <1>3, <2>3
    <3>2. N(n) \notin D /\ F.kid[s][N(n)] \notin D
      BY <1>1, <1>2, <2>3, <3>1
    <3>3. F.color[F.kid[s][N(n)]] = "BLACK"
      BY <1>8, <3>1, <3>2 DEF Reds
    <3> QED BY <1>1, <1>2, <3>1, <3>3
  <2> QED BY <2>1, <2>2, <2>3 DEF Reds
<1>9. Reds(F, {e}) => Reds(r, {N(e)})
  <2>1. {N(n) : n \in {e}} = {N(e)}
    OBVIOUS
  <2> QED BY <1>8, <2>1
<1>10. Reds(F, {}) => Reds(r, {})
  <2>1. {N(n) : n \in {}} = {}
    OBVIOUS
  <2> QED BY <1>8, <2>1
<1> QED BY <1>7, <1>9, <1>10 DEF N

\* The child that is left is not the node that gives its name away.
LEMMA ChildKeepsName ==
    ASSUME NEW t, NEW U, Good(t, U), NEW k \in U[t.root], NEW y, y = CutNode(t, k),
           NEW x, x = OnlyChild(t, y)
    PROVE  x # k
<1>1. y \in U[t.root] /\ k \in Keys /\ HasOnly(t, y, x)
  BY CutFacts
<1>2. y \in Keys /\ x \in Nodes /\ x # y /\ U[x] = U[y] \ {y} /\ y \in U[y] /\ y \in Nodes
  BY <1>1, OnlyFacts, KeyFacts
<1>3. CASE y = k
  BY <1>2, <1>3
<1>4. CASE y # k
  <2> DEFINE c == t.kid["right"][k]
  <2>1. c # nil /\ y = rbtree_successor(t, k)
    BY <1>4 DEF CutNode
  <2>2. IsLeast(t, U, c, y)
    BY <1>1, <2>1, SuccessorIsLeast
  <2>3. y \in U[c] /\ c \in Nodes /\ k \notin U[c] /\ k \in U[k]
    BY <1>1, <2>2, SideFacts, Around DEF IsLeast
  <2> HIDE DEF c
  <2>4. U[y] \subseteq U[c]
    BY <2>3, Within
  <2> QED BY <1>2, <2>3, <2>4
<1> QED BY <1>3, <1>4

LEMMA DeleteFalls ==
    ASSUME NEW t, NEW U, NEW H, Sound(t, U, H), NEW k \in U[t.root], NEW y, y = CutNode(t, k),
           NEW x, x = OnlyChild(t, y), NEW r, r = Unlinked(t, k)
    PROVE  \E W, G : /\ W[r.root] = U[t.root] \ {k} /\ x \in Nodes
                     /\ IF t.color[y] = "BLACK" THEN Falling(r, W, G, x) ELSE Sound(r, W, G)
<1>1. Good(t, U) /\ t \in Tree
  BY GoodFacts DEF Sound
<1>2. /\ y \in U[t.root] /\ k \in Keys /\ HasOnly(t, y, x)
      /\ \E F, V, W : /\ IsCut(t, F, y, x) /\ Good(F, V) /\ V[F.root] = U[t.root] \ {y}
                      /\ IsRenamed(F, r, y, k)
                      /\ Good(r, W) /\ W[r.root] = U[t.root] \ {k}
  BY <1>1, DeleteGood
<1>3. PICK F, V, W : /\ IsCut(t, F, y, x) /\ Good(F, V) /\ V[F.root] = U[t.root] \ {y}
                     /\ IsRenamed(F, r, y, k)
                     /\ Good(r, W) /\ W[r.root] = U[t.root] \ {k}
  BY <1>2
<1>4. y \in Keys /\ x \in Nodes /\ x # y /\ x # k
  BY <1>1, <1>2, OnlyFacts, ChildKeepsName
<1>5. Swap(y, k, x) = x /\ Swap(y, k, nil) = nil
  BY <1>2, <1>4, SwapFacts
<1>6. PICK P : P = IF t.color[y] = "BLACK" THEN t.parent[y] ELSE nil
  OBVIOUS
<1>7. /\ \E G : Heights(F, G, x, P)
      /\ Reds(F, IF t.color[y] = "BLACK" THEN {x} ELSE {})
      /\ F.parent[x] = t.parent[y]
      /\ t.color[y] = "BLACK" =>
            \/ x = F.root /\ F.parent[x] = nil
            \/ /\ x # F.root /\ t.parent[y] \in U[t.root] \ {y}
               /\ \E s \in Sides : /\ F.kid[s][t.parent[y]] = x
                                   /\ F.kid[Other(s)][t.parent[y]] # x
  <2>1. IsCut(t, F, y, x)
    BY <1>3
  <2>2. y \in U[t.root] /\ HasOnly(t, y, x)
    BY <1>2
  <2>3. Remains(t, U, F, y, x, P)
    BY <1>6, <2>1, <2>2, CutColors
  <2> QED BY <2>3 DEF Remains
<1>8. F \in Tree /\ P \in Nodes /\ y \in Nodes /\ t.parent[y] \in Nodes
  BY <1>1, <1>3, <1>4, <1>6, GoodFacts, TreeFacts, KeyFacts
<1>9. PICK G1 : Heights(F, G1, x, P)
  BY <1>7
<1>10. /\ \E G : Heights(r, G, x, Swap(y, k, P))
       /\ Reds(F, {x}) => Reds(r, {x})
       /\ Reds(F, {}) => Reds(r, {})
  <2>1. IsRenamed(F, r, y, k)
    BY <1>3
  <2>2. /\ \E G : Heights(r, G, Swap(y, k, x), Swap(y, k, P))
        /\ Reds(F, {x}) => Reds(r, {Swap(y, k, x)})
        /\ Reds(F, {}) => Reds(r, {})
    BY <1>2, <1>4, <1>8, <1>9, <2>1, RenameColors
  <2> QED BY <1>5, <2>2
<1>11. PICK G : Heights(r, G, x, Swap(y, k, P))
  BY <1>10
<1>12. Good(r, W) /\ r \in Tree /\ W[r.root] = U[t.root] \ {k}
  BY <1>3, GoodFacts
<1>13. CASE t.color[y] # "BLACK"
  <2>1. Reds(r, {}) /\ P = nil
    BY <1>6, <1>7, <1>10, <1>13
  <2>2. Level(r, G)
    BY <1>5, <1>11, <1>12, <2>1, HeightsLevel
  <2> QED BY <1>4, <1>12, <1>13, <2>1, <2>2 DEF Sound
<1>14. CASE t.color[y] = "BLACK"
  <2>1. Reds(r, {x}) /\ P = t.parent[y]
    BY <1>6, <1>7, <1>10, <1>14
  <2>2. /\ r.root = Swap(y, k, F.root) /\ r.parent[x] = Swap(y, k, t.parent[y])
        /\ \A s \in Sides : \A n \in Nodes : r.kid[s][n] = Swap(y, k, F.kid[s][Swap(y, k, n)])
    BY <1>3, <1>4, <1>5, <1>7 DEF IsRenamed
  <2>3. /\ \A m, n \in Nodes : Swap(y, k, m) = Swap(y, k, n) => m = n
        /\ \A n \in Nodes : Swap(y, k, n) \in Nodes /\ Swap(y, k, Swap(y, k, n)) = n
    BY <1>2, <1>4, SwapFacts
  <2>4. Deleting(r, W, x)
    <3>1. CASE x = F.root /\ F.parent[x] = nil
      BY <1>5, <1>7, <2>2, <3>1 DEF Deleting
    <3>2. CASE /\ x # F.root /\ t.parent[y] \in U[t.root] \ {y}
               /\ \E s \in Sides : /\ F.kid[s][t.parent[y]] = x
                                   /\ F.kid[Other(s)][t.parent[y]] # x
      <4>1. x # r.root
        <5>1. F.root \in Nodes
          BY <1>8, TreeFacts
        <5> QED BY <1>4, <1>5, <2>2, <2>3, <3>2, <5>1
      <4>2. r.parent[x] \in W[r.root]
        BY <1>2, <1>4, <1>12, <2>2, <3>2 DEF Swap
      <4>3. PICK s \in Sides : F.kid[s][t.parent[y]] = x /\ F.kid[Other(s)][t.parent[y]] # x
        BY <3>2
      <4>4. Swap(y, k, r.parent[x]) = t.parent[y] /\ r.parent[x] \in Nodes
        BY <1>8, <2>2, <2>3
      <4>5. r.kid[s][r.parent[x]] = x
        BY <1>5, <2>2, <4>3, <4>4
      <4>6. r.kid[Other(s)][r.parent[x]] # x
        <5>1. Other(s) \in Sides
          BY SideFacts
        <5>2. r.kid[Other(s)][r.parent[x]] = Swap(y, k, F.kid[Other(s)][t.parent[y]])
          BY <2>2, <4>4, <5>1
        <5>3. F.kid[Other(s)][t.parent[y]] \in Nodes
          BY <1>8, <5>1, TreeFacts
        <5> QED BY <1>4, <1>5, <2>3, <4>3, <5>2, <5>3
      <4> QED BY <4>1, <4>2, <4>5, <4>6 DEF Deleting
    <3> QED BY <1>7, <1>14, <3>1, <3>2
  <2>5. Heights(r, G, x, r.parent[x])
    BY <1>11, <2>1, <2>2
  <2> QED BY <1>4, <1>12, <1>14, <2>1, <2>4, <2>5 DEF Falling
<1> QED BY <1>13, <1>14

-----------------------------------------------------------------------------
\* The rounds of the deletion.

\* x hangs on side s of p, and the ways through x are one black node short.
Short(t, U, H, x, p, s) ==
    /\ Good(t, U) /\ Heights(t, H, x, p) /\ AllCalm(t, {})
    /\ t.color[t.root] = "BLACK" /\ t.color[nil] = "BLACK" /\ t.color[x] = "BLACK"
    /\ x \in Nodes /\ p \in U[t.root] /\ s \in Sides
    /\ t.kid[s][p] = x /\ t.kid[Other(s)][p] # x /\ t.parent[x] = p

LEMMA FallingShort ==
    ASSUME NEW t, NEW U, NEW H, NEW x \in Nodes, Falling(t, U, H, x), x # t.root,
           t.color[x] = "BLACK", NEW p, p = t.parent[x], NEW s, s = SideOf(t, x)
    PROVE  Short(t, U, H, x, p, s)
<1>1. Good(t, U) /\ Heights(t, H, x, p) /\ Reds(t, {x}) /\ Deleting(t, U, x) /\ t \in Tree
  BY GoodFacts DEF Falling
<1>2. p \in U[t.root]
  BY <1>1 DEF Deleting
<1>3. PICK a \in Sides : t.kid[a][p] = x /\ t.kid[Other(a)][p] # x
  BY <1>1 DEF Deleting
<1>4. s = a
  <2>1. CASE a = "left"
    BY <1>3, <2>1 DEF SideOf
  <2>2. CASE a = "right"
    <3>1. t.kid["left"][p] # x
      BY <1>3, <2>2, SideFacts
    <3> QED BY <2>2, <3>1 DEF SideOf
  <2> QED BY <2>1, <2>2 DEF Sides
<1>5. t.color[t.root] = "BLACK" /\ t.color[nil] = "BLACK"
  BY <1>1 DEF Reds
<1>6. ASSUME NEW n \in Keys, NEW b \in Sides, t.color[n] = "RED" PROVE t.color[t.kid[b][n]] = "BLACK"
  BY <1>1, <1>6 DEF Reds
<1> QED BY <1>1, <1>2, <1>3, <1>4, <1>5, <1>6 DEF Short, AllCalm, Calm

\* The sibling of x.
LEMMA Sibling ==
    ASSUME NEW t, NEW U, NEW H, NEW x, NEW p, NEW s, Short(t, U, H, x, p, s),
           NEW w, w = t.kid[Other(s)][p], NEW c, c = t.kid[s][w]
    PROVE  /\ Good(t, U) /\ t \in Tree /\ Turned(t, U, p, s, w, c)
           /\ p \in Keys /\ w \in Keys /\ c \in Nodes /\ s \in Sides /\ Other(s) \in Sides
           /\ Other(s) # s /\ p \in Nodes /\ w \in Nodes /\ nil \notin Keys
           /\ p # w /\ x # p /\ x # w /\ p # c /\ w # c /\ w # t.root /\ p # nil /\ w # nil
           /\ t.parent[w] = p /\ w \in U[t.root]
           /\ H \in [Nodes -> Nat] /\ H[nil] = 0
           /\ H[w] = H[x] + 1 /\ H[p] = Black(t, p) + H[w]
           /\ \A n \in Keys : n # p => \A a \in Sides : H[n] = Black(t, n) + H[t.kid[a][n]]
<1>1. /\ Good(t, U) /\ t \in Tree /\ p \in U[t.root] /\ p \in Keys /\ s \in Sides
      /\ Other(s) \in Sides /\ Other(s) # s /\ p \in Nodes /\ nil \notin Keys /\ p # nil
      /\ t.kid[s][p] = x /\ w # x /\ x \in Nodes
  BY GoodFacts, Hangs, SideFacts, KeyFacts DEF Short
<1>2. w \in Nodes /\ x # p
  BY <1>1, Around, TreeFacts
<1>3. H \in [Nodes -> Nat] /\ H[nil] = 0
  BY DEF Short, Heights
<1>4. ASSUME NEW n \in Keys, n # p, NEW a \in Sides PROVE H[n] = Black(t, n) + H[t.kid[a][n]]
  <2>1. H[n] = Black(t, n) + H[t.kid[a][n]] + More(x, p, t.kid[a][n], n)
    BY DEF Short, Heights
  <2>2. More(x, p, t.kid[a][n], n) = 0
    BY <1>4 DEF More
  <2>3. Black(t, n) \in Nat /\ H[t.kid[a][n]] \in Nat
    BY <1>1, <1>3, TreeFacts, KeyFacts DEF Black
  <2> QED BY <2>1, <2>2, <2>3
<1>5. H[p] = Black(t, p) + H[x] + 1 /\ H[p] = Black(t, p) + H[w] /\ Black(t, p) \in Nat
  <2>1. /\ H[p] = Black(t, p) + H[x] + More(x, p, x, p)
        /\ H[p] = Black(t, p) + H[w] + More(x, p, w, p)
    BY <1>1 DEF Short, Heights
  <2>2. More(x, p, x, p) = 1 /\ More(x, p, w, p) = 0
    BY <1>1 DEF More
  <2>3. Black(t, p) \in Nat /\ H[w] \in Nat
    BY <1>2, <1>3 DEF Black
  <2> QED BY <2>1, <2>2, <2>3
<1>6. H[w] = H[x] + 1
  BY <1>1, <1>2, <1>3, <1>5
<1>7. w # nil
  BY <1>1, <1>2, <1>3, <1>6
<1>8. Turned(t, U, p, s, w, c)
  BY <1>1, <1>7 DEF Turned
<1>9. /\ w \in Keys /\ c \in Nodes /\ p # w /\ p # c /\ w # c /\ w \in U[t.root]
      /\ t.parent[w] = p /\ w # t.root
  BY <1>1, <1>8, TurnedFacts
<1> QED BY <1>1, <1>2, <1>3, <1>4, <1>5, <1>6, <1>7, <1>8, <1>9

LEMMA SiblingTurned ==
    ASSUME NEW t, NEW U, NEW H, NEW x, NEW p, NEW s, Short(t, U, H, x, p, s),
           NEW w, w = t.kid[Other(s)][p], t.color[w] = "RED",
           NEW r, r = Rotate(Paint(t, w, "BLACK", p, "RED"), p, s)
    PROVE  \E V, G : /\ V[r.root] = U[t.root] /\ Short(r, V, G, x, p, s)
                     /\ r.color[r.kid[Other(s)][p]] = "BLACK"
<1> DEFINE o == Other(s)
           c == t.kid[s][w]
           b == t.kid[o][w]
           G == [H EXCEPT ![p] = H[w], ![w] = H[w] + 1]
<1>1. /\ Good(t, U) /\ t \in Tree /\ Turned(t, U, p, s, w, c)
      /\ p \in Keys /\ w \in Keys /\ c \in Nodes /\ s \in Sides /\ o \in Sides
      /\ o # s /\ p \in Nodes /\ w \in Nodes /\ nil \notin Keys
      /\ p # w /\ x # p /\ x # w /\ p # c /\ w # c /\ w # t.root /\ p # nil /\ w # nil
      /\ w \in U[t.root]
      /\ H \in [Nodes -> Nat] /\ H[nil] = 0
      /\ H[w] = H[x] + 1 /\ H[p] = Black(t, p) + H[w]
      /\ \A n \in Keys : n # p => \A a \in Sides : H[n] = Black(t, n) + H[t.kid[a][n]]
  BY Sibling
<1>2. /\ x \in Nodes /\ t.kid[s][p] = x /\ t.kid[o][p] = w /\ t.parent[x] = p /\ p \in U[t.root]
      /\ t.color[x] = "BLACK" /\ t.color[nil] = "BLACK" /\ t.color[t.root] = "BLACK"
      /\ \A n \in Keys : Calm(t, {}, n)
  BY DEF Short, AllCalm
<1> HIDE DEF o, c, b, G
<1>3. PICK q : q = Paint(t, w, "BLACK", p, "RED")
  OBVIOUS
<1>4. /\ SameLinks(t, q)
      /\ \A n \in Nodes : q.color[n] = IF n = p THEN "RED" ELSE IF n = w THEN "BLACK" ELSE t.color[n]
  <2>1. t \in Tree /\ w \in Nodes /\ p \in Nodes /\ "RED" \in {"RED", "BLACK"} /\ "BLACK" \in {"RED", "BLACK"}
    BY <1>1
  <2> QED BY <1>3, <2>1, TwoColors
<1>5. Relinked(t, r, p, s, w, c) /\ r.color = q.color /\ \E V : Good(r, V) /\ V[r.root] = U[t.root]
  <2>1. Good(t, U) /\ Turned(t, U, p, s, w, c) /\ r = Rotate(q, p, s)
    BY <1>1, <1>3
  <2> QED BY <1>4, <2>1, RecolorRotate
<1>6. PICK V : Good(r, V) /\ V[r.root] = U[t.root]
  BY <1>5
<1>7. /\ r.kid[o][p] = c /\ r.kid[s][p] = x /\ r.kid[s][w] = p /\ r.kid[o][w] = b
      /\ \A a \in Sides : b # nil => r.kid[a][b] = t.kid[a][b]
      /\ b \in Nodes /\ b # p /\ b # w
  <2>1. Good(t, U) /\ Turned(t, U, p, s, w, c) /\ b = t.kid[Other(s)][w] /\ x = t.kid[s][p]
    BY <1>1, <1>2 DEF b, o
  <2> QED BY <1>5, <2>1, NewKids DEF o
<1>8. \A n \in Nodes : r.color[n] = IF n = p THEN "RED" ELSE IF n = w THEN "BLACK" ELSE t.color[n]
  BY <1>4, <1>5
<1>9. t.color[p] = "BLACK" /\ Black(t, p) = 1
  <2>1. t.color[p] # "RED"
    BY <1>1, <1>2 DEF Calm
  <2>2. t.color[p] = "BLACK"
    BY <1>1, <2>1, TreeFacts
  <2> QED BY <2>2 DEF Black
<1>10. t.color[c] = "BLACK" /\ t.color[b] = "BLACK"
  <2>1. \A a \in Sides : t.color[t.kid[a][w]] = "BLACK"
    BY <1>1, <1>2 DEF Calm
  <2> QED BY <1>1, <2>1 DEF c, b
<1>11. /\ H[w] \in Nat /\ H[x] \in Nat /\ H[c] \in Nat /\ H[b] \in Nat
       /\ H[p] = 1 + H[w] /\ H[w] = H[c] /\ H[w] = H[b]
  <2>1. H[w] \in Nat /\ H[x] \in Nat /\ H[c] \in Nat /\ H[b] \in Nat
    BY <1>1, <1>2, <1>7
  <2>2. Black(t, w) = 0
    BY DEF Black
  <2>3. H[w] = Black(t, w) + H[c] /\ H[w] = Black(t, w) + H[b]
    BY <1>1 DEF c, b
  <2> QED BY <1>1, <1>9, <2>1, <2>2, <2>3
<1>12. c # x
  <2>1. H[w] = H[x] + 1 /\ H[w] = H[c] /\ H[x] \in Nat
    BY <1>1, <1>11
  <2>2. H[x] # H[c]
    BY <2>1
  <2> QED BY <2>2
<1>13. /\ G \in [Nodes -> Nat] /\ G[p] = H[w] /\ G[w] = H[w] + 1
       /\ \A n \in Nodes : n # p /\ n # w => G[n] = H[n]
  BY <1>1, <1>11 DEF G
<1>14. ASSUME NEW n, n # p, NEW m PROVE More(x, p, m, n) = 0
  BY <1>14 DEF More
<1>15. Weighs(r, G, x, p, p)
  <2>1. Black(r, p) = 0
    BY <1>1, <1>8 DEF Black
  <2>2. More(x, p, x, p) = 1 /\ More(x, p, c, p) = 0
    BY <1>12 DEF More
  <2>3. G[c] = H[w] /\ G[x] + 1 = H[w] /\ G[p] = H[w]
    BY <1>1, <1>2, <1>11, <1>13
  <2>4. \A a \in Sides : r.kid[a][p] = c \/ r.kid[a][p] = x
    BY <1>1, <1>7, SideFacts DEF o
  <2>5. G[c] \in Nat /\ G[x] \in Nat
    BY <1>1, <1>2, <1>13
  <2>6. 0 + G[c] + 0 = H[w] /\ 0 + G[x] + 1 = H[w]
    BY <2>3, <2>5
  <2> QED BY <2>1, <2>2, <2>3, <2>4, <2>6 DEF Weighs
<1>16. Weighs(r, G, x, p, w)
  <2>1. Black(r, w) = 1
    BY <1>1, <1>8 DEF Black
  <2>2. G[b] = H[w] /\ G[p] = H[w]
    BY <1>7, <1>11, <1>13
  <2>3. \A a \in Sides : r.kid[a][w] = p \/ r.kid[a][w] = b
    BY <1>1, <1>7, SideFacts DEF o
  <2>4. ASSUME NEW a \in Sides PROVE G[w] = Black(r, w) + G[r.kid[a][w]] + More(x, p, r.kid[a][w], w)
    <3>1. G[r.kid[a][w]] = H[w] /\ More(x, p, r.kid[a][w], w) = 0
      BY <1>1, <1>14, <2>2, <2>3
    <3>2. G[w] = H[w] + 1 /\ H[w] \in Nat
      BY <1>11, <1>13
    <3>3. 1 + H[w] + 0 = H[w] + 1
      BY <3>2
    <3> QED BY <2>1, <3>1, <3>2, <3>3
  <2> QED BY <2>4 DEF Weighs
<1>17. ASSUME b # nil PROVE Weighs(r, G, x, p, b)
  <2>1. b \in Keys
    BY <1>7, <1>17, KeyFacts
  <2>2. Black(r, b) = Black(t, b)
    BY <1>7, <1>8 DEF Black
  <2>3. ASSUME NEW a \in Sides PROVE G[r.kid[a][b]] = H[t.kid[a][b]] /\ H[t.kid[a][b]] \in Nat
    <3>1. t.kid[a][b] \in Nodes
      BY <1>1, <1>7, TreeFacts
    <3>2. t.kid[a][b] # p /\ t.kid[a][b] # w
      <4>1. U[t.kid[a][b]] \subseteq U[b] /\ U[b] \subseteq U[w] /\ p \in U[p] /\ w \in U[w] /\ w \notin U[b]
        <5>1. U[t.kid[a][b]] \subseteq U[b]
          BY <1>1, <2>1, Around
        <5>2. U[b] \subseteq U[w] /\ w \in U[w] /\ w \notin U[b]
          BY <1>1, Around DEF b
        <5>3. p \in U[p]
          BY <1>1, Around
        <5> QED BY <5>1, <5>2, <5>3
      <4>2. p \notin U[w]
        BY <1>1, <1>2, Around
      <4> QED BY <4>1, <4>2
    <3> QED BY <1>1, <1>7, <1>13, <1>17, <3>1, <3>2
  <2>4. \A a \in Sides : H[b] = Black(t, b) + H[t.kid[a][b]]
    BY <1>1, <1>7, <2>1
  <2>5. Black(t, b) \in Nat /\ G[b] = H[b]
    BY <1>7, <1>13 DEF Black
  <2> QED BY <1>7, <1>14, <2>2, <2>3, <2>4, <2>5 DEF Weighs
<1>18. Heights(r, G, x, p)
  <2>1. \A n \in Keys \ {p, w, b} : r.color[n] = t.color[n] /\ G[n] = H[n]
    BY <1>8, <1>13, KeyFacts
  <2>2. \A n \in Keys \ {p, w, b} : \A a \in Sides : More(x, p, r.kid[a][n], n) = More(x, p, t.kid[a][n], n)
    BY <1>14
  <2>3. G[nil] = 0 /\ b = t.kid[Other(s)][w] /\ Heights(t, H, x, p) /\ G[w] = H[p]
    BY <1>1, <1>11, <1>13, KeyFacts DEF b, o, Short
  <2>4. Good(t, U) /\ Turned(t, U, p, s, w, c) /\ G \in [Nodes -> Nat]
    BY <1>1, <1>13
  <2> QED BY <1>5, <1>15, <1>16, <1>17, <2>1, <2>2, <2>3, <2>4, RotateHeights
<1>19. AllCalm(r, {})
  <2>1. Calm(r, {}, p)
    <3>1. r.color[c] = "BLACK" /\ r.color[x] = "BLACK"
      BY <1>1, <1>2, <1>8, <1>10
    <3> QED BY <1>1, <1>7, <3>1, SideFacts DEF Calm, o
  <2>2. Calm(r, {}, w)
    BY <1>1, <1>8 DEF Calm
  <2>3. Calm(r, {}, b)
    BY <1>7, <1>8, <1>10 DEF Calm
  <2>4. \A n \in Keys \ {p, w, b} : r.color[n] = t.color[n] /\ Calm(t, {}, n)
    BY <1>2, <1>8, KeyFacts
  <2>5. r.color[nil] = "BLACK" /\ r.color[w] \in {"BLACK", t.color[p]} /\ b = t.kid[Other(s)][w]
    BY <1>1, <1>2, <1>8, KeyFacts DEF b, o
  <2>6. Good(t, U) /\ Turned(t, U, p, s, w, c)
    BY <1>1
  <2> QED BY <1>5, <2>1, <2>2, <2>3, <2>4, <2>5, <2>6, RotateCalm
<1>20. r.color[r.root] = "BLACK" /\ r.color[nil] = "BLACK" /\ r.color[x] = "BLACK" /\ r.color[c] = "BLACK"
  <2>1. r.root = (IF t.root = p THEN w ELSE t.root) /\ t.root \in Nodes
    BY <1>1, <1>5, TreeFacts DEF Relinked
  <2> QED BY <1>1, <1>2, <1>8, <1>10, <2>1, KeyFacts
<1>21. r.parent[x] = p
  BY <1>1, <1>2, <1>5, <1>12 DEF Relinked
<1>22. Short(r, V, G, x, p, s)
  BY <1>1, <1>2, <1>6, <1>7, <1>12, <1>18, <1>19, <1>20, <1>21 DEF Short, o
<1> QED BY <1>6, <1>7, <1>20, <1>22 DEF o

LEMMA SiblingBlack ==
    ASSUME NEW t, NEW U, NEW H, NEW x, NEW p, NEW s, Short(t, U, H, x, p, s),
           NEW r, r = BlackSibling(t, p, s)
    PROVE  \E V, G : /\ V[r.root] = U[t.root] /\ Short(r, V, G, x, p, s)
                     /\ r.color[r.kid[Other(s)][p]] = "BLACK"
<1>1. PICK w : w = t.kid[Other(s)][p]
  OBVIOUS
<1>2. CASE t.color[w] = "BLACK"
  BY <1>1, <1>2 DEF BlackSibling
<1>3. CASE t.color[w] # "BLACK"
  <2>1. w \in Nodes /\ t \in Tree
    BY <1>1, Sibling
  <2>2. t.color[w] = "RED"
    BY <1>3, <2>1, TreeFacts
  <2>3. r = Rotate(Paint(t, w, "BLACK", p, "RED"), p, s)
    BY <1>1, <1>3 DEF BlackSibling, Paint
  <2> QED BY <1>1, <2>2, <2>3, SiblingTurned
<1> QED BY <1>2, <1>3

\* A black sibling with black children becomes red: p is short now.
LEMMA SiblingReddened ==
    ASSUME NEW t, NEW U, NEW H, NEW x, NEW p, NEW s, Short(t, U, H, x, p, s),
           NEW w, w = t.kid[Other(s)][p], t.color[w] = "BLACK",
           \A a \in Sides : t.color[t.kid[a][w]] = "BLACK",
           NEW r, r = [t EXCEPT !.color[w] = "RED"]
    PROVE  r.root = t.root /\ p \in Nodes /\ \E G : Falling(r, U, G, p)
<1> DEFINE o == Other(s)
           q == t.parent[p]
           G == [H EXCEPT ![w] = H[w] - 1, ![p] = H[p] - 1]
<1>1. /\ Good(t, U) /\ t \in Tree
      /\ p \in Keys /\ w \in Keys /\ s \in Sides /\ o \in Sides
      /\ o # s /\ p \in Nodes /\ w \in Nodes /\ nil \notin Keys
      /\ p # w /\ x # p /\ x # w /\ w # t.root /\ p # nil /\ w # nil
      /\ t.parent[w] = p /\ w \in U[t.root]
      /\ H \in [Nodes -> Nat] /\ H[nil] = 0
      /\ H[w] = H[x] + 1 /\ H[p] = Black(t, p) + H[w]
      /\ \A n \in Keys : n # p => \A a \in Sides : H[n] = Black(t, n) + H[t.kid[a][n]]
  BY Sibling
<1>2. /\ x \in Nodes /\ t.kid[s][p] = x /\ t.kid[o][p] = w /\ p \in U[t.root]
      /\ t.color[x] = "BLACK" /\ t.color[nil] = "BLACK" /\ t.color[t.root] = "BLACK"
      /\ \A n \in Keys : Calm(t, {}, n)
  BY DEF Short, AllCalm
<1>3. /\ SameLinks(t, r)
      /\ \A n \in Nodes : r.color[n] = IF n = w THEN "RED" ELSE t.color[n]
  <2>1. SameLinks(t, r)
    BY <1>1 DEF SameLinks, Tree
  <2>2. r.color = [t.color EXCEPT ![w] = "RED"] /\ t.color \in [Nodes -> {"RED", "BLACK"}]
    BY <1>1 DEF Tree
  <2> QED BY <1>1, <2>1, <2>2
<1>4. Good(r, U) /\ r.root = t.root /\ r.kid = t.kid /\ r.parent = t.parent /\ t.root \in Nodes
  BY <1>1, <1>3, RecolorGood, TreeFacts DEF SameLinks
<1>5. H[w] \in Nat /\ H[p] \in Nat /\ H[x] \in Nat /\ Black(t, p) \in Nat
  BY <1>1, <1>2 DEF Black
<1>6. H[w] - 1 = H[x] /\ H[p] - 1 = Black(t, p) + H[x] /\ H[p] - 1 \in Nat /\ H[w] - 1 \in Nat
  BY <1>1, <1>5
<1>7. /\ G \in [Nodes -> Nat] /\ G[w] = H[x] /\ G[p] = Black(t, p) + H[x] /\ G[p] + 1 = H[p]
      /\ \A n \in Nodes : n # p /\ n # w => G[n] = H[n]
  <2>1. /\ G \in [Nodes -> Nat] /\ G[w] = H[w] - 1 /\ G[p] = H[p] - 1
        /\ \A n \in Nodes : n # p /\ n # w => G[n] = H[n]
    BY <1>1, <1>6
  <2> HIDE DEF G
  <2> QED BY <1>5, <1>6, <2>1
<1>8. \A n \in Keys : \A a \in Sides : /\ n # p => t.kid[a][n] # w
                                       /\ t.kid[a][n] = p => n = q /\ n # p
                                       /\ t.kid[a][n] \in Nodes /\ n \in Nodes
  <2>1. ASSUME NEW n \in Keys, NEW a \in Sides PROVE t.kid[a][n] \in Nodes /\ n \in Nodes
    BY <1>1, TreeFacts, KeyFacts
  <2>2. ASSUME NEW n \in Keys, NEW a \in Sides, n # p PROVE t.kid[a][n] # w
    BY <1>1, <2>1, <2>2, KidsInTree
  <2>3. ASSUME NEW n \in Keys, NEW a \in Sides, t.kid[a][n] = p PROVE n = q /\ n # p
    <3>1. t.kid[a][n] # nil /\ n \in Nodes
      BY <1>1, <2>1, <2>3
    <3>2. t.parent[t.kid[a][n]] = n
      BY <1>1, <3>1, KidsInTree
    <3>3. t.kid[a][n] # n
      BY <1>1, Around
    <3> QED BY <2>3, <3>2, <3>3
  <2> QED BY <2>1, <2>2, <2>3
<1> HIDE DEF o, q, G
<1>9. ASSUME NEW n \in Keys, NEW a \in Sides
      PROVE  G[n] = Black(r, n) + G[r.kid[a][n]] + More(p, q, r.kid[a][n], n)
  <2>1. r.kid[a][n] = t.kid[a][n] /\ t.kid[a][n] \in Nodes /\ n \in Nodes
    BY <1>4, <1>8
  <2>2. CASE n = p
    <3>1. t.kid[a][n] = x \/ t.kid[a][n] = w
      BY <1>1, <1>2, <2>2, SideFacts DEF o
    <3>2. G[t.kid[a][n]] = H[x]
      BY <1>1, <1>2, <1>7, <3>1
    <3>3. More(p, q, t.kid[a][n], n) = 0
      BY <1>1, <3>1 DEF More
    <3>4. Black(r, n) = Black(t, p)
      BY <1>1, <1>3, <2>2 DEF Black
    <3>5. Black(t, p) + H[x] = Black(t, p) + H[x] + 0
      BY <1>5
    <3> QED BY <1>7, <2>1, <2>2, <3>2, <3>3, <3>4, <3>5
  <2>3. CASE n = w
    <3>1. t.kid[a][n] # p /\ t.kid[a][n] # w
      BY <1>1, <2>3, Around
    <3>2. H[n] = Black(t, n) + H[t.kid[a][n]] /\ Black(t, n) = 1 /\ Black(r, n) = 0
      BY <1>1, <1>3, <2>3 DEF Black
    <3>3. More(p, q, t.kid[a][n], n) = 0 /\ G[t.kid[a][n]] = H[t.kid[a][n]] /\ G[n] = H[x]
      BY <1>7, <2>1, <2>3, <3>1 DEF More
    <3>4. H[t.kid[a][n]] \in Nat /\ H[n] = H[x] + 1
      BY <1>1, <2>1, <2>3
    <3>5. H[x] = 0 + H[t.kid[a][n]] + 0
      BY <1>5, <3>2, <3>4
    <3> QED BY <2>1, <3>2, <3>3, <3>5
  <2>4. CASE n # p /\ n # w
    <3>1. t.kid[a][n] # w /\ H[n] = Black(t, n) + H[t.kid[a][n]]
      BY <1>1, <1>8, <2>4
    <3>2. Black(r, n) = Black(t, n) /\ G[n] = H[n]
      BY <1>3, <1>7, <2>1, <2>4 DEF Black
    <3>3. Black(t, n) \in Nat /\ H[t.kid[a][n]] \in Nat
      BY <1>1, <2>1 DEF Black
    <3>4. CASE t.kid[a][n] = p
      <4>1. More(p, q, t.kid[a][n], n) = 1
        BY <1>8, <3>4 DEF More
      <4>2. H[t.kid[a][n]] = G[t.kid[a][n]] + 1 /\ G[t.kid[a][n]] \in Nat
        BY <1>7, <2>1, <3>4
      <4>3. Black(t, n) + H[t.kid[a][n]] = Black(t, n) + G[t.kid[a][n]] + 1
        BY <3>3, <4>2
      <4> QED BY <2>1, <3>1, <3>2, <4>1, <4>3
    <3>5. CASE t.kid[a][n] # p
      <4>1. More(p, q, t.kid[a][n], n) = 0 /\ G[t.kid[a][n]] = H[t.kid[a][n]]
        BY <1>7, <2>1, <3>1, <3>5 DEF More
      <4>2. Black(t, n) + H[t.kid[a][n]] = Black(t, n) + H[t.kid[a][n]] + 0
        BY <3>3
      <4> QED BY <2>1, <3>1, <3>2, <4>1, <4>2
    <3> QED BY <3>4, <3>5
  <2> QED BY <2>2, <2>3, <2>4
<1>10. Heights(r, G, p, r.parent[p])
  <2>1. G[nil] = 0
    BY <1>1, <1>7, KeyFacts
  <2>2. Heights(r, G, p, q)
    BY <1>7, <1>9, <2>1 DEF Heights
  <2> QED BY <1>4, <2>2 DEF q
<1>11. Reds(r, {p})
  <2>1. r.color[nil] = "BLACK" /\ r.color[r.root] = "BLACK"
    BY <1>1, <1>2, <1>3, <1>4, KeyFacts
  <2>2. ASSUME NEW n \in Keys, NEW a \in Sides, r.color[n] = "RED", n \notin {p}, r.kid[a][n] \notin {p}
        PROVE  r.color[r.kid[a][n]] = "BLACK"
    <3>1. t.kid[a][n] # w /\ n \in Nodes /\ t.kid[a][n] \in Nodes
      BY <1>8, <2>2
    <3>2. t.color[t.kid[a][n]] = "BLACK"
      <4>1. CASE n = w
        BY <4>1
      <4>2. CASE n # w
        <5>1. t.color[n] = "RED"
          BY <1>3, <2>2, <3>1, <4>2
        <5> QED BY <1>2, <5>1 DEF Calm
      <4> QED BY <4>1, <4>2
    <3> QED BY <1>3, <1>4, <3>1, <3>2
  <2> QED BY <2>1, <2>2 DEF Reds
<1>12. Deleting(r, U, p)
  <2>1. CASE p = t.root
    <3>1. t.parent[p] = nil
      BY <1>1, <1>2, <2>1, Hangs
    <3> QED BY <1>4, <2>1, <3>1 DEF Deleting
  <2>2. CASE p # t.root
    <3>1. t.parent[p] \in U[t.root] /\ t.parent[p] \in Keys /\ SideOf(t, p) \in Sides
          /\ t.kid[SideOf(t, p)][t.parent[p]] = p
      BY <1>1, <1>2, <2>2, Hangs
    <3>2. t.kid[Other(SideOf(t, p))][t.parent[p]] # p
      BY <1>1, <3>1, Around
    <3> QED BY <1>4, <2>2, <3>1, <3>2 DEF Deleting
  <2> QED BY <2>1, <2>2
<1> QED BY <1>1, <1>4, <1>10, <1>11, <1>12 DEF Falling

\* The end of the deletion: the node the loop is at becomes black.
LEMMA LastBlackened ==
    ASSUME NEW t, NEW U, NEW H, NEW x \in Nodes, Falling(t, U, H, x), x = t.root \/ t.color[x] = "RED",
           NEW r, r = [t EXCEPT !.color[x] = "BLACK"]
    PROVE  r.root = t.root /\ \E G : Sound(r, U, G)
<1>1. Good(t, U) /\ Heights(t, H, x, t.parent[x]) /\ Reds(t, {x}) /\ Deleting(t, U, x) /\ t \in Tree
  BY GoodFacts DEF Falling
<1>2. /\ SameLinks(t, r)
      /\ \A n \in Nodes : r.color[n] = IF n = x THEN "BLACK" ELSE t.color[n]
  <2>1. SameLinks(t, r)
    BY <1>1 DEF SameLinks, Tree
  <2>2. r.color = [t.color EXCEPT ![x] = "BLACK"] /\ t.color \in [Nodes -> {"RED", "BLACK"}]
    BY <1>1 DEF Tree
  <2> QED BY <1>1, <2>1, <2>2
<1>3. Good(r, U) /\ r.root = t.root /\ r.kid = t.kid /\ r.parent = t.parent /\ t.root \in Nodes
  BY <1>1, <1>2, RecolorGood, TreeFacts DEF SameLinks
<1>4. \A n \in Keys : \A a \in Sides : t.kid[a][n] \in Nodes /\ n \in Nodes
  BY <1>1, TreeFacts, KeyFacts
<1>5. H \in [Nodes -> Nat] /\ H[nil] = 0 /\ t.color[nil] = "BLACK" /\ nil \in Nodes
  BY <1>1, KeyFacts DEF Heights, Reds
<1>6. Reds(r, {})
  <2>1. r.color[nil] = "BLACK" /\ r.color[r.root] = "BLACK"
    BY <1>1, <1>2, <1>3, <1>5 DEF Reds
  <2>2. ASSUME NEW n \in Keys, NEW a \in Sides, r.color[n] = "RED" PROVE r.color[r.kid[a][n]] = "BLACK"
    <3>1. n # x /\ t.color[n] = "RED" /\ t.kid[a][n] \in Nodes
      BY <1>2, <1>4, <2>2
    <3>2. t.kid[a][n] # x => t.color[t.kid[a][n]] = "BLACK"
      BY <1>1, <3>1 DEF Reds
    <3> QED BY <1>2, <1>3, <3>1, <3>2
  <2> QED BY <2>1, <2>2 DEF Reds
<1>7. CASE t.color[x] = "RED"
  <2> DEFINE G == [H EXCEPT ![x] = H[x] + 1]
  <2>1. x \in Keys /\ x # nil
    BY <1>5, <1>7, KeyFacts
  <2>2. G \in [Nodes -> Nat] /\ G[x] = H[x] + 1 /\ \A n \in Nodes : n # x => G[n] = H[n]
    BY <1>5
  <2> HIDE DEF G
  <2>3. ASSUME NEW n \in Keys, NEW a \in Sides PROVE G[n] = Black(r, n) + G[r.kid[a][n]]
    <3>1. n \in Nodes /\ t.kid[a][n] \in Nodes /\ r.kid[a][n] = t.kid[a][n]
      BY <1>3, <1>4
    <3>2. H[n] = Black(t, n) + H[t.kid[a][n]] + More(x, t.parent[x], t.kid[a][n], n)
      BY <1>1 DEF Heights
    <3>3. Black(t, n) \in Nat /\ H[t.kid[a][n]] \in Nat
      BY <1>5, <3>1 DEF Black
    <3>4. CASE n = x
      <4>1. t.kid[a][n] # x
        BY <1>1, <3>4, Around
      <4>2. Black(t, n) = 0 /\ Black(r, n) = 1 /\ G[t.kid[a][n]] = H[t.kid[a][n]]
        BY <1>2, <1>7, <2>2, <3>1, <3>4, <4>1 DEF Black
      <4>3. More(x, t.parent[x], t.kid[a][n], n) = 0
        BY <4>1 DEF More
      <4>4. H[x] + 1 = 1 + H[t.kid[a][n]]
        BY <3>2, <3>3, <3>4, <4>2, <4>3
      <4> QED BY <2>2, <3>1, <3>4, <4>2, <4>4
    <3>5. CASE n # x
      <4>1. Black(r, n) = Black(t, n) /\ G[n] = H[n]
        BY <1>2, <2>2, <3>1, <3>5 DEF Black
      <4>2. CASE t.kid[a][n] = x
        <5>1. t.parent[x] = n
          BY <1>1, <2>1, <3>1, <4>2, KidsInTree
        <5>2. More(x, t.parent[x], t.kid[a][n], n) = 1
          BY <4>2, <5>1 DEF More
        <5>3. Black(t, n) + H[x] + 1 = Black(t, n) + (H[x] + 1)
          BY <3>3, <4>2
        <5> QED BY <2>2, <3>1, <3>2, <4>1, <4>2, <5>2, <5>3
      <4>3. CASE t.kid[a][n] # x
        <5>1. More(x, t.parent[x], t.kid[a][n], n) = 0 /\ G[t.kid[a][n]] = H[t.kid[a][n]]
          BY <2>2, <3>1, <4>3 DEF More
        <5>2. Black(t, n) + H[t.kid[a][n]] + 0 = Black(t, n) + H[t.kid[a][n]]
          BY <3>3
        <5> QED BY <3>1, <3>2, <4>1, <5>1, <5>2
      <4> QED BY <4>2, <4>3
    <3> QED BY <3>4, <3>5
  <2>4. Level(r, G)
    BY <1>5, <2>1, <2>2, <2>3 DEF Level
  <2> QED BY <1>3, <1>6, <2>4 DEF Sound
<1>8. CASE t.color[x] # "RED"
  <2>1. x = t.root /\ t.parent[x] = nil /\ t.color[x] = "BLACK"
    BY <1>1, <1>8, TreeFacts DEF Deleting
  <2>2. Level(t, H)
    BY <1>1, <2>1, HeightsLevel
  <2>3. \A n \in Nodes : Black(r, n) = Black(t, n)
    BY <1>2, <2>1 DEF Black
  <2>4. Level(r, H)
    BY <1>3, <1>4, <2>2, <2>3 DEF Level
  <2> QED BY <1>3, <1>6, <2>4 DEF Sound
<1> QED BY <1>7, <1>8

\* An inner red child of a black sibling becomes the sibling, with a red outer child.
Kinked(t, U, H, x, p, s, w, c) ==
    /\ Short(t, U, H, x, p, s) /\ w = t.kid[Other(s)][p] /\ t.color[w] = "BLACK"
    /\ c = t.kid[s][w] /\ t.color[c] = "RED" /\ t.color[t.kid[Other(s)][w]] = "BLACK"

LEMMA SiblingTurnedOut ==
    ASSUME NEW t, NEW U, NEW H, NEW x, NEW p, NEW s, NEW w, NEW c, Kinked(t, U, H, x, p, s, w, c),
           NEW r, r = Rotate(Paint(t, c, "BLACK", w, "RED"), w, Other(s))
    PROVE  \E V, G : /\ V[r.root] = U[t.root] /\ Short(r, V, G, x, p, s)
                     /\ r.kid[Other(s)][p] = c /\ r.color[c] = "BLACK"
                     /\ r.kid[Other(s)][c] = w /\ r.color[w] = "RED"
<1> DEFINE o == Other(s)
           e == t.kid[o][c]
           b == t.kid[s][c]
           d == t.kid[o][w]
           G == [H EXCEPT ![w] = H[w] - 1, ![c] = H[w]]
<1>0. /\ Short(t, U, H, x, p, s) /\ w = t.kid[o][p] /\ t.color[w] = "BLACK"
      /\ c = t.kid[s][w] /\ t.color[c] = "RED" /\ t.color[t.kid[o][w]] = "BLACK"
  BY DEF Kinked
<1>1. /\ Good(t, U) /\ t \in Tree
      /\ p \in Keys /\ w \in Keys /\ c \in Nodes /\ s \in Sides /\ o \in Sides
      /\ o # s /\ p \in Nodes /\ w \in Nodes /\ nil \notin Keys
      /\ p # w /\ x # p /\ x # w /\ p # c /\ w # c /\ w # t.root /\ p # nil /\ w # nil
      /\ w \in U[t.root] /\ t.parent[w] = p
      /\ H \in [Nodes -> Nat] /\ H[nil] = 0
      /\ H[w] = H[x] + 1 /\ H[p] = Black(t, p) + H[w]
      /\ \A n \in Keys : n # p => \A a \in Sides : H[n] = Black(t, n) + H[t.kid[a][n]]
  BY <1>0, Sibling
<1>2. /\ x \in Nodes /\ t.kid[s][p] = x /\ t.kid[o][p] = w /\ t.parent[x] = p /\ p \in U[t.root]
      /\ t.color[x] = "BLACK" /\ t.color[nil] = "BLACK" /\ t.color[t.root] = "BLACK"
      /\ t.color[d] = "BLACK"
      /\ \A n \in Keys : Calm(t, {}, n)
  BY <1>0 DEF Short, AllCalm
<1>3. /\ Other(o) = s /\ c # nil /\ c \in Keys /\ c # x /\ t.kid[s][w] = c
      /\ t.color[c] = "RED" /\ t.color[w] = "BLACK"
  BY <1>0, <1>1, <1>2, SideFacts, KeyFacts
<1> HIDE DEF o, b, d, e, G
<1>4. Turned(t, U, w, o, c, e)
  BY <1>1, <1>3 DEF Turned, e
<1>5. PICK q : q = Paint(t, c, "BLACK", w, "RED")
  OBVIOUS
<1>6. /\ SameLinks(t, q)
      /\ \A n \in Nodes : q.color[n] = IF n = w THEN "RED" ELSE IF n = c THEN "BLACK" ELSE t.color[n]
  <2>1. t \in Tree /\ w \in Nodes /\ c \in Nodes /\ "RED" \in {"RED", "BLACK"} /\ "BLACK" \in {"RED", "BLACK"}
    BY <1>1
  <2> QED BY <1>5, <2>1, TwoColors
<1>7. Relinked(t, r, w, o, c, e) /\ r.color = q.color /\ \E V : Good(r, V) /\ V[r.root] = U[t.root]
  <2>1. Good(t, U) /\ r = Rotate(q, w, o)
    BY <1>1, <1>5 DEF o
  <2> QED BY <1>4, <1>6, <2>1, RecolorRotate
<1>8. PICK V : Good(r, V) /\ V[r.root] = U[t.root]
  BY <1>7
<1>9. /\ r.kid[s][w] = e /\ r.kid[o][w] = d /\ r.kid[o][c] = w /\ r.kid[s][c] = b
      /\ \A a \in Sides : b # nil => r.kid[a][b] = t.kid[a][b]
      /\ b \in Nodes /\ d \in Nodes /\ b # w /\ b # c /\ d # w /\ d # c
  <2>1. Good(t, U) /\ b = t.kid[Other(o)][c] /\ d = t.kid[o][w]
    BY <1>1, <1>3 DEF b, d
  <2>2. Other(o) = s
    BY <1>3
  <2> QED BY <1>4, <1>7, <2>1, <2>2, NewKids
<1>10. \A n \in Nodes : r.color[n] = IF n = w THEN "RED" ELSE IF n = c THEN "BLACK" ELSE t.color[n]
  BY <1>6, <1>7
<1>11. e \in Nodes /\ e # w /\ e # c
  BY <1>1, <1>4, TurnedFacts
\* p is above all of them.
<1>12. b # p /\ e # p /\ (\A a \in Sides : b # nil => t.kid[a][b] # w /\ t.kid[a][b] # c)
  <2>1. U[c] \subseteq U[w] /\ w \notin U[c] /\ p \notin U[w] /\ w \in U[w] /\ p \in U[p]
    <3>1. U[c] \subseteq U[w] /\ w \notin U[c] /\ w \in U[w]
      BY <1>1, <1>3, Around
    <3>2. p \notin U[w] /\ p \in U[p]
      BY <1>1, <1>2, Around
    <3> QED BY <3>1, <3>2
  <2>2. U[b] \subseteq U[c] /\ U[e] \subseteq U[c] /\ c \notin U[b] /\ c \in U[c]
    <3>1. U[b] \subseteq U[c] /\ c \notin U[b] /\ c \in U[c]
      BY <1>1, <1>3, Around DEF b
    <3>2. U[e] \subseteq U[c]
      BY <1>1, <1>3, Around DEF e
    <3> QED BY <3>1, <3>2
  <2>3. ASSUME NEW a \in Sides, b # nil PROVE U[t.kid[a][b]] \subseteq U[b]
    <3>1. b \in Keys
      BY <1>9, <2>3, KeyFacts
    <3> QED BY <1>1, <3>1, Around
  <2> QED BY <2>1, <2>2, <2>3
<1>13. t.color[e] = "BLACK" /\ t.color[b] = "BLACK"
  <2>1. \A a \in Sides : t.color[t.kid[a][c]] = "BLACK"
    BY <1>2, <1>3 DEF Calm
  <2> QED BY <1>1, <2>1 DEF e, b
<1>14. /\ H[w] \in Nat /\ H[c] \in Nat /\ H[e] \in Nat /\ H[b] \in Nat /\ H[d] \in Nat
       /\ H[w] = 1 + H[c] /\ H[w] = 1 + H[d] /\ H[c] = H[e] /\ H[c] = H[b]
  <2>1. H[w] \in Nat /\ H[c] \in Nat /\ H[e] \in Nat /\ H[b] \in Nat /\ H[d] \in Nat
    BY <1>1, <1>9, <1>11
  <2>2. Black(t, w) = 1 /\ Black(t, c) = 0
    BY <1>3 DEF Black
  <2>3. H[w] = Black(t, w) + H[c] /\ H[w] = Black(t, w) + H[d]
    BY <1>1, <1>3 DEF d
  <2>4. H[c] = Black(t, c) + H[e] /\ H[c] = Black(t, c) + H[b]
    BY <1>1, <1>3 DEF e, b
  <2> QED BY <2>1, <2>2, <2>3, <2>4
<1>15. /\ G \in [Nodes -> Nat] /\ G[w] = H[c] /\ G[c] = H[w]
       /\ \A n \in Nodes : n # w /\ n # c => G[n] = H[n]
  <2>1. H[w] - 1 = H[c]
    BY <1>14
  <2> QED BY <1>1, <1>14, <2>1 DEF G
<1>16. ASSUME NEW n, n # p, NEW m PROVE More(x, p, m, n) = 0
  BY <1>16 DEF More
<1>17. Weighs(r, G, x, p, w)
  <2>1. Black(r, w) = 0
    BY <1>1, <1>10 DEF Black
  <2>2. G[e] = H[c] /\ G[d] = H[c] /\ G[w] = H[c]
    <3>1. H[d] = H[c]
      BY <1>14
    <3> QED BY <1>9, <1>11, <1>14, <1>15, <3>1
  <2>3. \A a \in Sides : r.kid[a][w] = e \/ r.kid[a][w] = d
    BY <1>1, <1>9, SideFacts DEF o
  <2>4. H[c] = 0 + H[c] + 0
    BY <1>14
  <2>5. \A m : More(x, p, m, w) = 0
    BY <1>1, <1>16
  <2> QED BY <2>1, <2>2, <2>3, <2>4, <2>5 DEF Weighs
<1>18. Weighs(r, G, x, p, c)
  <2>1. Black(r, c) = 1
    BY <1>1, <1>10 DEF Black
  <2>2. G[b] = H[c] /\ G[w] = H[c] /\ G[c] = H[w]
    BY <1>9, <1>14, <1>15
  <2>3. \A a \in Sides : r.kid[a][c] = w \/ r.kid[a][c] = b
    BY <1>1, <1>9, SideFacts DEF o
  <2>4. H[w] = 1 + H[c] + 0
    BY <1>14
  <2>5. \A m : More(x, p, m, c) = 0
    BY <1>1, <1>16
  <2> QED BY <2>1, <2>2, <2>3, <2>4, <2>5 DEF Weighs
<1>19. ASSUME b # nil PROVE Weighs(r, G, x, p, b)
  <2>1. b \in Keys
    BY <1>9, <1>19, KeyFacts
  <2>2. Black(r, b) = Black(t, b) /\ Black(t, b) \in Nat /\ G[b] = H[b]
    BY <1>9, <1>10, <1>15 DEF Black
  <2>3. ASSUME NEW a \in Sides PROVE G[b] = Black(r, b) + G[r.kid[a][b]] + More(x, p, r.kid[a][b], b)
    <3>1. t.kid[a][b] \in Nodes /\ r.kid[a][b] = t.kid[a][b]
      BY <1>1, <1>9, <1>19, TreeFacts
    <3>2. G[t.kid[a][b]] = H[t.kid[a][b]] /\ H[t.kid[a][b]] \in Nat
      BY <1>1, <1>12, <1>15, <1>19, <3>1
    <3>3. H[b] = Black(t, b) + H[t.kid[a][b]]
      BY <1>1, <1>12, <2>1
    <3>4. Black(t, b) + H[t.kid[a][b]] = Black(t, b) + H[t.kid[a][b]] + 0
      BY <2>2, <3>2
    <3>5. More(x, p, r.kid[a][b], b) = 0
      BY <1>12, <1>16
    <3> QED BY <2>2, <3>1, <3>2, <3>3, <3>4, <3>5
  <2> QED BY <2>3 DEF Weighs
<1>20. r.kid[s][p] = x /\ r.kid[o][p] = c
  BY <1>1, <1>2, <1>7 DEF Relinked
<1>21. Heights(r, G, x, p)
  <2>1. \A n \in Keys \ {w, c, b} : r.color[n] = t.color[n] /\ G[n] = H[n]
    BY <1>10, <1>15, KeyFacts
  <2>2. ASSUME NEW n \in Keys \ {w, c, b}, NEW a \in Sides
        PROVE  More(x, p, r.kid[a][n], n) = More(x, p, t.kid[a][n], n)
    <3>1. CASE n # p
      BY <1>16, <3>1
    <3>2. CASE n = p
      <4>1. (r.kid[a][n] = x /\ t.kid[a][n] = x) \/ (r.kid[a][n] = c /\ t.kid[a][n] = w)
        BY <1>1, <1>2, <1>20, <3>2, SideFacts DEF o
      <4> QED BY <1>1, <1>3, <4>1 DEF More
    <3> QED BY <3>1, <3>2
  <2>3. G[nil] = 0 /\ b = t.kid[Other(o)][c] /\ Heights(t, H, x, p) /\ G[c] = H[w]
    BY <1>0, <1>1, <1>3, <1>15, KeyFacts DEF b, Short
  <2>4. Good(t, U) /\ G \in [Nodes -> Nat]
    BY <1>1, <1>15
  <2> QED BY <1>4, <1>7, <1>17, <1>18, <1>19, <2>1, <2>2, <2>3, <2>4, RotateHeights
<1>22. AllCalm(r, {})
  <2>1. Calm(r, {}, w)
    <3>1. r.color[e] = "BLACK" /\ r.color[d] = "BLACK"
      BY <1>2, <1>9, <1>10, <1>11, <1>13
    <3> QED BY <1>1, <1>9, <3>1, SideFacts DEF Calm, o
  <2>2. Calm(r, {}, c)
    BY <1>1, <1>10 DEF Calm
  <2>3. Calm(r, {}, b)
    BY <1>9, <1>10, <1>13 DEF Calm
  <2>4. \A n \in Keys \ {w, c, b} : r.color[n] = t.color[n] /\ Calm(t, {}, n)
    BY <1>2, <1>10, KeyFacts
  <2>5. r.color[nil] = "BLACK" /\ r.color[c] \in {"BLACK", t.color[w]} /\ b = t.kid[Other(o)][c]
    BY <1>1, <1>2, <1>3, <1>10, KeyFacts DEF b
  <2>6. Good(t, U)
    BY <1>1
  <2> QED BY <1>4, <1>7, <2>1, <2>2, <2>3, <2>4, <2>5, <2>6, RotateCalm
<1>23. /\ r.color[r.root] = "BLACK" /\ r.color[nil] = "BLACK" /\ r.color[x] = "BLACK"
       /\ r.color[c] = "BLACK" /\ r.color[w] = "RED"
  <2>1. r.root = t.root /\ t.root \in Nodes
    BY <1>1, <1>7, TreeFacts DEF Relinked
  <2> QED BY <1>1, <1>2, <1>3, <1>10, <2>1, KeyFacts
<1>24. r.parent[x] = p
  <2>1. e # nil => t.parent[e] = c
    BY <1>1, <1>3, KidsInTree DEF e
  <2>2. ~(x = e /\ e # nil)
    BY <1>1, <1>2, <2>1
  <2> QED BY <1>1, <1>2, <1>3, <1>7, <2>2 DEF Relinked
<1>25. Short(r, V, G, x, p, s)
  BY <1>1, <1>2, <1>3, <1>8, <1>20, <1>21, <1>22, <1>23, <1>24 DEF Short, o
<1> QED BY <1>8, <1>9, <1>20, <1>23, <1>25 DEF o

\* A black sibling with an outer red child takes the place of p and pays.
Payable(t, U, H, x, p, s, w, b) ==
    /\ Short(t, U, H, x, p, s) /\ w = t.kid[Other(s)][p] /\ t.color[w] = "BLACK"
    /\ b = t.kid[Other(s)][w] /\ t.color[b] = "RED"

LEMMA SiblingPays ==
    ASSUME NEW t, NEW U, NEW H, NEW x, NEW p, NEW s, NEW w, NEW b, Payable(t, U, H, x, p, s, w, b),
           NEW r, r = Rotate(Paints(t, w, t.color[p], p, "BLACK", b, "BLACK"), p, s)
    PROVE  \E V, G : V[r.root] = U[t.root] /\ Sound(r, V, G)
<1> DEFINE o == Other(s)
           c == t.kid[s][w]
           G == [H EXCEPT ![p] = H[x] + 1, ![w] = H[p], ![b] = H[b] + 1]
<1>0. /\ Short(t, U, H, x, p, s) /\ w = t.kid[o][p] /\ t.color[w] = "BLACK"
      /\ b = t.kid[o][w] /\ t.color[b] = "RED"
  BY DEF Payable
<1>1. /\ Good(t, U) /\ t \in Tree /\ Turned(t, U, p, s, w, c)
      /\ p \in Keys /\ w \in Keys /\ c \in Nodes /\ s \in Sides /\ o \in Sides
      /\ o # s /\ p \in Nodes /\ w \in Nodes /\ nil \notin Keys
      /\ p # w /\ x # p /\ x # w /\ p # c /\ w # c /\ w # t.root /\ p # nil /\ w # nil
      /\ w \in U[t.root] /\ t.parent[w] = p
      /\ H \in [Nodes -> Nat] /\ H[nil] = 0
      /\ H[w] = H[x] + 1 /\ H[p] = Black(t, p) + H[w]
      /\ \A n \in Keys : n # p => \A a \in Sides : H[n] = Black(t, n) + H[t.kid[a][n]]
  BY <1>0, Sibling
<1>2. /\ x \in Nodes /\ t.kid[s][p] = x /\ t.kid[o][p] = w /\ p \in U[t.root]
      /\ t.color[x] = "BLACK" /\ t.color[nil] = "BLACK" /\ t.color[t.root] = "BLACK"
      /\ t.color[p] \in {"RED", "BLACK"}
      /\ \A n \in Keys : Calm(t, {}, n)
  BY <1>0, <1>1, TreeFacts DEF Short, AllCalm
<1> HIDE DEF o, c, G
<1>3. b # nil /\ b = t.kid[Other(s)][w] /\ t.kid[o][w] = b /\ t.kid[s][w] = c
  BY <1>0, <1>2 DEF o, c
<1>4. PICK q : q = Paints(t, w, t.color[p], p, "BLACK", b, "BLACK")
  OBVIOUS
<1>5. b \in Nodes /\ b \in Keys
  <2>1. b \in Nodes
    BY <1>1, <1>3, TreeFacts
  <2> QED BY <1>3, <2>1, KeyFacts
<1>6. /\ SameLinks(t, q)
      /\ \A n \in Nodes : q.color[n] = IF n = b THEN "BLACK" ELSE IF n = p THEN "BLACK"
                                       ELSE IF n = w THEN t.color[p] ELSE t.color[n]
  <2>1. Hues(t, w, t.color[p], p, "BLACK", b, "BLACK")
    BY <1>1, <1>2, <1>5 DEF Hues
  <2> QED BY <1>4, <2>1, ThreeColors
<1>7. Relinked(t, r, p, s, w, c) /\ r.color = q.color /\ \E V : Good(r, V) /\ V[r.root] = U[t.root]
  <2>1. Good(t, U) /\ Turned(t, U, p, s, w, c) /\ r = Rotate(q, p, s)
    BY <1>1, <1>4
  <2> QED BY <1>6, <2>1, RecolorRotate
<1>8. PICK V : Good(r, V) /\ V[r.root] = U[t.root]
  BY <1>7
<1>9. /\ r.kid[o][p] = c /\ r.kid[s][p] = x /\ r.kid[s][w] = p /\ r.kid[o][w] = b
      /\ \A a \in Sides : r.kid[a][b] = t.kid[a][b]
      /\ b # p /\ b # w /\ b # x /\ b # c
  <2>1. Good(t, U) /\ Turned(t, U, p, s, w, c) /\ x = t.kid[s][p]
    BY <1>1, <1>2
  <2> QED BY <1>3, <1>7, <2>1, NewKids DEF o
<1>10. \A n \in Nodes : r.color[n] = IF n = b THEN "BLACK" ELSE IF n = p THEN "BLACK"
                                     ELSE IF n = w THEN t.color[p] ELSE t.color[n]
  BY <1>6, <1>7
<1>11. ASSUME NEW a \in Sides
       PROVE  t.kid[a][b] \in Nodes /\ t.kid[a][b] # p /\ t.kid[a][b] # w /\ t.kid[a][b] # b
  <2>1. U[b] \subseteq U[w] /\ w \notin U[b] /\ w \in U[w]
    BY <1>1, <1>3, Around
  <2>2. p \notin U[w] /\ p \in U[p]
    BY <1>1, <1>2, Around
  <2>3. U[t.kid[a][b]] \subseteq U[b] /\ t.kid[a][b] # b /\ t.kid[a][b] \in Nodes
    BY <1>1, <1>5, Around
  <2> QED BY <2>1, <2>2, <2>3
<1>12. /\ H[w] \in Nat /\ H[x] \in Nat /\ H[c] \in Nat /\ H[b] \in Nat /\ H[p] \in Nat
       /\ H[c] = H[x] /\ H[b] = H[x] /\ H[p] = Black(t, p) + (H[x] + 1) /\ Black(t, p) \in Nat
       /\ \A a \in Sides : H[b] = 0 + H[t.kid[a][b]]
  <2>1. /\ H[w] \in Nat /\ H[x] \in Nat /\ H[c] \in Nat /\ H[b] \in Nat /\ H[p] \in Nat
        /\ Black(t, p) \in Nat
    BY <1>1, <1>2, <1>5 DEF Black
  <2>2. Black(t, w) = 1 /\ Black(t, b) = 0
    BY <1>0 DEF Black
  <2>3. H[w] = Black(t, w) + H[c] /\ H[w] = Black(t, w) + H[b]
    BY <1>1, <1>3
  <2>4. \A a \in Sides : H[b] = Black(t, b) + H[t.kid[a][b]]
    BY <1>1, <1>5, <1>9
  <2>5. H[c] = H[x] /\ H[b] = H[x]
    BY <1>1, <2>1, <2>2, <2>3
  <2> QED BY <1>1, <2>1, <2>2, <2>4, <2>5
<1>13. /\ G \in [Nodes -> Nat] /\ G[p] = H[x] + 1 /\ G[w] = H[p] /\ G[b] = H[x] + 1
       /\ \A n \in Nodes : n # p /\ n # w /\ n # b => G[n] = H[n]
  BY <1>1, <1>5, <1>9, <1>12 DEF G
<1>14. ASSUME NEW n \in Keys, NEW m PROVE More(nil, nil, m, n) = 0
  BY KeyFacts DEF More
<1>15. Weighs(r, G, nil, nil, p)
  <2>1. Black(r, p) = 1
    BY <1>1, <1>10 DEF Black
  <2>2. G[c] = H[x] /\ G[x] = H[x]
    BY <1>1, <1>2, <1>9, <1>12, <1>13
  <2>3. \A a \in Sides : r.kid[a][p] = c \/ r.kid[a][p] = x
    BY <1>1, <1>9, SideFacts DEF o
  <2>4. H[x] + 1 = 1 + H[x] + 0
    BY <1>12
  <2>5. \A m : More(nil, nil, m, p) = 0
    BY <1>1, <1>14
  <2> QED BY <1>13, <2>1, <2>2, <2>3, <2>4, <2>5 DEF Weighs
<1>16. Weighs(r, G, nil, nil, w)
  <2>1. Black(r, w) = Black(t, p)
    BY <1>1, <1>9, <1>10 DEF Black
  <2>2. \A a \in Sides : r.kid[a][w] = p \/ r.kid[a][w] = b
    BY <1>1, <1>9, SideFacts DEF o
  <2>3. H[p] = Black(t, p) + (H[x] + 1) + 0
    BY <1>12
  <2>4. \A m : More(nil, nil, m, w) = 0
    BY <1>1, <1>14
  <2> QED BY <1>13, <2>1, <2>2, <2>3, <2>4 DEF Weighs
<1>17. Weighs(r, G, nil, nil, b)
  <2>1. Black(r, b) = 1
    BY <1>5, <1>10 DEF Black
  <2>2. ASSUME NEW a \in Sides PROVE G[b] = Black(r, b) + G[r.kid[a][b]] + More(nil, nil, r.kid[a][b], b)
    <3>1. r.kid[a][b] = t.kid[a][b] /\ G[t.kid[a][b]] = H[t.kid[a][b]] /\ H[t.kid[a][b]] \in Nat
      BY <1>1, <1>9, <1>11, <1>13
    <3>2. H[x] = H[t.kid[a][b]]
      BY <1>12, <3>1
    <3>3. H[x] + 1 = 1 + H[x] + 0
      BY <1>12
    <3>4. More(nil, nil, r.kid[a][b], b) = 0
      BY <1>5, <1>14
    <3> QED BY <1>13, <2>1, <3>1, <3>2, <3>3, <3>4
  <2> QED BY <2>2 DEF Weighs
<1>18. Level(r, G)
  <2>1. \A n \in Keys \ {p, w, b} : r.color[n] = t.color[n] /\ G[n] = H[n]
    BY <1>10, <1>13, KeyFacts
  <2>2. ASSUME NEW n \in Keys \ {p, w, b}, NEW a \in Sides
        PROVE  More(nil, nil, r.kid[a][n], n) = More(x, p, t.kid[a][n], n)
    <3>1. More(x, p, t.kid[a][n], n) = 0
      BY DEF More
    <3> QED BY <1>14, <3>1
  <2>3. G[nil] = 0 /\ Heights(t, H, x, p) /\ G[w] = H[p]
    BY <1>0, <1>1, <1>3, <1>13, KeyFacts DEF Short
  <2>4. Good(t, U) /\ Turned(t, U, p, s, w, c) /\ G \in [Nodes -> Nat]
    BY <1>1, <1>13
  <2>5. Heights(r, G, nil, nil)
    BY <1>3, <1>7, <1>15, <1>16, <1>17, <2>1, <2>2, <2>3, <2>4, RotateHeights
  <2> QED BY <1>8, <2>5, HeightsLevel, GoodFacts
<1>19. AllCalm(r, {})
  <2>1. Calm(r, {}, p) /\ Calm(r, {}, b)
    BY <1>1, <1>5, <1>10 DEF Calm
  <2>2. Calm(r, {}, w)
    <3>1. r.color[p] = "BLACK" /\ r.color[b] = "BLACK"
      BY <1>1, <1>5, <1>10
    <3> QED BY <1>1, <1>9, <3>1, SideFacts DEF Calm, o
  <2>3. \A n \in Keys \ {p, w, b} : r.color[n] = t.color[n] /\ Calm(t, {}, n)
    BY <1>2, <1>10, KeyFacts
  <2>4. r.color[nil] = "BLACK" /\ r.color[w] \in {"BLACK", t.color[p]}
    BY <1>1, <1>2, <1>3, <1>9, <1>10, KeyFacts
  <2>5. Good(t, U) /\ Turned(t, U, p, s, w, c)
    BY <1>1
  <2> QED BY <1>3, <1>7, <2>1, <2>2, <2>3, <2>4, <2>5, RotateCalm
<1>20. r.color[r.root] = "BLACK" /\ r.color[nil] = "BLACK"
  <2>1. r.root = (IF t.root = p THEN w ELSE t.root) /\ t.root \in Nodes
    BY <1>1, <1>7, TreeFacts DEF Relinked
  <2> QED BY <1>1, <1>2, <1>3, <1>10, <2>1, KeyFacts
<1>21. Reds(r, {})
  BY <1>19, <1>20 DEF Reds, AllCalm, Calm
<1> QED BY <1>8, <1>18, <1>21 DEF Sound

LEMMA RepaidSound ==
    ASSUME NEW t, NEW U, NEW H, NEW x, NEW p, NEW s, Short(t, U, H, x, p, s),
           t.color[t.kid[Other(s)][p]] = "BLACK",
           \E a \in Sides : t.color[t.kid[a][t.kid[Other(s)][p]]] = "RED",
           NEW r, r = Repaid(t, p, s)
    PROVE  \E V, G : V[r.root] = U[t.root] /\ Sound(r, V, G)
<1>1. PICK w : w = t.kid[Other(s)][p]
  OBVIOUS
<1>2. PICK c : c = t.kid[s][w]
  OBVIOUS
<1>3. PICK d : d = t.kid[Other(s)][w]
  OBVIOUS
<1>4. w \in Nodes /\ t \in Tree /\ s \in Sides /\ Other(s) \in Sides /\ d \in Nodes
  BY <1>1, <1>2, <1>3, Sibling, TreeFacts
<1>5. CASE t.color[d] = "RED"
  <2>1. r = Rotate(Paints(t, w, t.color[p], p, "BLACK", d, "BLACK"), p, s)
    BY <1>1, <1>3, <1>5 DEF Repaid, Paints
  <2>2. Payable(t, U, H, x, p, s, w, d)
    BY <1>1, <1>3, <1>5 DEF Payable
  <2> QED BY <2>1, <2>2, SiblingPays
<1>6. CASE t.color[d] # "RED"
  <2>1. t.color[d] = "BLACK" /\ t.color[c] = "RED"
    BY <1>1, <1>2, <1>3, <1>4, <1>6, TreeFacts, SideFacts
  <2>2. Kinked(t, U, H, x, p, s, w, c)
    BY <1>1, <1>2, <1>3, <2>1 DEF Kinked
  <2>3. PICK q : q = Rotate(Paint(t, c, "BLACK", w, "RED"), w, Other(s))
    OBVIOUS
  <2>4. PICK V, G : /\ V[q.root] = U[t.root] /\ Short(q, V, G, x, p, s)
                    /\ q.kid[Other(s)][p] = c /\ q.color[c] = "BLACK"
                    /\ q.kid[Other(s)][c] = w /\ q.color[w] = "RED"
    BY <2>2, <2>3, SiblingTurnedOut
  <2>5. r = Rotate(Paints(q, c, q.color[p], p, "BLACK", w, "BLACK"), p, s)
    <3> DEFINE o == Other(s)
    <3>1. t.color[t.kid[o][t.kid[o][p]]] # "RED"
      BY <1>1, <1>3, <1>6
    <3>2. q = Rotate([t EXCEPT !.color[t.kid[s][t.kid[o][p]]] = "BLACK",
                               !.color[t.kid[o][p]] = "RED"], t.kid[o][p], o)
      BY <1>1, <1>2, <2>3 DEF Paint
    <3>3. r = Rotate([q EXCEPT !.color[q.kid[o][p]] = q.color[p], !.color[p] = "BLACK",
                               !.color[q.kid[o][q.kid[o][p]]] = "BLACK"], p, s)
      BY <3>1, <3>2 DEF Repaid
    <3> QED BY <2>4, <3>3 DEF Paints
  <2>6. Payable(q, V, G, x, p, s, c, w)
    BY <2>4 DEF Payable
  <2>7. \E W, K : W[r.root] = V[q.root] /\ Sound(r, W, K)
    BY <2>5, <2>6, SiblingPays
  <2> QED BY <2>4, <2>7
<1> QED BY <1>5, <1>6

\* A round of the loop that repairs the colours goes on at the root.
LEMMA SoundFalls ==
    ASSUME NEW t, NEW U, NEW H, Sound(t, U, H), t.root # nil
    PROVE  Falling(t, U, H, t.root)
<1>1. Good(t, U) /\ Level(t, H) /\ Reds(t, {}) /\ t \in Tree
  BY GoodFacts DEF Sound
<1>2. t.parent[t.root] = nil
  BY <1>1, GoodFacts
<1>3. Heights(t, H, t.root, t.parent[t.root])
  BY <1>1, <1>2, HeightsLevel
<1>4. Reds(t, {t.root})
  BY <1>1 DEF Reds
<1> QED BY <1>1, <1>2, <1>3, <1>4 DEF Falling, Deleting

-----------------------------------------------------------------------------
\* The invariant.

LEMMA EmptySound == \E U, H : Sound(EmptyTree, U, H) /\ U[EmptyTree.root] = {}
<1> DEFINE U == [n \in Nodes |-> IF n = nil THEN {} ELSE {n}]
           H == [n \in Nodes |-> IF n = nil THEN 0 ELSE 1]
<1>1. /\ nil \in Nodes /\ nil \notin Keys /\ Nodes = Keys \cup {nil}
      /\ \A n \in Keys : n \in Nodes /\ n # nil
  BY KeyFacts
<1>2. PICK t : t = EmptyTree
  OBVIOUS
<1>3. /\ t \in Tree /\ t.root = nil
      /\ \A s \in Sides : \A n \in Nodes : t.kid[s][n] = nil
      /\ \A n \in Nodes : t.color[n] = "BLACK"
  BY <1>1, <1>2 DEF EmptyTree, Tree
<1>4. /\ U \in [Nodes -> SUBSET Keys] /\ U[nil] = {} /\ \A n \in Keys : U[n] = {n}
  BY <1>1
<1>5. /\ H \in [Nodes -> Nat] /\ H[nil] = 0 /\ \A n \in Keys : H[n] = 1
  BY <1>1
<1> HIDE DEF U, H
<1>6. \A n \in Nodes : IsFiniteSet(U[n])
  <2>1. ASSUME NEW n \in Keys PROVE IsFiniteSet(U[n])
    BY <1>4, FS_Singleton
  <2>2. IsFiniteSet(U[nil])
    BY <1>4, FS_EmptySet
  <2> QED BY <1>1, <2>1, <2>2
<1>7. ASSUME NEW n \in Keys, NEW s \in Sides
      PROVE  /\ U[n] = {n} \cup U[t.kid[s][n]] \cup U[t.kid[Other(s)][n]]
             /\ \A m \in U[t.kid[s][n]] : On(s, m, n)
             /\ t.kid[s][n] # nil => t.parent[t.kid[s][n]] = n
             /\ t.kid[s][n] = nil
             /\ H[n] = Black(t, n) + H[t.kid[s][n]]
             /\ t.color[t.kid[s][n]] = "BLACK"
  <2>1. t.kid[s][n] = nil /\ t.kid[Other(s)][n] = nil
    BY <1>1, <1>3, SideFacts
  <2>2. Black(t, n) = 1
    BY <1>1, <1>3 DEF Black
  <2> QED BY <1>1, <1>3, <1>4, <1>5, <2>1, <2>2
<1>8. Good(t, U)
  BY <1>1, <1>3, <1>4, <1>6, <1>7 DEF Good
<1>9. Level(t, H)
  BY <1>5, <1>7 DEF Level
<1>10. Reds(t, {})
  BY <1>1, <1>3, <1>7 DEF Reds
<1> QED BY <1>2, <1>3, <1>4, <1>8, <1>9, <1>10 DEF Sound

\* The types of the variables but T, and what a step has to show.
Plain == /\ val \in [Keys -> Values \cup {NULL, Lost}]
         /\ pc \in {"idle", "insert_fixup", "delete_fixup", "free"}
         /\ z \in Nodes /\ up \in BOOLEAN
         /\ resp \in {"OK", "ERROR", "EXIST", "NO_EXIST", NULL} \cup Values

LEMMA IInvFrom ==
    ASSUME Plain, NEW U, NEW H, Inv(U, H)
    PROVE  IInv
<1>1. Good(T, U)
  BY DEF Plain, Inv, Sound, Climbing, Falling
<1>2. T \in Tree
  BY <1>1, GoodFacts
<1> QED BY <1>2 DEF IInv, TypeOK, Plain, Tree

LEMMA InvGood ==
    ASSUME Plain, NEW U, NEW H, Inv(U, H)
    PROVE  Good(T, U) /\ T \in Tree /\ T.root \in Nodes
<1>1. Good(T, U)
  BY DEF Plain, Inv, Sound, Climbing, Falling
<1> QED BY <1>1, GoodFacts, TreeFacts

LEMMA InitIInv == Init => IInv
<1> SUFFICES ASSUME Init PROVE IInv
  OBVIOUS
<1>1. PICK U, H : Sound(EmptyTree, U, H) /\ U[EmptyTree.root] = {}
  BY EmptySound
<1>2. Plain
  BY KeyFacts DEF Init, Plain
<1>3. Inv(U, H)
  BY <1>1 DEF Init, Inv
<1> QED BY <1>2, <1>3, IInvFrom

\* A step that leaves the tree alone.
LEMMA AtRest ==
    ASSUME Plain, Plain', NEW U, NEW H, Inv(U, H), Ready, UNCHANGED <<T, val, pc, z>>
    PROVE  Inv(U, H)'
BY DEF Inv, Ready

LEMMA SetKeeps ==
    ASSUME Plain, NEW U, NEW H, Inv(U, H), NEW k \in Keys \cup {NULL}, NEW v \in Values \cup {NULL},
           kvs_rbtree_set(k, v)
    PROVE  Plain' /\ \E V, G : Inv(V, G)'
<1>1. Ready /\ pc = "idle" /\ up
  BY DEF kvs_rbtree_set, Ready
<1>2. CASE (Return("ERROR") \/ Return("OK") \/ Dies) /\ Unchanged
  <2>1. Plain'
    BY <1>2 DEF Plain, Return, Dies, Unchanged
  <2>2. Inv(U, H)'
    BY <1>1, <1>2, <2>1, AtRest DEF Unchanged
  <2> QED BY <2>1, <2>2
<1>3. CASE /\ k # NULL /\ v # NULL /\ rbtree_search(T, k) = nil
           /\ T' = Linked(T, k) /\ val' = [val EXCEPT ![k] = v]
           /\ pc' = "insert_fixup" /\ z' = k /\ Return("OK")
  <2>1. k \in Keys /\ v \in Values /\ k # nil /\ k \in Nodes
    BY <1>3, KeyFacts
  <2>2. Sound(T, U, H) /\ Good(T, U)
    BY <1>1 DEF Inv, Sound
  <2>3. k \notin U[T.root]
    BY <1>3, <2>1, <2>2, SearchFinds
  <2>4. PICK V, G : Climbing(T', V, G, k) /\ V[T'.root] = U[T.root] \cup {k}
    <3>1. T' = Linked(T, k)
      BY <1>3
    <3> QED BY <2>1, <2>2, <2>3, <3>1, LinkClimbs
  <2>5. Plain'
    BY <1>1, <1>3, <2>1 DEF Plain, Return
  <2>6. ASSUME NEW j \in Keys PROVE val'[j] = NULL <=> j \notin V[T'.root]
    <3>1. val'[j] = IF j = k THEN v ELSE val[j]
      BY <1>3, <2>1 DEF Plain
    <3>2. val[j] = NULL <=> j \notin U[T.root]
      BY DEF Inv
    <3> QED BY <1>3, <2>4, <3>1, <3>2
  <2>7. Inv(V, G)'
    BY <1>1, <1>3, <2>4, <2>6 DEF Inv, Return
  <2> QED BY <2>5, <2>7
<1> QED BY <1>2, <1>3 DEF kvs_rbtree_set

LEMMA ModKeeps ==
    ASSUME Plain, NEW U, NEW H, Inv(U, H), NEW k \in Keys \cup {NULL}, NEW v \in Values \cup {NULL},
           kvs_rbtree_mod(k, v)
    PROVE  Plain' /\ \E V, G : Inv(V, G)'
<1>1. Ready /\ pc = "idle" /\ up /\ UNCHANGED <<T, pc, z>>
  BY DEF kvs_rbtree_mod, Ready
<1>2. CASE (Return("ERROR") \/ Return("NO_EXIST")) /\ UNCHANGED val
  <2>1. Plain'
    BY <1>1, <1>2 DEF Plain, Return
  <2>2. Inv(U, H)'
    BY <1>1, <1>2, <2>1, AtRest
  <2> QED BY <2>1, <2>2
<1>3. CASE /\ k # NULL /\ v # NULL /\ rbtree_search(T, k) # nil
           /\ \E ok \in Malloc :
                 /\ ok \/ MayLose
                 /\ val' = [val EXCEPT ![k] = IF ok THEN v ELSE Lost]
                 /\ Return(IF ok THEN "OK" ELSE "ERROR")
  <2>1. k \in Keys /\ v \in Values
    BY <1>3
  <2>2. PICK u \in Values \cup {Lost} : /\ val' = [val EXCEPT ![k] = u]
                                        /\ Return("OK") \/ Return("ERROR")
    BY <1>3, <2>1
  <2>3. Good(T, U) /\ Sound(T, U, H)
    BY <1>1 DEF Inv, Sound
  <2>4. k \in U[T.root]
    BY <1>3, <2>1, <2>3, SearchFinds
  <2>5. Plain'
    BY <1>1, <2>1, <2>2 DEF Plain, Return
  <2>6. ASSUME NEW j \in Keys PROVE val'[j] = NULL <=> j \notin U[T.root]
    <3>1. val'[j] = IF j = k THEN u ELSE val[j]
      BY <2>1, <2>2 DEF Plain
    <3>2. val[j] = NULL <=> j \notin U[T.root]
      BY DEF Inv
    <3>3. u # NULL
      BY ValuesAssumption
    <3> QED BY <2>4, <3>1, <3>2, <3>3
  <2>7. Inv(U, H)'
    BY <1>1, <2>2, <2>3, <2>6 DEF Inv, Return
  <2> QED BY <2>5, <2>7
<1> QED BY <1>2, <1>3 DEF kvs_rbtree_mod

LEMMA ReadKeeps ==
    ASSUME Plain, NEW U, NEW H, Inv(U, H), NEW k \in Keys \cup {NULL},
           kvs_rbtree_get(k) \/ kvs_rbtree_exist(k)
    PROVE  Plain' /\ \E V, G : Inv(V, G)'
<1>1. Ready /\ Unchanged
  BY DEF kvs_rbtree_get, kvs_rbtree_exist
<1>2. PICK a : Return(a) /\ a \in {"OK", "ERROR", "EXIST", "NO_EXIST", NULL} \cup Values
  <2>1. CASE kvs_rbtree_exist(k)
    BY <2>1 DEF kvs_rbtree_exist
  <2>2. CASE kvs_rbtree_get(k)
    <3>1. Return(IF k = NULL \/ rbtree_search(T, k) = nil \/ val[k] = Lost THEN "NO_EXIST" ELSE val[k])
      BY <2>2 DEF kvs_rbtree_get
    <3>2. k # NULL /\ val[k] # Lost => val[k] \in Values \cup {NULL}
      BY DEF Plain
    <3> QED BY <3>1, <3>2
  <2> QED BY <2>1, <2>2
<1>3. Plain'
  BY <1>1, <1>2 DEF Plain, Unchanged, Return
<1>4. Inv(U, H)'
  BY <1>1, <1>3, AtRest DEF Unchanged
<1> QED BY <1>3, <1>4

LEMMA DelKeeps ==
    ASSUME Plain, NEW U, NEW H, Inv(U, H), NEW k \in Keys \cup {NULL}, kvs_rbtree_del(k)
    PROVE  Plain' /\ \E V, G : Inv(V, G)'
<1>1. Ready /\ pc = "idle" /\ up
  BY DEF kvs_rbtree_del, Ready
<1>2. CASE (Return("ERROR") \/ Dies) /\ Unchanged
  <2>1. Plain'
    BY <1>2 DEF Plain, Return, Dies, Unchanged
  <2>2. Inv(U, H)'
    BY <1>1, <1>2, <2>1, AtRest DEF Unchanged
  <2> QED BY <2>1, <2>2
<1>3. CASE /\ k # NULL /\ rbtree_search(T, k) # nil
           /\ T' = Unlinked(T, k) /\ val' = [val EXCEPT ![k] = NULL]
           /\ z' = OnlyChild(T, CutNode(T, k))
           /\ pc' = IF NeedsFixup(T.color[CutNode(T, k)]) THEN "delete_fixup" ELSE "free"
           /\ Return("OK")
  <2>1. k \in Keys
    BY <1>3
  <2>2. Sound(T, U, H) /\ Good(T, U)
    BY <1>1 DEF Inv, Sound
  <2>3. k \in U[T.root]
    BY <1>3, <2>1, <2>2, SearchFinds
  <2>4. PICK y : y = CutNode(T, k)
    OBVIOUS
  <2>5. PICK x : x = OnlyChild(T, y)
    OBVIOUS
  <2>6. PICK V, G : /\ V[T'.root] = U[T.root] \ {k} /\ x \in Nodes
                    /\ IF T.color[y] = "BLACK" THEN Falling(T', V, G, x) ELSE Sound(T', V, G)
    <3>1. T' = Unlinked(T, k)
      BY <1>3
    <3> QED BY <2>2, <2>3, <2>4, <2>5, <3>1, DeleteFalls
  <2>7. z' = x /\ pc' = IF T.color[y] = "BLACK" THEN "delete_fixup" ELSE "free"
    BY <1>3, <2>4, <2>5 DEF NeedsFixup
  <2>8. Plain'
    BY <1>1, <1>3, <2>1, <2>6, <2>7 DEF Plain, Return
  <2>9. ASSUME NEW j \in Keys PROVE val'[j] = NULL <=> j \notin V[T'.root]
    <3>1. val'[j] = IF j = k THEN NULL ELSE val[j]
      BY <1>3, <2>1 DEF Plain
    <3>2. val[j] = NULL <=> j \notin U[T.root]
      BY DEF Inv
    <3> QED BY <2>6, <3>1, <3>2
  <2>10. Inv(V, G)'
    BY <1>1, <1>3, <2>6, <2>7, <2>9 DEF Inv, Return
  <2> QED BY <2>8, <2>10
<1> QED BY <1>2, <1>3 DEF kvs_rbtree_del

LEMMA MendedClimbs ==
    ASSUME NEW t, NEW U, NEW H, NEW x, Mended(t, U, H, x)
    PROVE  Climbing(t, U, H, x)
<1>1. \A n \in Keys : \A s \in Sides : t.color[n] = "RED" => t.color[t.kid[s][n]] = "BLACK"
  BY DEF Mended, AllCalm, Calm
<1>2. Reds(t, {x})
  BY <1>1 DEF Mended, Reds
<1> QED BY <1>1, <1>2 DEF Mended, Climbing, Inserting

\* A step of a loop that keeps the keys of the tree.
LEMMA LoopKeeps ==
    ASSUME Plain, Plain', NEW U, NEW H, Inv(U, H), UNCHANGED <<val, up>>, pc # "idle",
           NEW V, NEW G, V[T'.root] = U[T.root],
           \/ pc' \in {"idle", "free"} /\ Sound(T', V, G)
           \/ pc' = "insert_fixup" /\ Climbing(T', V, G, z')
           \/ pc' = "delete_fixup" /\ Falling(T', V, G, z')
    PROVE  Inv(V, G)'
BY DEF Inv

LEMMA InsertFixupKeeps ==
    ASSUME Plain, NEW U, NEW H, Inv(U, H), rbtree_insert_fixup
    PROVE  Plain' /\ \E V, G : Inv(V, G)'
<1>1. PICK p : p = T.parent[z]
  OBVIOUS
<1>2. PICK g : g = T.parent[p]
  OBVIOUS
<1>3. PICK s : s = SideOf(T, p)
  OBVIOUS
<1>4. PICK y : y = T.kid[Other(s)][g]
  OBVIOUS
<1>5. pc = "insert_fixup" /\ UNCHANGED <<val, up, resp>> /\ Climbing(T, U, H, z)
  BY DEF rbtree_insert_fixup, Inv
<1>6. Good(T, U) /\ T \in Tree /\ z \in Nodes /\ p \in Nodes /\ g \in Nodes
  BY <1>1, <1>2, InvGood, TreeFacts DEF Plain
<1>7. CASE /\ T.color[p] = "RED" /\ T.color[y] = "RED"
           /\ T' = Recolored(T, z, g, y) /\ z' = g /\ UNCHANGED pc
  <2>1. Plain'
    BY <1>5, <1>6, <1>7 DEF Plain
  <2>2. AtRed(T, U, H, z, p, g)
    BY <1>1, <1>2, <1>5, <1>7 DEF AtRed, Climbing
  <2>3. T'.root = T.root /\ \E G : Climbing(T', U, G, g)
    BY <1>3, <1>4, <1>7, <2>2, RecoloredClimbs
  <2>4. PICK G : Climbing(T', U, G, g)
    BY <2>3
  <2>5. Inv(U, G)'
    BY <1>5, <1>7, <2>1, <2>3, <2>4, LoopKeeps
  <2> QED BY <2>1, <2>5
<1>8. CASE /\ T.color[p] = "RED" /\ T.color[y] = "BLACK"
           /\ T' = Straightened(T, z, s) /\ UNCHANGED pc
           /\ z' = IF z = T.kid[Other(s)][p] THEN p ELSE z
  <2>1. Plain'
    BY <1>5, <1>6, <1>8 DEF Plain
  <2>2. AtRed(T, U, H, z, p, g)
    BY <1>1, <1>2, <1>5, <1>8 DEF AtRed, Climbing
  <2>3. T.color[T.kid[Other(s)][g]] = "BLACK" /\ T' = Straightened(T, z, s)
    BY <1>4, <1>8
  <2>4. PICK V, G : /\ V[T'.root] = U[T.root]
                    /\ Mended(T', V, G, IF z = T.kid[Other(s)][p] THEN p ELSE z)
    BY <1>3, <2>2, <2>3, StraightMended
  <2>5. Climbing(T', V, G, z')
    BY <1>8, <2>4, MendedClimbs
  <2>6. Inv(V, G)'
    BY <1>5, <1>8, <2>1, <2>4, <2>5, LoopKeeps
  <2> QED BY <2>1, <2>6
<1>9. CASE /\ T.color[p] = "BLACK"
           /\ T' = [T EXCEPT !.color[T.root] = "BLACK"]
           /\ pc' = "idle" /\ z' = nil
  <2>1. Plain'
    BY <1>5, <1>9, KeyFacts DEF Plain
  <2>2. T'.root = T.root /\ \E G : Sound(T', U, G)
    BY <1>1, <1>5, <1>9, RootBlackened
  <2>3. PICK G : Sound(T', U, G)
    BY <2>2
  <2>4. Inv(U, G)'
    BY <1>5, <1>9, <2>1, <2>2, <2>3, LoopKeeps
  <2> QED BY <2>1, <2>4
<1> QED BY <1>1, <1>2, <1>3, <1>4, <1>7, <1>8, <1>9 DEF rbtree_insert_fixup

LEMMA DeleteFixupKeeps ==
    ASSUME Plain, NEW U, NEW H, Inv(U, H), rbtree_delete_fixup
    PROVE  Plain' /\ \E V, G : Inv(V, G)'
<1>1. PICK p : p = T.parent[z]
  OBVIOUS
<1>2. PICK s : s = SideOf(T, z)
  OBVIOUS
<1>3. PICK t : t = BlackSibling(T, p, s)
  OBVIOUS
<1>4. PICK w : w = t.kid[Other(s)][p]
  OBVIOUS
<1>5. pc = "delete_fixup" /\ UNCHANGED <<val, up, resp>> /\ Falling(T, U, H, z) /\ z \in Nodes
  BY DEF rbtree_delete_fixup, Inv, Plain
<1>6. CASE /\ z # T.root /\ T.color[z] = "BLACK" /\ UNCHANGED pc
           /\ \/ /\ \A c \in Sides : t.color[t.kid[c][w]] = "BLACK"
                 /\ T' = [t EXCEPT !.color[w] = "RED"] /\ z' = p
              \/ /\ \E c \in Sides : t.color[t.kid[c][w]] = "RED"
                 /\ T' = Repaid(t, p, s) /\ z' = T'.root
  <2>1. Short(T, U, H, z, p, s)
    BY <1>1, <1>2, <1>5, <1>6, FallingShort
  <2>2. PICK W, K : W[t.root] = U[T.root] /\ Short(t, W, K, z, p, s) /\ t.color[w] = "BLACK"
    BY <1>3, <1>4, <2>1, SiblingBlack
  <2>3. CASE /\ \A c \in Sides : t.color[t.kid[c][w]] = "BLACK"
             /\ T' = [t EXCEPT !.color[w] = "RED"] /\ z' = p
    <3>1. T'.root = t.root /\ p \in Nodes /\ \E G : Falling(T', W, G, p)
      BY <1>4, <2>2, <2>3, SiblingReddened
    <3>2. PICK G : Falling(T', W, G, p)
      BY <3>1
    <3>3. Plain'
      BY <1>5, <1>6, <2>3, <3>1 DEF Plain
    <3>4. Inv(W, G)'
      BY <1>5, <1>6, <2>2, <2>3, <3>1, <3>2, <3>3, LoopKeeps
    <3> QED BY <3>3, <3>4
  <2>4. CASE /\ \E c \in Sides : t.color[t.kid[c][w]] = "RED"
             /\ T' = Repaid(t, p, s) /\ z' = T'.root
    <3>1. PICK V, G : V[T'.root] = W[t.root] /\ Sound(T', V, G)
      BY <1>4, <2>2, <2>4, RepaidSound
    <3>2. Good(T', V) /\ p \in W[t.root]
      BY <2>2, <3>1 DEF Short, Sound
    <3>3. T'.root # nil /\ T'.root \in Nodes
      BY <3>1, <3>2, GoodFacts, TreeFacts
    <3>4. Falling(T', V, G, T'.root)
      BY <3>1, <3>3, SoundFalls
    <3>5. Plain'
      BY <1>5, <1>6, <2>4, <3>3 DEF Plain
    <3>6. Inv(V, G)'
      BY <1>5, <1>6, <2>2, <2>4, <3>1, <3>4, <3>5, LoopKeeps
    <3> QED BY <3>5, <3>6
  <2> QED BY <1>6, <2>3, <2>4
<1>7. CASE /\ z = T.root \/ T.color[z] = "RED"
           /\ T' = [T EXCEPT !.color[z] = "BLACK"]
           /\ pc' = "free" /\ UNCHANGED z
  <2>1. T'.root = T.root /\ \E G : Sound(T', U, G)
    BY <1>5, <1>7, LastBlackened
  <2>2. PICK G : Sound(T', U, G)
    BY <2>1
  <2>3. Plain'
    BY <1>5, <1>7 DEF Plain
  <2>4. Inv(U, G)'
    BY <1>5, <1>7, <2>1, <2>2, <2>3, LoopKeeps
  <2> QED BY <2>3, <2>4
<1> QED BY <1>1, <1>2, <1>3, <1>4, <1>6, <1>7 DEF rbtree_delete_fixup

LEMMA FreeKeeps ==
    ASSUME Plain, NEW U, NEW H, Inv(U, H), FreeNode
    PROVE  Plain' /\ \E V, G : Inv(V, G)'
<1>1. Plain'
  BY KeyFacts DEF FreeNode, Plain
<1>2. Inv(U, H)'
  BY DEF FreeNode, Inv
<1> QED BY <1>1, <1>2

LEMMA CreateKeeps ==
    ASSUME Plain, NEW U, NEW H, Inv(U, H), kvs_rbtree_create
    PROVE  Plain' /\ \E V, G : Inv(V, G)'
<1>1. pc' = "idle" /\ T' = EmptyTree /\ up' = TRUE
  BY DEF Inv, kvs_rbtree_create
<1>2. Plain'
  BY <1>1 DEF kvs_rbtree_create, Plain
<1>3. PICK V, G : Sound(EmptyTree, V, G) /\ V[EmptyTree.root] = {}
  BY EmptySound
<1>4. \A k \in Keys : val'[k] = NULL
  BY DEF kvs_rbtree_create
<1>5. Inv(V, G)'
  BY <1>1, <1>3, <1>4 DEF Inv
<1> QED BY <1>2, <1>5

LEMMA StepKeeps ==
    ASSUME Plain, NEW U, NEW H, Inv(U, H), [Next]_vars
    PROVE  Plain' /\ \E V, G : Inv(V, G)'
<1>1. ASSUME NEW k \in Keys \cup {NULL}, NEW v \in Values \cup {NULL},
             kvs_rbtree_set(k, v) \/ kvs_rbtree_mod(k, v)
      PROVE  Plain' /\ \E V, G : Inv(V, G)'
  BY <1>1, SetKeeps, ModKeeps
<1>2. ASSUME NEW k \in Keys \cup {NULL},
             kvs_rbtree_get(k) \/ kvs_rbtree_del(k) \/ kvs_rbtree_exist(k)
      PROVE  Plain' /\ \E V, G : Inv(V, G)'
  BY <1>2, ReadKeeps, DelKeeps
<1>3. CASE Fixup \/ kvs_rbtree_create
  BY <1>3, InsertFixupKeeps, DeleteFixupKeeps, FreeKeeps, CreateKeeps DEF Fixup
<1>4. CASE UNCHANGED vars
  BY <1>4 DEF vars, Plain, Inv
<1> QED BY <1>1, <1>2, <1>3, <1>4 DEF Next

LEMMA IInvPlain == ASSUME IInv PROVE Plain /\ \E U, H : Inv(U, H)
BY DEF IInv, TypeOK, Plain

LEMMA PrimedIInv == ASSUME Plain', NEW U, NEW H, Inv(U, H)' PROVE IInv'
<1>1. Good(T', U)
  BY DEF Plain, Inv, Sound, Climbing, Falling
<1>2. T' \in Tree
  BY <1>1, GoodFacts
<1> QED BY <1>2 DEF IInv, TypeOK, Plain, Tree

LEMMA NextIInv == IInv /\ [Next]_vars => IInv'
<1> SUFFICES ASSUME IInv, [Next]_vars PROVE IInv'
  OBVIOUS
<1>1. PICK U, H : Plain /\ Inv(U, H)
  BY IInvPlain
<1>2. Plain' /\ \E V, G : Inv(V, G)'
  BY <1>1, StepKeeps
<1>3. PICK V, G : Inv(V, G)'
  BY <1>2
<1> QED BY <1>2, <1>3, PrimedIInv

LEMMA AlwaysIInv == Spec => []IInv
BY InitIInv, NextIInv, PTL DEF Spec

-----------------------------------------------------------------------------
\* H is the number the model calls BlackNodes.

Counts(f) ==
    f = [n \in Nodes |->
           IF n = nil THEN 0
           ELSE (IF T.color[n] = "BLACK" THEN 1 ELSE 0)
                + f[T.kid["left"][n]] + Extra(T.kid["left"][n], n)]

LEMMA BlackNodesIs ==
    ASSUME NEW U, NEW H, Good(T, U), H \in [Nodes -> Nat], H[nil] = 0,
           \A n \in Keys : \A s \in Sides :
              H[n] = Black(T, n) + H[T.kid[s][n]] + Extra(T.kid[s][n], n)
    PROVE  BlackNodes = H
<1>1. /\ T \in Tree /\ \A s \in Sides : \A n \in Nodes : T.kid[s][n] \in Nodes
  BY GoodFacts, TreeFacts
<1>2. \A n \in Keys : H[n] = (IF T.color[n] = "BLACK" THEN 1 ELSE 0)
                             + H[T.kid["left"][n]] + Extra(T.kid["left"][n], n)
  BY SideFacts DEF Black
<1>3. Counts(H)
  <2>1. \A n \in Nodes : H[n] = IF n = nil THEN 0
                                ELSE (IF T.color[n] = "BLACK" THEN 1 ELSE 0)
                                     + H[T.kid["left"][n]] + Extra(T.kid["left"][n], n)
    BY <1>2, KeyFacts
  <2> QED BY <2>1 DEF Counts
<1>4. PICK f : f = CHOOSE h : Counts(h)
  OBVIOUS
<1>5. Counts(f)
  BY <1>3, <1>4
<1>6. BlackNodes = f
  BY <1>4 DEF BlackNodes, Counts
<1> DEFINE S == {n \in Nodes : f[n] # H[n]}
<1>7. \A n \in Nodes : f[n] = IF n = nil THEN 0
                              ELSE (IF T.color[n] = "BLACK" THEN 1 ELSE 0)
                                   + f[T.kid["left"][n]] + Extra(T.kid["left"][n], n)
  BY <1>5 DEF Counts
<1>8. S = {}
  <2>1. SUFFICES ASSUME S # {} PROVE FALSE
    OBVIOUS
  <2>2. PICK n \in S : n = nil \/ \A s \in Sides : T.kid[s][n] \notin S
    <3> S \in SUBSET Nodes
      OBVIOUS
    <3> HIDE DEF S
    <3> QED BY <2>1, Lowest
  <2>3. n \in Keys /\ n # nil
    BY <1>7, KeyFacts
  <2>4. f[T.kid["left"][n]] = H[T.kid["left"][n]]
    BY <1>1, <2>2, <2>3, SideFacts
  <2> QED BY <1>2, <1>7, <2>3, <2>4
<1>9. f = [n \in Nodes |-> f[n]] /\ H = [n \in Nodes |-> H[n]]
  BY <1>5 DEF Counts
<1> QED BY <1>6, <1>8, <1>9

\* What the invariant says of H while the deletion's loop is at its node and
\* when it is not.
LEMMA InvHeights ==
    ASSUME Plain, NEW U, NEW H, Inv(U, H)
    PROVE  /\ H \in [Nodes -> Nat] /\ H[nil] = 0
           /\ \A n \in Keys : \A s \in Sides :
                 H[n] = Black(T, n) + H[T.kid[s][n]] + Extra(T.kid[s][n], n)
<1>1. CASE pc = "delete_fixup"
  <2>1. Heights(T, H, z, T.parent[z])
    BY <1>1 DEF Inv, Falling
  <2>2. \A c, n : Extra(c, n) = More(z, T.parent[z], c, n)
    BY <1>1 DEF Extra, More
  <2> QED BY <2>1, <2>2 DEF Heights
<1>2. CASE pc # "delete_fixup"
  <2>1. Level(T, H)
    BY <1>2 DEF Plain, Inv, Sound, Climbing
  <2>2. \A c, n : Extra(c, n) = 0
    BY <1>2 DEF Extra
  <2>3. ASSUME NEW n \in Keys, NEW s \in Sides
        PROVE  H[n] = Black(T, n) + H[T.kid[s][n]] + Extra(T.kid[s][n], n)
    <3>1. H[n] = Black(T, n) + H[T.kid[s][n]]
      BY <2>1 DEF Level
    <3>2. T.kid[s][n] \in Nodes /\ n \in Nodes
      BY InvGood, TreeFacts, KeyFacts
    <3>3. H[T.kid[s][n]] \in Nat /\ Black(T, n) \in Nat
      BY <2>1, <3>2 DEF Level, Black
    <3> QED BY <2>2, <3>1, <3>3
  <2> QED BY <2>1, <2>3 DEF Level
<1> QED BY <1>1, <1>2

LEMMA IInvSearchTree == IInv => SearchTree
<1> SUFFICES ASSUME IInv PROVE SearchTree
  OBVIOUS
<1>1. PICK U, H : Plain /\ Inv(U, H)
  BY IInvPlain
<1>2. Good(T, U) /\ T.root \in Nodes
  BY <1>1, InvGood
<1>3. Under(T) = U
  BY <1>2, UnderIs
<1>4. T.root = nil \/ T.parent[T.root] = nil
  BY <1>2, GoodFacts
<1>5. ASSUME NEW n \in U[T.root]
      PROVE  /\ \A s \in Sides : T.kid[s][n] # nil => T.parent[T.kid[s][n]] = n
             /\ \A m \in U[T.kid["left"][n]] : m < n
             /\ \A m \in U[T.kid["right"][n]] : m > n
  <2>1. n \in Keys
    BY <1>2, GoodFacts
  <2>2. \A s \in Sides : T.kid[s][n] # nil => T.parent[T.kid[s][n]] = n
    BY <1>2, <2>1, Around
  <2>3. \A m \in U[T.kid["left"][n]] : On("left", m, n)
    BY <1>2, <2>1, Around, SideFacts
  <2>4. \A m \in U[T.kid["right"][n]] : On("right", m, n)
    BY <1>2, <2>1, Around, SideFacts
  <2> QED BY <2>2, <2>3, <2>4 DEF On
<1> QED BY <1>3, <1>4, <1>5 DEF SearchTree, InTree

LEMMA IInvColourRules == IInv => ColourRules
<1> SUFFICES ASSUME IInv PROVE ColourRules
  OBVIOUS
<1>1. PICK U, H : Plain /\ Inv(U, H)
  BY IInvPlain
<1>2. Good(T, U) /\ T.root \in Nodes
  BY <1>1, InvGood
<1>3. Under(T) = U
  BY <1>2, UnderIs
<1>4. /\ H \in [Nodes -> Nat] /\ H[nil] = 0
      /\ \A n \in Keys : \A s \in Sides :
            H[n] = Black(T, n) + H[T.kid[s][n]] + Extra(T.kid[s][n], n)
  BY <1>1, InvHeights
<1>5. BlackNodes = H
  BY <1>2, <1>4, BlackNodesIs
<1>6. PICK D : D = IF pc \in {"insert_fixup", "delete_fixup"} THEN {z} ELSE {}
  OBVIOUS
<1>7. Reds(T, D)
  BY <1>1, <1>6 DEF Plain, Inv, Sound, Climbing, Falling
<1>8. ASSUME NEW n \in U[T.root]
      PROVE  /\ \A s \in Sides : T.color[n] = "RED" /\ {n, T.kid[s][n]} \cap D = {}
                                    => T.color[T.kid[s][n]] = "BLACK"
             /\ H[T.kid["left"][n]] + Extra(T.kid["left"][n], n)
                  = H[T.kid["right"][n]] + Extra(T.kid["right"][n], n)
  <2>1. n \in Keys /\ n \in Nodes
    BY <1>2, GoodFacts, KeyFacts
  <2>2. \A s \in Sides : T.color[n] = "RED" /\ {n, T.kid[s][n]} \cap D = {}
                            => T.color[T.kid[s][n]] = "BLACK"
    BY <1>7, <2>1 DEF Reds
  <2>3. /\ H[n] = Black(T, n) + H[T.kid["left"][n]] + Extra(T.kid["left"][n], n)
        /\ H[n] = Black(T, n) + H[T.kid["right"][n]] + Extra(T.kid["right"][n], n)
    BY <1>4, <2>1, SideFacts
  <2>4. \A c : Extra(c, n) \in Nat /\ Black(T, n) \in Nat
    BY DEF Extra, Black
  <2>5. H[T.kid["left"][n]] \in Nat /\ H[T.kid["right"][n]] \in Nat
    BY <1>2, <1>4, <2>1, GoodFacts, TreeFacts, SideFacts
  <2> QED BY <2>2, <2>3, <2>4, <2>5
<1> QED BY <1>3, <1>5, <1>6, <1>7, <1>8 DEF ColourRules, InTree, Reds

-----------------------------------------------------------------------------
\* The tree implements the map: a key has a value if and only if it is in the
\* tree, and the loops neither add keys nor lose them.

LEMMA DictIsVal ==
    ASSUME NEW t, NEW U, Good(t, U), NEW v, v \in [Keys -> Values \cup {NULL, Lost}],
           \A k \in Keys : v[k] = NULL <=> k \notin U[t.root]
    PROVE  DictOf(t, v) = v
<1>1. InTree(t) = U[t.root]
  BY UnderIs DEF InTree
<1>2. \A k \in Keys : (IF k \in InTree(t) THEN v[k] ELSE NULL) = v[k]
  BY <1>1
<1>3. v = [k \in Keys |-> v[k]]
  OBVIOUS
<1> QED BY <1>2, <1>3 DEF DictOf

\* In a state of the invariant the search decides what the map has.
Mapped == /\ DictOf(T, val) = val /\ val \in [Keys -> Values \cup {NULL, Lost}]
          /\ \A k \in Keys : rbtree_search(T, k) = nil <=> val[k] = NULL

LEMMA InvMapped == ASSUME Plain, NEW U, NEW H, Inv(U, H) PROVE Mapped
<1>1. Good(T, U) /\ val \in [Keys -> Values \cup {NULL, Lost}]
  BY InvGood DEF Plain
<1>2. \A k \in Keys : val[k] = NULL <=> k \notin U[T.root]
  BY DEF Inv
<1>3. DictOf(T, val) = val
  BY <1>1, <1>2, DictIsVal
<1>4. ASSUME NEW k \in Keys PROVE rbtree_search(T, k) = nil <=> val[k] = NULL
  BY <1>1, <1>2, SearchFinds, KeyFacts
<1> QED BY <1>1, <1>3, <1>4 DEF Mapped

LEMMA InvMappedNext ==
    ASSUME Plain', NEW U, NEW H, Inv(U, H)' PROVE DictOf(T', val') = val'
<1>1. Good(T', U) /\ val' \in [Keys -> Values \cup {NULL, Lost}]
  BY DEF Plain, Inv, Sound, Climbing, Falling
<1>2. \A k \in Keys : val'[k] = NULL <=> k \notin U[T'.root]
  BY DEF Inv
<1> QED BY <1>1, <1>2, DictIsVal

LEMMA HasKey ==
    ASSUME Mapped, NEW k \in Keys \cup {NULL}
    PROVE  Dict!Has(k) <=> k # NULL /\ rbtree_search(T, k) # nil
BY ValuesAssumption DEF Mapped, Dict!Has

\* The tree keeps NULL for a lost value, which kvs_free ignores.
LEMMA FreesOnce == ASSUME NEW k PROVE Dict!FreesValueOf(k)
  BY Zenon DEF Dict!FreesValueOf

LEMMA SetRefines ==
    ASSUME Mapped, DictOf(T', val') = val', NEW k \in Keys \cup {NULL}, NEW v \in Values \cup {NULL},
           kvs_rbtree_set(k, v)
    PROVE  Dict!DictSet(k, v) \/ Dict!DictCrash
<1>1. up /\ DictOf(T, val) = val
  BY DEF kvs_rbtree_set, Ready, Mapped
<1>2. CASE Return("ERROR") /\ Unchanged
  BY <1>1, <1>2 DEF Return, Unchanged, Dict!DictSet, Dict!Answer, Dict!Unchanged
<1>3. CASE Dies /\ Unchanged
  BY <1>1, <1>3 DEF Dies, Unchanged, Dict!DictCrash
<1>4. CASE k # NULL /\ v # NULL /\ rbtree_search(T, k) # nil /\ Return("OK") /\ Unchanged
  <2>1. Dict!Has(k)
    BY <1>4, HasKey
  <2> QED BY <1>1, <1>4, <2>1 DEF Return, Unchanged, Dict!DictSet, Dict!Answer, Dict!Unchanged
<1>5. CASE /\ k # NULL /\ v # NULL /\ rbtree_search(T, k) = nil
           /\ val' = [val EXCEPT ![k] = v] /\ Return("OK")
  <2>1. ~Dict!Has(k)
    BY <1>5, HasKey
  <2>2. k \in Keys /\ v \in Values
    BY <1>5
  <2> QED BY <1>1, <1>5, <2>1, <2>2 DEF Return, Dict!DictSet, Dict!Answer
<1> QED BY <1>2, <1>3, <1>4, <1>5 DEF kvs_rbtree_set

LEMMA ModRefines ==
    ASSUME Mapped, DictOf(T', val') = val', NEW k \in Keys \cup {NULL}, NEW v \in Values \cup {NULL},
           kvs_rbtree_mod(k, v)
    PROVE  Dict!DictMod(k, v)
<1>1. up /\ DictOf(T, val) = val
  BY DEF kvs_rbtree_mod, Ready, Mapped
<1>2. CASE (k = NULL \/ v = NULL) /\ Return("ERROR") /\ UNCHANGED val
  BY <1>1, <1>2 DEF Return, Dict!DictMod, Dict!Answer, Dict!Unchanged
<1>3. CASE k # NULL /\ v # NULL /\ rbtree_search(T, k) = nil /\ Return("NO_EXIST") /\ UNCHANGED val
  <2>1. ~Dict!Has(k) /\ k \in Keys
    BY <1>3, HasKey
  <2> QED BY <1>1, <1>3, <2>1 DEF Return, Dict!DictMod, Dict!Answer, Dict!Unchanged
<1>4. CASE /\ k # NULL /\ v # NULL /\ rbtree_search(T, k) # nil
           /\ \E ok \in Malloc :
                 /\ val' = [val EXCEPT ![k] = IF ok THEN v ELSE Lost]
                 /\ Return(IF ok THEN "OK" ELSE "ERROR")
  <2>1. Dict!Has(k) /\ v \in Values
    BY <1>4, HasKey
  <2>2. \/ val' = [val EXCEPT ![k] = v] /\ Return("OK")
        \/ val' = [val EXCEPT ![k] = Lost] /\ Return("ERROR")
    BY <1>4
  <2> QED BY <1>1, <2>1, <2>2, FreesOnce DEF Return, Dict!DictMod, Dict!Answer
<1> QED BY <1>2, <1>3, <1>4 DEF kvs_rbtree_mod

LEMMA GetRefines ==
    ASSUME Mapped, DictOf(T', val') = val', NEW k \in Keys \cup {NULL}, kvs_rbtree_get(k)
    PROVE  Dict!DictGet(k)
<1>1. up /\ DictOf(T, val) = val /\ Unchanged
  BY DEF kvs_rbtree_get, Ready, Mapped
<1>2. CASE (k = NULL \/ rbtree_search(T, k) = nil \/ val[k] = Lost) /\ Return("NO_EXIST")
  <2>1. Dict!Has(k) => val[k] = Lost
    BY <1>2, HasKey
  <2> QED BY <1>1, <1>2, <2>1 DEF Return, Unchanged, Dict!DictGet, Dict!Answer, Dict!Unchanged
<1>3. CASE k # NULL /\ rbtree_search(T, k) # nil /\ Return(val[k])
  <2>1. Dict!Has(k)
    BY <1>3, HasKey
  <2> QED BY <1>1, <1>3, <2>1 DEF Return, Unchanged, Dict!DictGet, Dict!Answer, Dict!Unchanged
<1> QED BY <1>2, <1>3 DEF kvs_rbtree_get

LEMMA ExistRefines ==
    ASSUME Mapped, DictOf(T', val') = val', NEW k \in Keys \cup {NULL}, kvs_rbtree_exist(k)
    PROVE  Dict!DictExist(k)
<1>1. up /\ DictOf(T, val) = val /\ Unchanged
  BY DEF kvs_rbtree_exist, Ready, Mapped
<1>2. CASE k = NULL
  <2>1. Return("ERROR")
    BY <1>2 DEF kvs_rbtree_exist
  <2> QED BY <1>1, <1>2, <2>1 DEF Return, Unchanged, Dict!DictExist, Dict!Answer, Dict!Unchanged
<1>3. CASE k # NULL
  <2>1. Return(IF Dict!Has(k) THEN "EXIST" ELSE "NO_EXIST")
    BY <1>3, HasKey DEF kvs_rbtree_exist
  <2> QED BY <1>1, <2>1 DEF Return, Unchanged, Dict!DictExist, Dict!Answer, Dict!Unchanged
<1> QED BY <1>2, <1>3

\* The deletion of an absent key ends the process.
LEMMA DelRefines ==
    ASSUME Mapped, DictOf(T', val') = val', NEW k \in Keys \cup {NULL}, kvs_rbtree_del(k)
    PROVE  Dict!DictDel(k) \/ Dict!DictCrash
<1>1. up /\ DictOf(T, val) = val
  BY DEF kvs_rbtree_del, Ready, Mapped
<1>2. CASE k = NULL /\ Return("ERROR") /\ Unchanged
  BY <1>1, <1>2 DEF Return, Unchanged, Dict!DictDel, Dict!Answer, Dict!Unchanged
<1>3. CASE Dies /\ Unchanged
  BY <1>1, <1>3 DEF Dies, Unchanged, Dict!DictCrash
<1>4. CASE /\ k # NULL /\ rbtree_search(T, k) # nil
           /\ val' = [val EXCEPT ![k] = NULL] /\ Return("OK")
  <2>1. Dict!Has(k)
    BY <1>4, HasKey
  <2> QED BY <1>1, <1>4, <2>1, FreesOnce DEF Return, Dict!DictDel, Dict!Answer
<1> QED BY <1>2, <1>3, <1>4 DEF kvs_rbtree_del

\* A round of a loop changes nothing of the map; free() may end the process.
LEMMA FixupRefines ==
    ASSUME Mapped, DictOf(T', val') = val', Plain, up \/ pc = "idle", Fixup
    PROVE  Dict!DictCrash \/ UNCHANGED Dict!dictVars
<1>1. DictOf(T, val) = val /\ up \in BOOLEAN
  BY DEF Mapped, Plain
<1>2. CASE rbtree_insert_fixup
  BY <1>1, <1>2 DEF rbtree_insert_fixup, Dict!dictVars
<1>3. CASE rbtree_delete_fixup
  BY <1>1, <1>3 DEF rbtree_delete_fixup, Dict!dictVars
<1>4. CASE FreeNode
  <2>1. up /\ up' \in BOOLEAN /\ UNCHANGED <<val, resp>>
    BY <1>4 DEF FreeNode
  <2>2. up = TRUE
    BY <1>1, <2>1
  <2>3. CASE up' = FALSE
    BY <1>1, <2>1, <2>3 DEF Dict!DictCrash
  <2>4. CASE up' = TRUE
    BY <1>1, <2>1, <2>2, <2>4 DEF Dict!dictVars
  <2> QED BY <2>1, <2>3, <2>4
<1> QED BY <1>2, <1>3, <1>4 DEF Fixup

LEMMA CreateRefines ==
    ASSUME Mapped, DictOf(T', val') = val', kvs_rbtree_create
    PROVE  Dict!DictRestart
BY DEF kvs_rbtree_create, Dict!DictRestart, Dict!Empty

LEMMA InitRefines == Init => Dict!DictInit
<1> SUFFICES ASSUME Init PROVE Dict!DictInit
  OBVIOUS
<1>1. PICK U, H : Plain /\ Inv(U, H)
  BY InitIInv, IInvPlain
<1>2. DictOf(T, val) = val
  BY <1>1, InvMapped DEF Mapped
<1> QED BY <1>2 DEF Init, Dict!DictInit, Dict!Empty

LEMMA StepRefines == IInv /\ IInv' /\ [Next]_vars => [Dict!DictNext]_(Dict!dictVars)
<1> SUFFICES ASSUME IInv, IInv', [Next]_vars PROVE [Dict!DictNext]_(Dict!dictVars)
  OBVIOUS
<1>1. PICK U, H : Plain /\ Inv(U, H)
  BY IInvPlain
<1>2. Mapped /\ (up \/ pc = "idle")
  BY <1>1, InvMapped DEF Inv
<1>3. DictOf(T', val') = val'
  <2>1. Plain' /\ \E V, G : Inv(V, G)'
    BY DEF IInv, TypeOK, Plain
  <2> QED BY <2>1, InvMappedNext
<1>4. ASSUME NEW k \in Keys \cup {NULL}, NEW v \in Values \cup {NULL},
             kvs_rbtree_set(k, v) \/ kvs_rbtree_mod(k, v)
      PROVE  Dict!DictNext
  BY <1>2, <1>3, <1>4, SetRefines, ModRefines DEF Dict!DictNext
<1>5. ASSUME NEW k \in Keys \cup {NULL},
             kvs_rbtree_get(k) \/ kvs_rbtree_del(k) \/ kvs_rbtree_exist(k)
      PROVE  Dict!DictNext
  BY <1>2, <1>3, <1>5, GetRefines, DelRefines, ExistRefines DEF Dict!DictNext
<1>6. CASE Fixup
  BY <1>1, <1>2, <1>3, <1>6, FixupRefines DEF Dict!DictNext
<1>7. CASE kvs_rbtree_create
  BY <1>2, <1>3, <1>7, CreateRefines DEF Dict!DictNext
<1>8. CASE UNCHANGED vars
  BY <1>8 DEF vars, Dict!dictVars
<1> QED BY <1>4, <1>5, <1>6, <1>7, <1>8 DEF Next

-----------------------------------------------------------------------------
\* The properties.

\* Every variable of the tree engine keeps its type, for any keys and values.
THEOREM TypeCorrect == Spec => []TypeOK
<1>1. IInv => TypeOK
  BY DEF IInv
<1> QED BY <1>1, AlwaysIInv, PTL

\* Before and after every round of the loops and every operation the tree is a
\* search tree whose child and parent links agree, for any set of keys: the
\* rotations, the linking and the exchange of keys lose no node and misplace
\* none (kvs_rbtree.c:40-83, 133-178, 251-299).
THEOREM OrderKept == Spec => []SearchTree
BY IInvSearchTree, AlwaysIInv, PTL

\* All ways down from a node meet the same number of black nodes and no red node
\* has a red child, but for the node a loop is at; so every operation leaves a
\* red-black tree, however many keys there are (kvs_rbtree.c:85-249).
THEOREM ColoursKept == Spec => []ColourRules
BY IInvColourRules, AlwaysIInv, PTL

\* The tree implements the map of KvsDict, whatever the shape of the tree and
\* whichever allocation fails: an answer of get, mod, del and exist is the one
\* the map gives, and the loops change nothing of it (kvs_rbtree.c:476-551).
THEOREM TreeIsDict == Spec => ImplementsDict
BY AlwaysIInv, InitRefines, StepRefines, PTL DEF Spec, ImplementsDict, Dict!DictSpec

=============================================================================
