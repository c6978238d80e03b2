------------------------------ MODULE DTPProofs ------------------------------
(***************************************************************************)
(* The pruner's algebra, for every tree and histogram: the path products   *)
(* are defined, never rise along a branch, and the order the nodes are     *)
(* selected in is transitive and puts a parent before its child.  Hence    *)
(* the first L nodes are a subtree, which invalidate_paths relies on, and  *)
(* they are L at most.                                                     *)
(***************************************************************************)
EXTENDS DTP, SumProofs

-----------------------------------------------------------------------------
(* The path products.                                                      *)

\* One step of the recursion in Scores.
Body(hist, kp, pp, granularity, score, q) ==
  LET p == Rate(hist, Key(granularity, q, kp))
  IN  IF q[1] = 0 THEN p ELSE Times(score[pp[q]], p)

\* A recursive function is the solution of its equation, if there is one.
LEMMA ScoresUnfold ==
  ASSUME NEW nodes, NEW hist, NEW kp, NEW pp, NEW granularity,
         \E g : g = [q \in Positions(nodes) |-> Body(hist, kp, pp, granularity, g, q)]
  PROVE  Scores(nodes, hist, kp, pp, granularity) =
           [q \in Positions(nodes) |->
              Body(hist, kp, pp, granularity, Scores(nodes, hist, kp, pp, granularity), q)]
BY DEF Scores, Body

\* A rate or a product of rates.
Fraction == Nat \X (Nat \ {0})

\* Products of fractions are fractions.
LEMMA TimesFraction ==
  ASSUME NEW a \in Fraction, NEW b \in Fraction
  PROVE  Times(a, b) \in Fraction
<1>1. a[1] \in Nat /\ b[1] \in Nat /\ a[2] \in Nat \ {0} /\ b[2] \in Nat \ {0}
  BY DEF Fraction
<1>2. \A x, y \in Nat : x * y \in Nat
  OBVIOUS
<1>3. \A x, y \in Nat \ {0} : x * y \in Nat \ {0}
  OBVIOUS
<1>. QED  BY <1>1, <1>2, <1>3 DEF Times, Fraction

\* Parents come before their children, in some order of at most m places, and
\* every rate is a fraction of at most 1.
Ordered(nodes, pp, rank, m) ==
  /\ m \in Nat /\ rank \in [Positions(nodes) -> 0..m]
  /\ \A q \in Positions(nodes) :
       q[1] # 0 => pp[q] \in Positions(nodes) /\ rank[pp[q]] < rank[q]

Rated(nodes, hist, kp, granularity) ==
  \A q \in Positions(nodes) :
    LET p == Rate(hist, Key(granularity, q, kp)) IN p \in Fraction /\ p[1] <= p[2]

\* The path products are defined for every node: built up along the order.
LEMMA ScoresDefined ==
  ASSUME NEW nodes, NEW hist, NEW kp, NEW pp, NEW granularity, NEW rank, NEW m,
         Ordered(nodes, pp, rank, m), Rated(nodes, hist, kp, granularity)
  PROVE  LET score == Scores(nodes, hist, kp, pp, granularity)
         IN  /\ score \in [Positions(nodes) -> Fraction]
             /\ \A q \in Positions(nodes) :
                  score[q] = Body(hist, kp, pp, granularity, score, q)
<1>. DEFINE P == Positions(nodes)
            B(g, q) == Body(hist, kp, pp, granularity, g, q)
            Upto(g, n) == \A q \in P : rank[q] < n => g[q] = B(g, q)
            T == {n \in Nat : \E g \in [P -> Fraction] : Upto(g, n)}
<1>1. /\ m \in Nat /\ rank \in [P -> 0..m]
      /\ \A q \in P : q[1] # 0 => pp[q] \in P /\ rank[pp[q]] < rank[q]
  BY DEF Ordered
<1>2. ASSUME NEW g \in [P -> Fraction], NEW q \in P PROVE B(g, q) \in Fraction
  <2>1. Rate(hist, Key(granularity, q, kp)) \in Fraction
    BY DEF Rated
  <2>2. q[1] # 0 => g[pp[q]] \in Fraction
    BY <1>1
  <2>. QED  BY <2>1, <2>2, TimesFraction DEF Body
<1>3. ASSUME NEW g, NEW h, NEW q \in P, \A r \in P : rank[r] < rank[q] => g[r] = h[r]
      PROVE  B(g, q) = B(h, q)
  <2>1. q[1] # 0 => g[pp[q]] = h[pp[q]]
    BY <1>1, <1>3
  <2>. QED  BY <2>1 DEF Body
<1>. HIDE DEF B, P
<1>4. 0 \in T
  <2>1. [q \in P |-> <<1, 1>>] \in [P -> Fraction]
    BY DEF Fraction
  <2>2. \A q \in P : ~(rank[q] < 0)
    BY <1>1
  <2>. QED  BY <2>1, <2>2
<1>5. ASSUME NEW n \in Nat, n \in T PROVE n + 1 \in T
  <2>1. PICK g \in [P -> Fraction] : Upto(g, n)
    BY <1>5
  <2>. DEFINE h == [q \in P |-> IF rank[q] < n THEN g[q] ELSE B(g, q)]
  <2>2. h \in [P -> Fraction]
    BY <1>2
  <2>3. ASSUME NEW q \in P, rank[q] < n + 1 PROVE h[q] = B(h, q)
    <3>1. \A r \in P : rank[r] < rank[q] => rank[r] < n
      BY <1>1, <2>3
    <3>2. \A r \in P : rank[r] < rank[q] => g[r] = h[r]
      BY <3>1
    <3>3. B(g, q) = B(h, q)
      <4>. HIDE DEF h
      <4>. QED  BY <1>3, <3>2
    <3>4. h[q] = B(g, q)
      BY <2>1
    <3>. QED  BY <3>3, <3>4
  <2>. HIDE DEF h
  <2>. QED  BY <2>2, <2>3
<1>6. m + 1 \in T
  <2>. HIDE DEF T
  <2>. QED  BY <1>1, <1>4, <1>5, Induction
<1>7. PICK g \in [P -> Fraction] : Upto(g, m + 1)
  BY <1>6
<1>8. \A q \in P : rank[q] < m + 1
  BY <1>1
<1>9. g = [q \in P |-> B(g, q)]
  BY <1>7, <1>8
<1>. DEFINE score == Scores(nodes, hist, kp, pp, granularity)
<1>10. score = [q \in P |-> B(score, q)]
  BY <1>9, ScoresUnfold DEF P, B
<1>. HIDE DEF score
<1>11. \A n \in Nat : \A q \in P : rank[q] < n => score[q] \in Fraction
  <2>. DEFINE S == {n \in Nat : \A q \in P : rank[q] < n => score[q] \in Fraction}
  <2>1. 0 \in S
    BY <1>1
  <2>2. ASSUME NEW n \in Nat, n \in S PROVE n + 1 \in S
    <3>. SUFFICES ASSUME NEW q \in P, rank[q] < n + 1 PROVE score[q] \in Fraction
      OBVIOUS
    <3>. DEFINE f == [r \in P |-> IF rank[r] < rank[q] THEN score[r] ELSE <<1, 1>>]
    <3>1. \A r \in P : rank[r] < rank[q] => rank[r] < n
      BY <1>1
    <3>2. f \in [P -> Fraction]
      BY <2>2, <3>1 DEF Fraction
    <3>3. \A r \in P : rank[r] < rank[q] => f[r] = score[r]
      OBVIOUS
    <3>. HIDE DEF f
    <3>4. B(f, q) = B(score, q)
      BY <1>3, <3>3
    <3>5. score[q] = B(score, q)
      BY <1>10
    <3>. QED  BY <1>2, <3>2, <3>4, <3>5
  <2>. HIDE DEF S
  <2>3. Nat \subseteq S
    BY <2>1, <2>2, Induction
  <2>. QED  BY <2>3 DEF S
<1>12. \A q \in P : score[q] \in Fraction
  BY <1>1, <1>8, <1>11
<1>13. score \in [P -> Fraction] /\ \A q \in P : score[q] = B(score, q)
  BY <1>10, <1>12
<1>. QED  BY <1>13 DEF P, B, score

-----------------------------------------------------------------------------
(* The order of selection.                                                 *)

\* Comparison by cross-multiplication is a strict weak order.
LEMMA HigherOrder ==
  ASSUME NEW a \in Fraction, NEW b \in Fraction, NEW c \in Fraction
  PROVE  /\ Higher(a, b) => ~Higher(b, a)
         /\ ~Higher(a, b) /\ ~Higher(b, c) => ~Higher(a, c)
<1>1. a[1] \in Nat /\ b[1] \in Nat /\ c[1] \in Nat
  BY DEF Fraction
<1>2. a[2] \in Nat \ {0} /\ b[2] \in Nat \ {0} /\ c[2] \in Nat \ {0}
  BY DEF Fraction
<1>3. ASSUME NEW x \in Nat, NEW y \in Nat, NEW z \in Nat, x <= y PROVE x * z <= y * z
  BY <1>3
<1>4. ASSUME NEW x \in Nat, NEW y \in Nat, NEW z \in Nat \ {0}, x * z <= y * z
      PROVE x <= y
  BY <1>4
<1>5. \A x, y \in Nat : x * y \in Nat
  OBVIOUS
<1>6. ASSUME ~Higher(a, b), ~Higher(b, c) PROVE ~Higher(a, c)
  <2>. DEFINE a1 == a[1]  a2 == a[2]  b1 == b[1]  b2 == b[2]  c1 == c[1]  c2 == c[2]
  <2>0. a1 \in Nat /\ b1 \in Nat /\ c1 \in Nat
        /\ a2 \in Nat \ {0} /\ b2 \in Nat \ {0} /\ c2 \in Nat \ {0}
    BY <1>1, <1>2
  <2>1. a1 * b2 <= b1 * a2 /\ b1 * c2 <= c1 * b2
    BY <1>6, <2>0 DEF Higher
  <2>. HIDE DEF a1, a2, b1, b2, c1, c2
  <2>2. (a1 * b2) * c2 <= (b1 * a2) * c2 /\ (b1 * c2) * a2 <= (c1 * b2) * a2
    BY <1>3, <1>5, <2>0, <2>1
  <2>3. /\ (a1 * b2) * c2 = (a1 * c2) * b2 /\ (b1 * a2) * c2 = (b1 * c2) * a2
        /\ (c1 * b2) * a2 = (c1 * a2) * b2
    BY <2>0
  <2>4. (a1 * c2) * b2 <= (c1 * a2) * b2
    BY <1>5, <2>0, <2>2, <2>3
  <2>5. a1 * c2 <= c1 * a2
    BY <1>4, <1>5, <2>0, <2>4
  <2>6. ~(a1 * c2 > c1 * a2)
    BY <1>5, <2>0, <2>5
  <2>. QED  BY <2>6 DEF Higher, a1, a2, c1, c2
<1>. QED  BY <1>1, <1>2, <1>5, <1>6 DEF Higher

\* The tie-break is transitive.
LEMMA ShallowerOrder ==
  ASSUME NEW q \in Nat \X Nat, NEW r \in Nat \X Nat, NEW s \in Nat \X Nat,
         Shallower(q, r), Shallower(r, s)
  PROVE  Shallower(q, s)
BY DEF Shallower

\* What is sorted before a node's forerunner is sorted before the node.
LEMMA ByScoreOrder ==
  ASSUME NEW P \in SUBSET (Nat \X Nat), NEW score \in [P -> Fraction],
         NEW q \in P, NEW r \in P, NEW s \in P,
         ByScore(score, q, r), ByScore(score, r, s)
  PROVE  ByScore(score, q, s)
<1>1. score[q] \in Fraction /\ score[r] \in Fraction /\ score[s] \in Fraction
  OBVIOUS
<1>2. ~Higher(score[r], score[q]) /\ ~Higher(score[s], score[r])
  BY <1>1, HigherOrder DEF ByScore
<1>3. ~Higher(score[s], score[q])
  BY <1>1, <1>2, HigherOrder
<1>4. CASE Higher(score[q], score[s])
  BY <1>4 DEF ByScore
<1>5. CASE ~Higher(score[q], score[s])
  <2>1. ~Higher(score[q], score[r])
    BY <1>1, <1>2, <1>5, HigherOrder
  <2>2. ~Higher(score[r], score[s])
    BY <1>1, <1>2, <1>5, HigherOrder
  <2>3. Shallower(q, r) /\ Shallower(r, s)
    BY <2>1, <2>2 DEF ByScore
  <2>4. q \in Nat \X Nat /\ r \in Nat \X Nat /\ s \in Nat \X Nat
    OBVIOUS
  <2>. QED  BY <1>3, <2>3, <2>4, ShallowerOrder DEF ByScore
<1>. QED  BY <1>4, <1>5

\* A path product does not rise from a node to its child.
LEMMA ScoreFalls ==
  ASSUME NEW a \in Fraction, NEW p \in Fraction, p[1] <= p[2]
  PROVE  ~Higher(Times(a, p), a)
<1>. DEFINE a1 == a[1]  a2 == a[2]  p1 == p[1]  p2 == p[2]
<1>0. a1 \in Nat /\ p1 \in Nat /\ a2 \in Nat /\ p2 \in Nat /\ p1 <= p2
  BY DEF Fraction
<1>1. Times(a, p)[1] = a1 * p1 /\ Times(a, p)[2] = a2 * p2
  BY DEF Times
<1>. HIDE DEF a1, a2, p1, p2
<1>2. \A x, y \in Nat : x * y \in Nat
  OBVIOUS
<1>3. ASSUME NEW x \in Nat, NEW y \in Nat, NEW z \in Nat, x <= y PROVE x * z <= y * z
  BY <1>3
<1>4. p1 * (a1 * a2) <= p2 * (a1 * a2)
  BY <1>0, <1>2, <1>3
<1>5. (a1 * p1) * a2 = p1 * (a1 * a2) /\ a1 * (a2 * p2) = p2 * (a1 * a2)
  BY <1>0
<1>6. ~((a1 * p1) * a2 > a1 * (a2 * p2))
  BY <1>0, <1>2, <1>4, <1>5
<1>. QED  BY <1>1, <1>6 DEF Higher, a1, a2

-----------------------------------------------------------------------------
(* The selection is a subtree.                                             *)

\* A tree as the drivers and the collector hand it over: finitely many typed
\* positions, a parent one level up, accepted nodes under accepted parents.
Treelike(nodes, pp) ==
  /\ IsFiniteSet(Positions(nodes)) /\ Positions(nodes) \subseteq Nat \X Nat
  /\ \A q \in Positions(nodes) :
       /\ NodeOf(nodes, q).accepted \in BOOLEAN
       /\ q[1] # 0 => /\ pp[q] \in Positions(nodes) /\ pp[q][1] < q[1]
                      /\ NodeOf(nodes, q).accepted => NodeOf(nodes, pp[q]).accepted

\* Whatever the histogram has learnt, and however many nodes are kept, every
\* selection of dtp.py keeps a node only together with its parent.
THEOREM SelectionIsSubtree ==
  ASSUME NEW nodes, NEW t, NEW L \in Nat,
         NEW selection \in {"greedy_headk", "greedy_node", "first_l", "full", "oracle"},
         NEW hist, NEW kp, NEW pp, NEW rank, NEW m,
         Treelike(nodes, pp), Ordered(nodes, pp, rank, m),
         Rated(nodes, hist, kp, Granularity(selection))
  PROVE  LET kept == SelectKept(nodes, t, L, selection, hist, kp, pp)
         IN  /\ kept \subseteq Positions(nodes)
             /\ \A q \in kept : q[1] # 0 => pp[q] \in kept
<1>. DEFINE P == Positions(nodes)
            score == Scores(nodes, hist, kp, pp, Granularity(selection))
            Acc(q) == NodeOf(nodes, q).accepted
            AcceptedFirst(q, r) ==
              (Acc(q) /\ ~Acc(r)) \/ (Acc(q) = Acc(r) /\ Shallower(q, r))
            kept == SelectKept(nodes, t, L, selection, hist, kp, pp)
<1>1. /\ IsFiniteSet(P) /\ P \in SUBSET (Nat \X Nat)
      /\ \A q \in P : /\ Acc(q) \in BOOLEAN
                      /\ q[1] # 0 => /\ pp[q] \in P /\ pp[q][1] < q[1]
                                     /\ Acc(q) => Acc(pp[q])
  BY DEF Treelike
<1>2. \A A, C \in SUBSET P : A \subseteq C /\ Cardinality(C) < L => Cardinality(A) < L
  <2>. SUFFICES ASSUME NEW A \in SUBSET P, NEW C \in SUBSET P, A \subseteq C,
                       Cardinality(C) < L
                PROVE  Cardinality(A) < L
    OBVIOUS
  <2>1. IsFiniteSet(C)
    BY <1>1, FS_Subset
  <2>2. IsFiniteSet(A) /\ Cardinality(A) <= Cardinality(C)
    BY <2>1, FS_Subset
  <2>3. Cardinality(A) \in Nat /\ Cardinality(C) \in Nat
    BY <2>1, <2>2, FS_CardinalityType
  <2>. QED  BY <2>2, <2>3
<1>3. /\ score \in [P -> Fraction]
      /\ \A q \in P : score[q] = Body(hist, kp, pp, Granularity(selection), score, q)
  BY ScoresDefined
<1>4. ASSUME NEW q \in P, q[1] # 0 PROVE ByScore(score, pp[q], q)
  <2>. DEFINE p == Rate(hist, Key(Granularity(selection), q, kp))
  <2>1. p \in Fraction /\ p[1] <= p[2]
    BY DEF Rated
  <2>2. score[q] = Times(score[pp[q]], p) /\ score[pp[q]] \in Fraction
    BY <1>1, <1>3, <1>4 DEF Body
  <2>3. ~Higher(score[q], score[pp[q]])
    <3>. HIDE DEF p, score
    <3>. QED  BY <2>1, <2>2, ScoreFalls
  <2>. QED  BY <1>1, <1>4, <2>3 DEF ByScore, Shallower
<1>. HIDE DEF P, score, Acc
<1>5. ASSUME NEW q \in P, q[1] # 0
      PROVE  /\ {r \in P : Shallower(r, pp[q])} \subseteq {r \in P : Shallower(r, q)}
             /\ {r \in P : AcceptedFirst(r, pp[q])} \subseteq {r \in P : AcceptedFirst(r, q)}
             /\ {r \in P : ByScore(score, r, pp[q])} \subseteq {r \in P : ByScore(score, r, q)}
  <2>1. pp[q] \in P /\ Shallower(pp[q], q)
    BY <1>1, <1>5 DEF Shallower
  <2>2. ASSUME NEW r \in P, Shallower(r, pp[q]) PROVE Shallower(r, q)
    <3>1. r \in Nat \X Nat /\ pp[q] \in Nat \X Nat /\ q \in Nat \X Nat
      BY <1>1, <2>1
    <3>. QED  BY <2>1, <2>2, <3>1, ShallowerOrder
  <2>3. ASSUME NEW r \in P, AcceptedFirst(r, pp[q]) PROVE AcceptedFirst(r, q)
    BY <1>1, <1>5, <2>1, <2>2, <2>3
  <2>4. ASSUME NEW r \in P, ByScore(score, r, pp[q]) PROVE ByScore(score, r, q)
    BY <1>1, <1>3, <1>4, <1>5, <2>1, <2>4, ByScoreOrder
  <2>. QED  BY <2>2, <2>3, <2>4
<1>6. /\ t = 0 \/ selection = "full" => kept = P
      /\ ~(t = 0 \/ selection = "full") =>
           /\ selection = "first_l" =>
                kept = {q \in P : Cardinality({r \in P : Shallower(r, q)}) < L}
           /\ selection = "oracle" =>
                kept = {q \in P : Cardinality({r \in P : AcceptedFirst(r, q)}) < L}
           /\ selection \notin {"first_l", "oracle"} =>
                kept = {q \in P : Cardinality({r \in P : ByScore(score, r, q)}) < L}
  BY DEF SelectKept, TopL, P, score, Acc
<1>. HIDE DEF kept, AcceptedFirst
<1>7. kept \subseteq P
  BY <1>6
<1>8. ASSUME NEW q \in kept, q[1] # 0 PROVE pp[q] \in kept
  <2>0. q \in P /\ pp[q] \in P
    BY <1>1, <1>7, <1>8
  <2>1. CASE t = 0 \/ selection = "full"
    BY <1>6, <2>0, <2>1
  <2>2. CASE ~(t = 0 \/ selection = "full") /\ selection = "first_l"
    <3>1. Cardinality({r \in P : Shallower(r, q)}) < L
      BY <1>6, <2>2
    <3>2. Cardinality({r \in P : Shallower(r, pp[q])}) < L
      BY <1>2, <1>5, <1>8, <2>0, <3>1
    <3>. QED  BY <1>6, <2>0, <2>2, <3>2
  <2>3. CASE ~(t = 0 \/ selection = "full") /\ selection = "oracle"
    <3>1. Cardinality({r \in P : AcceptedFirst(r, q)}) < L
      BY <1>6, <2>3
    <3>2. Cardinality({r \in P : AcceptedFirst(r, pp[q])}) < L
      BY <1>2, <1>5, <1>8, <2>0, <3>1
    <3>. QED  BY <1>6, <2>0, <2>3, <3>2
  <2>4. CASE ~(t = 0 \/ selection = "full") /\ selection \notin {"first_l", "oracle"}
    <3>1. Cardinality({r \in P : ByScore(score, r, q)}) < L
      BY <1>6, <2>4
    <3>2. Cardinality({r \in P : ByScore(score, r, pp[q])}) < L
      BY <1>2, <1>5, <1>8, <2>0, <3>1
    <3>. QED  BY <1>6, <2>0, <2>4, <3>2
  <2>. QED  BY <2>1, <2>2, <2>3, <2>4
<1>. QED  BY <1>7, <1>8 DEF P, kept

-----------------------------------------------------------------------------
(* Histograms.                                                             *)

\* No key was accepted more often than it was reached.
CountsTyped(h) ==
  \A key \in DOMAIN h : h[key].acc \in Nat /\ h[key].reach \in Nat
                          /\ h[key].acc <= h[key].reach

\* Every rate read from such a histogram is a fraction of at most one.
LEMMA CountsRated ==
  ASSUME NEW h, CountsTyped(h), NEW nodes, NEW kp, NEW granularity
  PROVE  Rated(nodes, h, kp, granularity)
<1>. SUFFICES ASSUME NEW q \in Positions(nodes)
              PROVE  LET p == Rate(h, Key(granularity, q, kp))
                     IN  p \in Fraction /\ p[1] <= p[2]
  BY DEF Rated
<1>. DEFINE c == Count(h, Key(granularity, q, kp))
<1>1. c.acc \in Nat /\ c.reach \in Nat /\ c.acc <= c.reach
  BY DEF CountsTyped, Count
<1>. HIDE DEF c
<1>2. Rate(h, Key(granularity, q, kp)) = IF c.reach = 0 THEN <<1, 1>> ELSE <<c.acc, c.reach>>
  BY DEF Rate, c
<1>. QED  BY <1>1, <1>2 DEF Fraction

\* Folding a step in keeps it one.
LEMMA UpdateTyped ==
  ASSUME NEW h, CountsTyped(h), NEW nodes, IsFiniteSet(DOMAIN nodes),
         NEW kp, NEW pp, NEW granularity
  PROVE  CountsTyped(Update(h, nodes, kp, pp, granularity))
<1>. DEFINE seen == Reachable(nodes, pp)
            Of(key) == {i \in seen : Key(granularity, Pos(nodes[i]), kp) = key}
            Hit(key) == {i \in Of(key) : nodes[i].accepted}
            keys == {Key(granularity, Pos(nodes[i]), kp) : i \in seen}
            new(key) == [acc |-> Count(h, key).acc + Cardinality(Hit(key)),
                         reach |-> Count(h, key).reach + Cardinality(Of(key))]
<1>1. ASSUME NEW key
      PROVE  /\ Cardinality(Of(key)) \in Nat /\ Cardinality(Hit(key)) \in Nat
             /\ Cardinality(Hit(key)) <= Cardinality(Of(key))
  <2>1. Of(key) \subseteq DOMAIN nodes /\ Hit(key) \subseteq Of(key)
    BY DEF Reachable
  <2>2. IsFiniteSet(Of(key))
    BY <2>1, FS_Subset
  <2>. QED  BY <2>1, <2>2, FS_Subset, FS_CardinalityType
<1>2. ASSUME NEW key
      PROVE  /\ Count(h, key).acc \in Nat /\ Count(h, key).reach \in Nat
             /\ Count(h, key).acc <= Count(h, key).reach
  BY DEF CountsTyped, Count
<1>3. Update(h, nodes, kp, pp, granularity) = [key \in DOMAIN h \cup keys |-> new(key)]
  BY DEF Update
<1>4. ASSUME NEW key
      PROVE  new(key).acc \in Nat /\ new(key).reach \in Nat /\ new(key).acc <= new(key).reach
  <2>. HIDE DEF Of, Hit
  <2>. QED  BY <1>1, <1>2
<1>. HIDE DEF new, keys
<1>. QED  BY <1>3, <1>4 DEF CountsTyped

-----------------------------------------------------------------------------
(* How much is kept.                                                       *)

\* The order is a strict total one, so no two positions have equally many
\* before them, and at most L of them have fewer than L.
LEMMA SelectionBounded ==
  ASSUME NEW P \in SUBSET (Nat \X Nat), IsFiniteSet(P), NEW score \in [P -> Fraction],
         NEW L \in Nat,
         NEW K, K = {q \in P : Cardinality({r \in P : ByScore(score, r, q)}) < L}
  PROVE  IsFiniteSet(K) /\ Cardinality(K) <= L
<1>. DEFINE Fore(q) == {r \in P : ByScore(score, r, q)}
            f == [q \in K |-> Cardinality(Fore(q))]
            T == 0..(L - 1)
<1>1. \A q \in P : ~ByScore(score, q, q)
  BY HigherOrder DEF ByScore, Shallower
<1>2. ASSUME NEW q \in P PROVE IsFiniteSet(Fore(q)) /\ Cardinality(Fore(q)) \in Nat
  <2>1. Fore(q) \subseteq P
    OBVIOUS
  <2>. HIDE DEF Fore
  <2>. QED  BY <2>1, FS_Subset, FS_CardinalityType
<1>3. ASSUME NEW q \in P, NEW r \in P, q # r PROVE ByScore(score, q, r) \/ ByScore(score, r, q)
  BY <1>3 DEF ByScore, Shallower
<1>4. ASSUME NEW q \in P, NEW r \in P, ByScore(score, q, r)
      PROVE  Cardinality(Fore(q)) < Cardinality(Fore(r))
  <2>1. Fore(q) \subseteq Fore(r)
    BY <1>4, ByScoreOrder
  <2>2. q \in Fore(r) /\ q \notin Fore(q)
    BY <1>1, <1>4
  <2>. HIDE DEF Fore
  <2>3. Fore(q) # Fore(r)
    BY <2>2
  <2>4. Cardinality(Fore(q)) <= Cardinality(Fore(r)) /\ Cardinality(Fore(q)) # Cardinality(Fore(r))
    BY <1>2, <2>1, <2>3, FS_Subset
  <2>. QED  BY <1>2, <2>4
<1>5. IsFiniteSet(K)
  <2>1. K \subseteq P
    OBVIOUS
  <2>. QED  BY <2>1, FS_Subset
<1>6. IsFiniteSet(T) /\ Cardinality(T) = L
  <2>1. 0 \in Int /\ L - 1 \in Int
    OBVIOUS
  <2>. QED  BY <2>1, FS_Interval
<1>7. \A q \in K : q \in P /\ Cardinality(Fore(q)) < L
  OBVIOUS
<1>. HIDE DEF Fore
<1>8. f \in [K -> T]
  BY <1>2, <1>7
<1>9. \A q, r \in K : f[q] = f[r] => q = r
  <2>1. \A q \in P : Cardinality(Fore(q)) \in Nat
    BY <1>2
  <2>2. \A q, r \in K : q # r => f[q] < f[r] \/ f[r] < f[q]
    BY <1>3, <1>4, <1>7
  <2>. QED  BY <1>7, <2>1, <2>2
<1>. HIDE DEF f, T
<1>10. Cardinality(K) \in Nat /\ ~(Cardinality(T) < Cardinality(K))
  BY <1>5, <1>6, <1>8, <1>9, FS_PigeonHole, FS_CardinalityType
<1>. QED  BY <1>5, <1>6, <1>10
=============================================================================
