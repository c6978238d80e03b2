---------------------------- MODULE MedusaProofs ----------------------------
(***************************************************************************)
(* The LP-Spec collection, for every static tree, prompt set, target,      *)
(* heads, selection and keep-count.                                        *)
(*                                                                         *)
(* First the steps: the histogram is the recount of the recorded steps, a  *)
(* step is selected from the steps before it alone, the gate is a subtree  *)
(* and the shared buffer holds exactly the recorded one while it is read,  *)
(* and everything is put back at the end.                                  *)
(*                                                                         *)
(* Then the text, which the collection never changes: MedusaCollector      *)
(* implements Greedy, provided the target never chooses the token a        *)
(* negative index of the candidates reads, and a step may be taken at all. *)
(* The shared buffer still leads along paths of the static tree, however   *)
(* it was cut (RowsSound).  An accepted prefix holds real nodes, whose     *)
(* tokens are the target's choices one after the other, so what the text   *)
(* gains and what the cache keeps are the same greedy tokens.              *)
(*                                                                         *)
(* Last the trace: the steps of every delivered prompt tile its text and   *)
(* spell it (TileInv).  While a prompt is decoded its steps tell its text  *)
(* so far; between the verdict and the commit the last one is ahead of the *)
(* text, and says what the text is about to become (Ahead).                *)
(***************************************************************************)
EXTENDS MedusaCollector, DTPProofs, SequenceTheorems

Facts == INSTANCE GreedyProofs WITH gen <- Generated, delivered <- prompt_outputs

-----------------------------------------------------------------------------
(* The static tree.                                                        *)

\* A static row starts at the root, and a node on it has the row up to it as its path.
LEMMA RowTyped ==
  ASSUME NEW r \in 1..Len(Tree.rows)
  PROVE  /\ Tree.rows[r] \in Seq((0..Tree.n) \cup {Pad}) /\ Len(Tree.rows[r]) \in Nat
         /\ Len(Tree.rows[r]) >= 1 /\ Tree.rows[r][1] = 0
         /\ \A j \in 1..Len(Tree.rows[r]) :
              /\ Tree.rows[r][j] \in (0..Tree.n) \cup {Pad}
              /\ Tree.rows[r][j] # Pad =>
                   Tree.path[Tree.rows[r][j]] = SubSeq(Tree.rows[r], 1, j)
<1>. DEFINE S == Seq((0..Tree.n) \cup {Pad})
            row == Tree.rows[r]
<1>1. Tree.rows \in Seq(S)
  BY TreeAssumption
<1>2. row \in S
  <2>. HIDE DEF S
  <2>. QED  BY <1>1, ElementOfSeq
<1>3. Len(row) \in Nat /\ \A j \in 1..Len(row) : row[j] \in (0..Tree.n) \cup {Pad}
  <2>. HIDE DEF row
  <2>. QED  BY <1>2, ElementOfSeq, LenProperties
<1>. QED  BY <1>2, <1>3, TreeAssumption

\* A node stands in some row, and its path is that row up to it.
LEMMA NodeInRow ==
  ASSUME NEW v \in 1..Tree.n
  PROVE  \E r \in 1..Len(Tree.rows) : \E j \in 2..Len(Tree.rows[r]) :
           /\ Tree.rows[r][j] = v /\ Tree.path[v] = SubSeq(Tree.rows[r], 1, j)
           /\ Tree.rows[r] \in Seq((0..Tree.n) \cup {Pad}) /\ Tree.rows[r][1] = 0
<1>1. v \in NodesOf(Tree.rows)
  BY MedusaAssumption
<1>2. PICK r \in 1..Len(Tree.rows) : \E j \in 1..Len(Tree.rows[r]) : Tree.rows[r][j] = v
  BY <1>1 DEF NodesOf
<1>3. PICK j \in 1..Len(Tree.rows[r]) : Tree.rows[r][j] = v
  BY <1>2
<1>4. /\ Tree.rows[r] \in Seq((0..Tree.n) \cup {Pad}) /\ Tree.rows[r][1] = 0
      /\ Tree.rows[r][j] # Pad => Tree.path[Tree.rows[r][j]] = SubSeq(Tree.rows[r], 1, j)
  BY RowTyped
<1>5. j # 1 /\ v # Pad
  BY <1>3, <1>4 DEF Pad
<1>. QED  BY <1>3, <1>4, <1>5

\* Along a row, the parent of a node is the entry before it.
LEMMA RowParent ==
  ASSUME NEW r \in 1..Len(Tree.rows), NEW j \in 2..Len(Tree.rows[r]),
         Tree.rows[r][j] # Pad
  PROVE  /\ Tree.rows[r][j] \in 1..Tree.n
         /\ ParentOf(Tree.rows[r][j]) = Tree.rows[r][j - 1]
         /\ Tree.rows[r][j - 1] \in 0..Tree.n
         /\ Depth(Tree.rows[r][j]) = j - 2
<1>. DEFINE row == Tree.rows[r]
            v == row[j]
<1>1. /\ row \in Seq((0..Tree.n) \cup {Pad}) /\ row[1] = 0
      /\ Tree.path[v] = SubSeq(row, 1, j)
      /\ Tree.path \in [0..Tree.n -> Seq(0..Tree.n)] /\ Tree.path[0] = <<0>>
      /\ Len(row) \in Nat /\ j \in 1..Len(row) /\ j >= 2
  BY RowTyped, TreeAssumption
<1>2. v \in 0..Tree.n
  BY <1>1, RowTyped
<1>3. Len(Tree.path[v]) = j /\ \A i \in 1..j : Tree.path[v][i] = row[i]
  <2>. HIDE DEF row, v
  <2>. QED  BY <1>1
<1>4. v # 0
  <2>1. Len(<<0>>) = 1
    OBVIOUS
  <2>. HIDE DEF row, v
  <2>. QED  BY <1>1, <1>3, <2>1
<1>5. Tree.path[v] \in Seq(0..Tree.n) /\ j - 1 \in 1..Len(Tree.path[v])
  <2>. HIDE DEF row, v
  <2>1. Tree.path[v] \in Seq(0..Tree.n)
    BY <1>1, <1>2
  <2>2. j \in Nat /\ j - 1 \in 1..j
    BY <1>1
  <2>. QED  BY <1>3, <2>1, <2>2
<1>6. Tree.path[v][j - 1] \in 0..Tree.n
  BY <1>5, ElementOfSeq
<1>7. ParentOf(v) = Tree.path[v][j - 1] /\ Depth(v) = j - 2
  BY <1>3 DEF ParentOf, Depth
<1>. QED  BY <1>2, <1>3, <1>4, <1>6, <1>7

\* A parent comes before its child, one level up; the root's children are the
\* nodes of depth 0.
LEMMA ParentShape ==
  ASSUME NEW v \in 1..Tree.n
  PROVE  /\ Depth(v) \in Nat
         /\ ParentOf(v) \in 0..Tree.n /\ ParentOf(v) < v
         /\ ParentOf(v) = 0 <=> Depth(v) = 0
         /\ ParentOf(v) # 0 =>
              ParentOf(v) \in 1..Tree.n /\ Depth(ParentOf(v)) = Depth(v) - 1
<1>0. PICK r \in 1..Len(Tree.rows) : \E j \in 2..Len(Tree.rows[r]) :
           /\ Tree.rows[r][j] = v /\ Tree.path[v] = SubSeq(Tree.rows[r], 1, j)
           /\ Tree.rows[r] \in Seq((0..Tree.n) \cup {Pad}) /\ Tree.rows[r][1] = 0
  BY NodeInRow
<1>1. PICK j \in 2..Len(Tree.rows[r]) :
           /\ Tree.rows[r][j] = v /\ Tree.path[v] = SubSeq(Tree.rows[r], 1, j)
           /\ Tree.rows[r] \in Seq((0..Tree.n) \cup {Pad}) /\ Tree.rows[r][1] = 0
  BY <1>0
<1>. DEFINE row == Tree.rows[r]
            p == row[j - 1]
<1>2. Len(row) \in Nat /\ v # Pad
  BY <1>1, RowTyped DEF Pad
<1>3. ParentOf(v) = p /\ p \in 0..Tree.n /\ Depth(v) = j - 2
  BY <1>1, <1>2, RowParent
<1>4. Len(Tree.path[v]) = j /\ Tree.path[v][j] = v /\ Tree.path[v][j - 1] = p
  <2>. HIDE DEF row, p
  <2>. QED  BY <1>1 DEF row, p
<1>5. p < v
  <2>1. Tree.path[v][j - 1] < Tree.path[v][j]
    <3>1. j \in 2..Len(Tree.path[v])
      BY <1>4
    <3>. QED  BY <3>1, TreeAssumption
  <2>. QED  BY <1>4, <2>1
<1>6. j = 2 => p = 0
  BY <1>1
<1>7. j # 2 => p # 0 /\ Depth(p) = j - 3
  <2>. SUFFICES ASSUME j # 2 PROVE p # 0 /\ Depth(p) = j - 3
    OBVIOUS
  <2>1. p # Pad /\ j - 1 \in 2..Len(row)
    BY <1>2, <1>3 DEF Pad
  <2>2. p \in 1..Tree.n /\ Depth(p) = (j - 1) - 2
    BY <2>1, RowParent
  <2>. QED  BY <2>2
<1>. HIDE DEF p
<1>. QED  BY <1>1, <1>3, <1>5, <1>6, <1>7

\* A node's identity across steps.
At(v) == <<Depth(v), LayerIdx(v)>>

\* No two nodes have the same position.
LEMMA AtInjective ==
  ASSUME NEW u \in 1..Tree.n, NEW v \in 1..Tree.n
  PROVE  At(u) \in Nat \X Nat /\ (At(u) = At(v) => u = v)
<1>. DEFINE Below(w) == {x \in 1..Tree.n : x < w /\ Depth(x) = Depth(w)}
<1>1. Tree.n \in Nat /\ IsFiniteSet(1..Tree.n)
  BY MedusaAssumption, FS_Interval
<1>2. \A w \in 1..Tree.n : IsFiniteSet(Below(w)) /\ Cardinality(Below(w)) \in Nat
  <2>1. \A w \in 1..Tree.n : Below(w) \in SUBSET (1..Tree.n)
    OBVIOUS
  <2>2. \A w \in 1..Tree.n : IsFiniteSet(Below(w))
    BY <1>1, <2>1, FS_Subset
  <2>. QED  BY <2>2, FS_CardinalityType
<1>3. ASSUME NEW a \in 1..Tree.n, NEW b \in 1..Tree.n, a < b, Depth(a) = Depth(b)
      PROVE  Cardinality(Below(a)) # Cardinality(Below(b))
  <2>1. Below(a) \in SUBSET Below(b) /\ a \in Below(b) /\ a \notin Below(a)
    BY <1>1, <1>3
  <2>2. Below(a) # Below(b)
    BY <2>1
  <2>. HIDE DEF Below
  <2>. QED  BY <1>2, <2>1, <2>2, FS_Subset
<1>4. LayerIdx(u) = Cardinality(Below(u)) /\ LayerIdx(v) = Cardinality(Below(v))
  BY DEF LayerIdx
<1>5. Depth(u) \in Nat
  BY ParentShape
<1>. HIDE DEF Below
<1>6. At(u) \in Nat \X Nat
  BY <1>2, <1>4, <1>5 DEF At
<1>7. ASSUME At(u) = At(v) PROVE u = v
  <2>1. Depth(u) = Depth(v) /\ Cardinality(Below(u)) = Cardinality(Below(v))
    BY <1>4, <1>7 DEF At
  <2>2. ~(u < v) /\ ~(v < u)
    BY <1>3, <2>1
  <2>3. u \in Int /\ v \in Int
    BY <1>1
  <2>. QED  BY <2>2, <2>3
<1>. QED  BY <1>6, <1>7

\* What the constructor records of a node: its place, depth and parent entry.
LEMMA StructNodes ==
  /\ DOMAIN StructStep = 1..Tree.n
  /\ \A v \in 1..Tree.n :
       /\ Pos(StructStep[v]) = At(v) /\ StructStep[v].accepted = FALSE
       /\ StructStep[v].depth = Depth(v) /\ StructStep[v].layer_idx = LayerIdx(v)
       /\ ParentOf(v) # 0 => StructStep[v].parent_idx = ParentOf(v) - 1
<1>1. \A v \in 1..Tree.n : ParentOf(v) # 0 => ParentOf(v) >= 1
  BY ParentShape
<1>. QED  BY <1>1 DEF StructStep, Node, Pos, At

\* The recorded places are the nodes of the tree, one entry each.
LEMMA StructPositions ==
  /\ Positions(StructStep) = {At(v) : v \in 1..Tree.n}
  /\ \A v \in 1..Tree.n : PosToIndex(At(v)) = v /\ NodeOf(StructStep, At(v)) = StructStep[v]
<1>1. Positions(StructStep) = {At(v) : v \in 1..Tree.n}
  BY StructNodes DEF Positions
<1>2. ASSUME NEW v \in 1..Tree.n PROVE PosToIndex(At(v)) = v
  <2>1. \A u \in 1..Tree.n : <<Depth(u), LayerIdx(u)>> = At(v) <=> u = v
    BY AtInjective DEF At
  <2>. QED  BY <2>1 DEF PosToIndex
<1>3. ASSUME NEW v \in 1..Tree.n PROVE NodeOf(StructStep, At(v)) = StructStep[v]
  <2>1. \A u \in DOMAIN StructStep : Pos(StructStep[u]) = At(v) <=> u = v
    BY AtInjective, StructNodes
  <2>2. v \in DOMAIN StructStep
    BY StructNodes
  <2>. QED  BY <2>1, <2>2 DEF NodeOf
<1>. QED  BY <1>1, <1>2, <1>3

\* The parent map is the one of the tree.
LEMMA StructParents ==
  ASSUME NEW v \in 1..Tree.n, Depth(v) # 0
  PROVE  Pp[At(v)] = At(ParentOf(v)) /\ ParentOf(v) \in 1..Tree.n
<1>1. ParentOf(v) \in 1..Tree.n /\ Depth(v) \in Nat
  BY ParentShape
<1>2. At(v) \in Positions(StructStep) /\ At(v)[1] > 0
  BY <1>1, StructPositions DEF At
<1>3. Pp[At(v)] = Pos(StructStep[NodeOf(StructStep, At(v)).parent_idx + 1])
  BY <1>2 DEF Pp, ParentPosMap
<1>4. NodeOf(StructStep, At(v)).parent_idx + 1 = ParentOf(v)
  BY <1>1, StructPositions, StructNodes
<1>. QED  BY <1>1, <1>3, <1>4, StructNodes

StructRank == [q \in Positions(StructStep) |-> PosToIndex(q)]

\* The static structure is a tree, and sorted choices put parents first.
LEMMA StructTree ==
  Treelike(StructStep, Pp) /\ Ordered(StructStep, Pp, StructRank, Tree.n)
<1>. DEFINE P == Positions(StructStep)
<1>1. Tree.n \in Nat /\ IsFiniteSet(1..Tree.n)
  BY MedusaAssumption, FS_Interval
<1>2. P = {At(v) : v \in 1..Tree.n}
  BY StructPositions
<1>3. IsFiniteSet(P)
  <2>. DEFINE f == [v \in 1..Tree.n |-> At(v)]
  <2>1. f \in Surjection(1..Tree.n, P)
    BY <1>2 DEF Surjection
  <2>. HIDE DEF f, P
  <2>. QED  BY <1>1, <2>1, FS_Surjection
<1>4. P \subseteq Nat \X Nat
  BY <1>2, AtInjective
<1>5. ASSUME NEW q \in P
      PROVE  /\ NodeOf(StructStep, q).accepted = FALSE
             /\ StructRank[q] \in 1..Tree.n
             /\ q[1] # 0 => /\ Pp[q] \in P /\ Pp[q][1] < q[1]
                            /\ StructRank[Pp[q]] < StructRank[q]
  <2>1. PICK v \in 1..Tree.n : q = At(v)
    BY <1>2
  <2>2. NodeOf(StructStep, q).accepted = FALSE
    BY <2>1, StructPositions, StructNodes
  <2>3. StructRank[q] = v
    BY <2>1, StructPositions DEF StructRank
  <2>4. ASSUME q[1] # 0
        PROVE  Pp[q] \in P /\ Pp[q][1] < q[1] /\ StructRank[Pp[q]] < StructRank[q]
    <3>1. Depth(v) # 0
      BY <2>1, <2>4 DEF At
    <3>2. Pp[q] = At(ParentOf(v)) /\ ParentOf(v) \in 1..Tree.n
      BY <2>1, <3>1, StructParents
    <3>3. Depth(ParentOf(v)) < Depth(v) /\ ParentOf(v) < v
      BY <3>1, ParentShape
    <3>4. Pp[q] \in P /\ StructRank[Pp[q]] = ParentOf(v)
      BY <1>2, <3>2, StructPositions DEF StructRank
    <3>. QED  BY <2>1, <2>3, <3>2, <3>3, <3>4 DEF At
  <2>. QED  BY <2>2, <2>3, <2>4
<1>6. StructRank \in [P -> 0..Tree.n]
  <2>1. \A q \in P : StructRank[q] \in 1..Tree.n
    BY <1>5
  <2>2. StructRank = [q \in P |-> StructRank[q]]
    BY DEF StructRank
  <2>3. 1..Tree.n \subseteq 0..Tree.n
    BY <1>1
  <2>. HIDE DEF StructRank, P
  <2>. QED  BY <2>1, <2>2, <2>3
<1>. HIDE DEF P, StructRank
<1>. QED  BY <1>1, <1>3, <1>4, <1>5, <1>6 DEF Treelike, Ordered, P

\* The nodes selected with a histogram, as indices.
Kept(i, h) == {PosToIndex(q) : q \in Selected(i, h)}

\* The selection is a subtree of the static tree.
LEMMA KeptIsSubtree ==
  ASSUME NEW h, CountsTyped(h), NEW i, knobs \in Knobs
  PROVE  /\ Kept(i, h) \subseteq 1..Tree.n
         /\ \A v \in Kept(i, h) : ParentOf(v) # 0 => ParentOf(v) \in Kept(i, h)
         /\ Selected(i, h) = {At(v) : v \in Kept(i, h)}
<1>1. /\ knobs.L \in Nat
      /\ knobs.selection \in {"greedy_headk", "greedy_node", "first_l", "full", "oracle"}
  BY MedusaAssumption
<1>2. /\ Selected(i, h) \subseteq Positions(StructStep)
      /\ \A q \in Selected(i, h) : q[1] # 0 => Pp[q] \in Selected(i, h)
  BY <1>1, StructTree, CountsRated, SelectionIsSubtree DEF Selected
<1>3. \A q \in Selected(i, h) : PosToIndex(q) \in 1..Tree.n /\ At(PosToIndex(q)) = q
  BY <1>2, StructPositions
<1>4. \A v \in Kept(i, h) : v \in 1..Tree.n /\ At(v) \in Selected(i, h)
  BY <1>3 DEF Kept
<1>5. \A v \in 1..Tree.n : At(v) \in Selected(i, h) => v \in Kept(i, h)
  BY StructPositions DEF Kept
<1>6. ASSUME NEW v \in Kept(i, h), ParentOf(v) # 0 PROVE ParentOf(v) \in Kept(i, h)
  <2>1. v \in 1..Tree.n /\ At(v) \in Selected(i, h)
    BY <1>4
  <2>2. Depth(v) # 0 /\ At(v)[1] # 0
    BY <1>6, <2>1, ParentShape DEF At
  <2>3. Pp[At(v)] = At(ParentOf(v)) /\ ParentOf(v) \in 1..Tree.n
    BY <2>1, <2>2, StructParents
  <2>. QED  BY <1>2, <1>5, <2>1, <2>2, <2>3
<1>7. Selected(i, h) = {At(v) : v \in Kept(i, h)}
  BY <1>3, <1>4 DEF Kept
<1>. QED  BY <1>4, <1>6, <1>7

-----------------------------------------------------------------------------
(* Counting: one more step is one more update.                             *)

\* What verification of a step got to under a key.
Seen(nodes, key) ==
  {k \in DOMAIN nodes :
     LET q == Pos(nodes[k])
     IN  /\ Key(Gran, q, Kp) = key
         /\ q[1] > 0 => \E j \in DOMAIN nodes :
              nodes[j].accepted /\ Pos(nodes[j]) = Pp[q]}

Pairs(ss, key) == UNION {{<<i, k>> : k \in Seen(ss[i].nodes, key)} : i \in DOMAIN ss}

Hits(ss, key) == {p \in Pairs(ss, key) : ss[p[1]].nodes[p[2]].accepted}

\* Recorded nodes: at most the static tree's, at its positions.
NodesGood(nodes) ==
  \E m \in 0..Tree.n :
    /\ DOMAIN nodes = 1..m
    /\ \A k \in 1..m : Pos(nodes[k]) \in Positions(StructStep) /\ nodes[k].accepted \in BOOLEAN

StepsGood(ss) ==
  /\ \E S : ss \in Seq(S)
  /\ \A i \in 1..Len(ss) : NodesGood(ss[i].nodes)

\* A tally counts the recorded nodes with that key, and the accepted among them.
LEMMA TallyPairs ==
  ASSUME NEW ss, NEW key
  PROVE  Tally(ss, key) =
           [acc |-> Cardinality(Hits(ss, key)), reach |-> Cardinality(Pairs(ss, key))]
BY DEF Tally, Hits, Pairs, Seen

\* One step shows a key a finite number of times.
LEMMA SeenFinite ==
  ASSUME NEW nodes, NodesGood(nodes), NEW key
  PROVE  Seen(nodes, key) \subseteq 1..Tree.n /\ IsFiniteSet(Seen(nodes, key))
<1>1. Tree.n \in Nat /\ IsFiniteSet(1..Tree.n)
  BY MedusaAssumption, FS_Interval
<1>2. Seen(nodes, key) \subseteq 1..Tree.n
  BY <1>1 DEF NodesGood, Seen
<1>. QED  BY <1>1, <1>2, FS_Subset

\* So do all steps together, and no more are accepted than were reachable.
LEMMA PairsFinite ==
  ASSUME NEW ss, StepsGood(ss), NEW key
  PROVE  /\ Pairs(ss, key) \subseteq (1..Len(ss)) \X (1..Tree.n)
         /\ IsFiniteSet(Pairs(ss, key)) /\ IsFiniteSet(Hits(ss, key))
         /\ Cardinality(Pairs(ss, key)) \in Nat /\ Cardinality(Hits(ss, key)) \in Nat
         /\ Cardinality(Hits(ss, key)) <= Cardinality(Pairs(ss, key))
<1>1. DOMAIN ss = 1..Len(ss) /\ Len(ss) \in Nat /\ Tree.n \in Nat
  BY MedusaAssumption DEF StepsGood
<1>2. IsFiniteSet(1..Len(ss)) /\ IsFiniteSet(1..Tree.n)
  BY <1>1, FS_Interval
<1>3. IsFiniteSet((1..Len(ss)) \X (1..Tree.n))
  BY <1>2, FS_Product
<1>4. Pairs(ss, key) \subseteq (1..Len(ss)) \X (1..Tree.n)
  <2>1. \A i \in 1..Len(ss) : Seen(ss[i].nodes, key) \subseteq 1..Tree.n
    BY SeenFinite DEF StepsGood
  <2>. QED  BY <1>1, <2>1 DEF Pairs
<1>5. IsFiniteSet(Pairs(ss, key))
  BY <1>3, <1>4, FS_Subset
<1>6. Hits(ss, key) \in SUBSET Pairs(ss, key)
  BY DEF Hits
<1>7. IsFiniteSet(Hits(ss, key)) /\ Cardinality(Hits(ss, key)) <= Cardinality(Pairs(ss, key))
  BY <1>5, <1>6, FS_Subset
<1>. QED  BY <1>4, <1>5, <1>7, FS_CardinalityType

Tagged(n, Q) == {<<n, k>> : k \in Q}

\* Pairs with a first component of their own are counted apart.
LEMMA FreshPairs ==
  ASSUME NEW A, IsFiniteSet(A), NEW Q, IsFiniteSet(Q), NEW n,
         \A p \in A : p[1] # n
  PROVE  Cardinality(A \cup Tagged(n, Q)) = Cardinality(A) + Cardinality(Q)
<1>. DEFINE B == Tagged(n, Q)
            f == [k \in Q |-> <<n, k>>]
<1>1. f \in Bijection(Q, B)
  BY DEF Bijection, Injection, IsInjective, Surjection, Tagged
<1>2. ExistsBijection(Q, B)
  BY <1>1 DEF ExistsBijection
<1>3. A \cap B = {}
  BY DEF Tagged
<1>. HIDE DEF B
<1>4. IsFiniteSet(B) /\ Cardinality(B) = Cardinality(Q)
  BY <1>2, FS_Bijection
<1>5. Cardinality(A \cup B) = Cardinality(A) + Cardinality(B) - Cardinality(A \cap B)
  BY <1>4, FS_Union
<1>6. Cardinality(A \cap B) = 0 /\ Cardinality(A) \in Nat /\ Cardinality(B) \in Nat
  BY <1>3, <1>4, FS_EmptySet, FS_CardinalityType
<1>. QED  BY <1>4, <1>5, <1>6 DEF B

\* One more step adds its own counts to the tally.
LEMMA TallyAppend ==
  ASSUME NEW ss, StepsGood(ss), NEW s, NodesGood(s.nodes), NEW key
  PROVE  /\ Tally(Append(ss, s), key) =
              [acc |-> Tally(ss, key).acc
                         + Cardinality({k \in Seen(s.nodes, key) : s.nodes[k].accepted}),
               reach |-> Tally(ss, key).reach + Cardinality(Seen(s.nodes, key))]
         /\ Tally(Append(ss, s), key).reach =
              Tally(ss, key).reach + Cardinality(Seen(s.nodes, key))
<1>. DEFINE n == Len(ss) + 1
            Q == Seen(s.nodes, key)
            R == {k \in Q : s.nodes[k].accepted}
            tt == Append(ss, s)
<1>1. DOMAIN ss = 1..Len(ss) /\ Len(ss) \in Nat
  BY DEF StepsGood
<1>2. DOMAIN tt = 1..n /\ tt[n] = s /\ \A i \in 1..Len(ss) : tt[i] = ss[i]
  BY DEF StepsGood
<1>3. IsFiniteSet(Q) /\ IsFiniteSet(R)
  <2>1. IsFiniteSet(Q) /\ R \in SUBSET Q
    BY SeenFinite
  <2>. QED  BY <2>1, FS_Subset
<1>4. /\ IsFiniteSet(Pairs(ss, key)) /\ IsFiniteSet(Hits(ss, key))
      /\ Pairs(ss, key) \subseteq (1..Len(ss)) \X (1..Tree.n)
      /\ Hits(ss, key) \subseteq Pairs(ss, key)
  BY PairsFinite DEF Hits
<1>. HIDE DEF Q, tt
<1>5. Pairs(tt, key) = Pairs(ss, key) \cup Tagged(n, Q)
  <2>1. 1..n = 1..Len(ss) \cup {n}
    BY <1>1
  <2>2. Pairs(tt, key) = UNION {{<<i, k>> : k \in Seen(tt[i].nodes, key)} : i \in 1..n}
    BY <1>2 DEF Pairs
  <2>3. Pairs(ss, key) = UNION {{<<i, k>> : k \in Seen(tt[i].nodes, key)} : i \in 1..Len(ss)}
    BY <1>1, <1>2 DEF Pairs
  <2>4. Seen(tt[n].nodes, key) = Q
    BY <1>2 DEF Q
  <2>. QED  BY <2>1, <2>2, <2>3, <2>4 DEF Tagged
<1>6. Hits(tt, key) = Hits(ss, key) \cup Tagged(n, R)
  <2>1. ASSUME NEW p \in Pairs(ss, key)
        PROVE  tt[p[1]].nodes[p[2]].accepted = ss[p[1]].nodes[p[2]].accepted
    BY <1>2, <1>4
  <2>2. \A k \in Q : tt[<<n, k>>[1]].nodes[<<n, k>>[2]].accepted = s.nodes[k].accepted
    BY <1>2
  <2>3. \A p : p \in Hits(tt, key) <=> p \in Pairs(tt, key) /\ tt[p[1]].nodes[p[2]].accepted
    BY DEF Hits
  <2>4. \A p : p \in Hits(ss, key) <=> p \in Pairs(ss, key) /\ ss[p[1]].nodes[p[2]].accepted
    BY DEF Hits
  <2>. QED  BY <1>5, <2>1, <2>2, <2>3, <2>4 DEF Tagged
<1>7. (\A p \in Pairs(ss, key) : p[1] # n) /\ (\A p \in Hits(ss, key) : p[1] # n)
  BY <1>1, <1>4
<1>. HIDE DEF R, n
<1>8. Cardinality(Pairs(tt, key)) = Cardinality(Pairs(ss, key)) + Cardinality(Q)
  <2>1. Cardinality(Pairs(ss, key) \cup Tagged(n, Q)) = Cardinality(Pairs(ss, key)) + Cardinality(Q)
    BY <1>3, <1>4, <1>7, FreshPairs
  <2>. QED  BY <1>5, <2>1
<1>9. Cardinality(Hits(tt, key)) = Cardinality(Hits(ss, key)) + Cardinality(R)
  <2>1. Cardinality(Hits(ss, key) \cup Tagged(n, R)) = Cardinality(Hits(ss, key)) + Cardinality(R)
    BY <1>3, <1>4, <1>7, FreshPairs
  <2>. QED  BY <1>6, <2>1
<1>. QED  BY <1>8, <1>9, TallyPairs DEF tt, Q, R

\* The keys a histogram of the tree may have.
Keys == {Key(Gran, q, Kp) : q \in Positions(StructStep)}

\* DTPHist.update is the recount: what it adds to the recount of the steps
\* before gives the recount of all.
LEMMA UpdateIsRecount ==
  ASSUME NEW ss, StepsGood(ss), NEW s, NodesGood(s.nodes)
  PROVE  HistOf(Append(ss, s)) = Update(HistOf(ss), s.nodes, Kp, Pp, Gran)
<1>. DEFINE h == HistOf(ss)
            nodes == s.nodes
            tt == Append(ss, s)
            seen == Reachable(nodes, Pp)
            Of(key) == {i \in seen : Key(Gran, Pos(nodes[i]), Kp) = key}
            new == {Key(Gran, Pos(nodes[i]), Kp) : i \in seen}
<1>1. \A i \in DOMAIN nodes : /\ Pos(nodes[i]) \in Positions(StructStep)
                              /\ nodes[i].depth \in Nat /\ Pos(nodes[i])[1] = nodes[i].depth
  <2>1. \A i \in DOMAIN nodes : Pos(nodes[i]) \in Positions(StructStep)
    BY DEF NodesGood
  <2>2. Positions(StructStep) \subseteq Nat \X Nat
    BY StructTree DEF Treelike
  <2>. QED  BY <2>1, <2>2 DEF Pos
<1>2. \A key : Of(key) = Seen(nodes, key)
  <2>. SUFFICES ASSUME NEW key, NEW i \in DOMAIN nodes
                PROVE  i \in Of(key) <=> i \in Seen(nodes, key)
    BY DEF Seen, Reachable
  <2>1. nodes[i].depth = 0 <=> ~(Pos(nodes[i])[1] > 0)
    BY <1>1
  <2>. QED  BY <2>1 DEF Seen, Reachable
<1>3. \A key : Tally(tt, key) =
        [acc |-> Tally(ss, key).acc + Cardinality({k \in Of(key) : nodes[k].accepted}),
         reach |-> Tally(ss, key).reach + Cardinality(Of(key))]
  <2>. SUFFICES ASSUME NEW key
                PROVE  Tally(tt, key) =
        [acc |-> Tally(ss, key).acc + Cardinality({k \in Of(key) : nodes[k].accepted}),
         reach |-> Tally(ss, key).reach + Cardinality(Of(key))]
    OBVIOUS
  <2>1. Of(key) = Seen(s.nodes, key)
    BY <1>2
  <2>. HIDE DEF Of
  <2>. QED  BY <2>1, TallyAppend
<1>r. ASSUME NEW key
      PROVE  Tally(tt, key).reach = Tally(ss, key).reach + Cardinality(Of(key))
  <2>1. Of(key) = Seen(s.nodes, key)
    BY <1>2
  <2>. HIDE DEF Of
  <2>. QED  BY <2>1, TallyAppend
<1>4. \A key : IsFiniteSet(Of(key)) /\ Cardinality(Of(key)) \in Nat
  BY <1>2, SeenFinite, FS_CardinalityType
<1>5. \A key : Tally(ss, key).acc \in Nat /\ Tally(ss, key).reach \in Nat
               /\ Tally(ss, key).acc <= Tally(ss, key).reach
  BY PairsFinite, TallyPairs
<1>6. /\ h = [key \in {k \in Keys : Tally(ss, k).reach > 0} |-> Tally(ss, key)]
      /\ HistOf(tt) = [key \in {k \in Keys : Tally(tt, k).reach > 0} |-> Tally(tt, key)]
  BY DEF HistOf, Keys
<1>7. Update(h, nodes, Kp, Pp, Gran) =
        [key \in DOMAIN h \cup new |->
           [acc |-> Count(h, key).acc + Cardinality({i \in Of(key) : nodes[i].accepted}),
            reach |-> Count(h, key).reach + Cardinality(Of(key))]]
  BY DEF Update
<1>8. new \subseteq Keys
  BY <1>1 DEF Keys, Reachable
<1>9. \A key : key \in new <=> Of(key) # {}
  OBVIOUS
<1>. HIDE DEF h, seen, Of, new, tt, Keys, nodes
<1>10. \A key : Cardinality(Of(key)) > 0 <=> key \in new
  BY <1>4, <1>9, FS_EmptySet
<1>11. \A key : Tally(tt, key).reach > 0 <=> Tally(ss, key).reach > 0 \/ key \in new
  <2>. SUFFICES ASSUME NEW key
                PROVE  Tally(tt, key).reach > 0 <=> Tally(ss, key).reach > 0 \/ key \in new
    OBVIOUS
  <2>1. Tally(tt, key).reach = Tally(ss, key).reach + Cardinality(Of(key))
    BY <1>r
  <2>2. Tally(ss, key).reach \in Nat /\ Cardinality(Of(key)) \in Nat
    BY <1>4, <1>5
  <2>. QED  BY <1>10, <2>1, <2>2
<1>12. {k \in Keys : Tally(tt, k).reach > 0} = DOMAIN h \cup new
  BY <1>6, <1>8, <1>11
<1>13. ASSUME NEW key \in Keys
       PROVE  Count(h, key).acc = Tally(ss, key).acc /\ Count(h, key).reach = Tally(ss, key).reach
  <2>1. CASE Tally(ss, key).reach > 0
    BY <1>6, <2>1 DEF Count
  <2>2. CASE ~(Tally(ss, key).reach > 0)
    BY <1>5, <1>6, <2>2 DEF Count
  <2>. QED  BY <2>1, <2>2
<1>14. DOMAIN h \subseteq Keys
  BY <1>6
<1>15. ASSUME NEW key \in DOMAIN h \cup new
       PROVE  Tally(tt, key) =
          [acc |-> Count(h, key).acc + Cardinality({i \in Of(key) : nodes[i].accepted}),
           reach |-> Count(h, key).reach + Cardinality(Of(key))]
  BY <1>3, <1>8, <1>13, <1>14
<1>16. HistOf(tt) = [key \in DOMAIN h \cup new |-> Tally(tt, key)]
  BY <1>6, <1>12
<1>17. HistOf(tt) = Update(h, nodes, Kp, Pp, Gran)
  BY <1>7, <1>15, <1>16
<1>. QED  BY <1>17 DEF h, nodes, tt

\* The recount of well-recorded steps is a typed histogram.
LEMMA HistOfTyped ==
  ASSUME NEW ss, StepsGood(ss)
  PROVE  CountsTyped(HistOf(ss))
BY PairsFinite, TallyPairs DEF CountsTyped, HistOf

\* Before the first step the recount is empty, as the histogram is.
LEMMA EmptyRecount == StepsGood(<<>>) /\ HistOf(<<>>) = EmptyHist
<1>1. StepsGood(<<>>)
  <2>1. <<>> \in Seq({})
    OBVIOUS
  <2>. QED  BY <2>1 DEF StepsGood
<1>2. \A key : Tally(<<>>, key).reach = 0
  <2>1. \A key : Pairs(<<>>, key) = {}
    BY DEF Pairs
  <2>. QED  BY <2>1, TallyPairs, FS_EmptySet
<1>3. {k \in Keys : Tally(<<>>, k).reach > 0} = {}
  BY <1>2
<1>4. HistOf(<<>>) = [key \in {k \in Keys : Tally(<<>>, k).reach > 0} |-> Tally(<<>>, key)]
  BY DEF HistOf, Keys
<1>. QED  BY <1>1, <1>3, <1>4 DEF EmptyHist

-----------------------------------------------------------------------------
(* What record_kept records.                                               *)

NodeAt(kept, k) == CHOOSE u \in kept : NewIndexOf(kept)[u] = k - 1

\* The subsets of the tree are finite, no larger than it.
LEMMA KeptFinite ==
  ASSUME NEW kept \in SUBSET (1..Tree.n)
  PROVE  /\ IsFiniteSet(kept) /\ Cardinality(kept) \in 0..Tree.n
         /\ \A T \in SUBSET kept :
              /\ IsFiniteSet(T) /\ Cardinality(T) \in Nat
              /\ T # kept => Cardinality(T) < Cardinality(kept)
<1>1. Tree.n \in Nat /\ IsFiniteSet(1..Tree.n) /\ Cardinality(1..Tree.n) = Tree.n
  <2>. DEFINE n == Tree.n
  <2>1. n \in Nat \ {0}
    BY MedusaAssumption
  <2>. HIDE DEF n
  <2>2. IsFiniteSet(1..n) /\ Cardinality(1..n) = IF 1 > n THEN 0 ELSE n - 1 + 1
    BY <2>1, FS_Interval
  <2>3. Cardinality(1..n) = n
    BY <2>1, <2>2
  <2>. QED  BY <2>1, <2>2, <2>3 DEF n
<1>2. IsFiniteSet(kept) /\ Cardinality(kept) <= Cardinality(1..Tree.n)
  BY <1>1, FS_Subset
<1>3. Cardinality(kept) \in Nat
  BY <1>2, FS_CardinalityType
<1>4. ASSUME NEW T \in SUBSET kept
      PROVE  /\ IsFiniteSet(T) /\ Cardinality(T) \in Nat
             /\ T # kept => Cardinality(T) < Cardinality(kept)
  <2>1. IsFiniteSet(T) /\ Cardinality(T) <= Cardinality(kept)
        /\ (Cardinality(kept) = Cardinality(T) => kept = T)
    BY <1>2, FS_Subset
  <2>2. Cardinality(T) \in Nat
    BY <2>1, FS_CardinalityType
  <2>. QED  BY <1>3, <2>1, <2>2
<1>. QED  BY <1>1, <1>2, <1>3, <1>4

\* Re-indexing keeps the order, so it is one-to-one, and it stays in range.
LEMMA IndexOrdered ==
  ASSUME NEW kept \in SUBSET (1..Tree.n)
  PROVE  /\ \A v \in kept : NewIndexOf(kept)[v] \in 0..(Cardinality(kept) - 1)
         /\ \A u, v \in kept : u < v => NewIndexOf(kept)[u] < NewIndexOf(kept)[v]
         /\ \A u, v \in kept : NewIndexOf(kept)[u] = NewIndexOf(kept)[v] => u = v
<1>. DEFINE Below(v) == {u \in kept : u < v}
            f == NewIndexOf(kept)
<1>1. \A v \in kept : f[v] = Cardinality(Below(v))
  BY DEF NewIndexOf
<1>2. \A v \in kept : v \in Int
  BY MedusaAssumption
<1>3. ASSUME NEW v \in kept PROVE f[v] \in 0..(Cardinality(kept) - 1)
  <2>1. Below(v) \in SUBSET kept /\ Below(v) # kept
    BY <1>2
  <2>2. Cardinality(Below(v)) \in Nat /\ Cardinality(Below(v)) < Cardinality(kept)
        /\ Cardinality(kept) \in Nat
    <3>. HIDE DEF Below
    <3>. QED  BY <2>1, KeptFinite, MedusaAssumption
  <2>. HIDE DEF f
  <2>. QED  BY <1>1, <2>2
<1>4. ASSUME NEW u \in kept, NEW v \in kept, u < v PROVE f[u] < f[v]
  <2>1. Below(u) \in SUBSET Below(v) /\ u \in Below(v) /\ u \notin Below(u)
    <3>1. ~(u < u) /\ \A w \in kept : w < u => w < v
      BY <1>2, <1>4
    <3>. QED  BY <1>4, <3>1
  <2>2. Below(u) # Below(v) /\ Below(v) \in SUBSET (1..Tree.n)
    BY <2>1
  <2>3. Cardinality(Below(u)) < Cardinality(Below(v))
    <3>. HIDE DEF Below
    <3>. QED  BY <2>1, <2>2, KeptFinite
  <2>. HIDE DEF f
  <2>. QED  BY <1>1, <2>3
<1>5. ASSUME NEW u \in kept, NEW v \in kept, f[u] = f[v] PROVE u = v
  <2>. HIDE DEF f
  <2>1. f[u] \in Int /\ u \in Int /\ v \in Int
    BY <1>2, <1>3
  <2>2. ~(u < v) /\ ~(v < u)
    BY <1>4, <1>5, <2>1
  <2>. QED  BY <2>1, <2>2
<1>. QED  BY <1>3, <1>4, <1>5

\* Every entry of the recorded list is some kept node's, and the other way round.
LEMMA NodeAtExists ==
  ASSUME NEW kept \in SUBSET (1..Tree.n)
  PROVE  /\ \A k \in 1..Cardinality(kept) :
              NodeAt(kept, k) \in kept /\ NewIndexOf(kept)[NodeAt(kept, k)] = k - 1
         /\ \A v \in kept :
              /\ NewIndexOf(kept)[v] + 1 \in 1..Cardinality(kept)
              /\ NodeAt(kept, NewIndexOf(kept)[v] + 1) = v
<1>. DEFINE T == 0..(Cardinality(kept) - 1)
            f == NewIndexOf(kept)
<1>1. /\ \A v \in kept : f[v] \in T
      /\ \A u, v \in kept : f[u] = f[v] => u = v
  BY IndexOrdered
<1>2. Cardinality(kept) \in Nat /\ IsFiniteSet(kept)
  BY KeptFinite, MedusaAssumption
<1>3. IsFiniteSet(T) /\ Cardinality(T) = Cardinality(kept)
  <2>1. 0 \in Int /\ Cardinality(kept) - 1 \in Int
    BY <1>2
  <2>2. /\ IsFiniteSet(0..(Cardinality(kept) - 1))
        /\ Cardinality(0..(Cardinality(kept) - 1)) =
             IF 0 > Cardinality(kept) - 1 THEN 0 ELSE Cardinality(kept) - 1 - 0 + 1
    BY <2>1, FS_Interval
  <2>. QED  BY <1>2, <2>2
<1>4. f \in [kept -> T]
  BY <1>1 DEF NewIndexOf
<1>5. f \in Injection(kept, T)
  <2>. HIDE DEF f, T
  <2>. QED  BY <1>1, <1>4 DEF Injection, IsInjective
<1>6. f \in Surjection(kept, T)
  <2>. HIDE DEF f, T
  <2>. QED  BY <1>3, <1>5, FS_Injection
<1>7. ASSUME NEW k \in 1..Cardinality(kept)
      PROVE  NodeAt(kept, k) \in kept /\ f[NodeAt(kept, k)] = k - 1
  <2>1. k - 1 \in T
    BY <1>2
  <2>2. \E v \in kept : f[v] = k - 1
    <3>. HIDE DEF f, T
    <3>. QED  BY <1>6, <2>1 DEF Surjection
  <2>. QED  BY <2>2 DEF NodeAt
<1>8. ASSUME NEW v \in kept
      PROVE  f[v] + 1 \in 1..Cardinality(kept) /\ NodeAt(kept, f[v] + 1) = v
  <2>1. f[v] \in T
    BY <1>1
  <2>. HIDE DEF f
  <2>2. f[v] + 1 \in 1..Cardinality(kept) /\ (f[v] + 1) - 1 = f[v]
    BY <1>2, <2>1
  <2>. QED  BY <1>1, <1>7, <2>2
<1>. QED  BY <1>7, <1>8

\* The entry of a kept node.
Entry(kept, table, v, flag) ==
  [depth |-> Depth(v), token_id |-> HeadToken(table, v),
   parent_idx |-> KeptParentIdx(kept, v), accepted |-> flag, layer_idx |-> LayerIdx(v)]

\* The recorded nodes, flagged somehow.
Flagged(nodes, kept, table) ==
  /\ DOMAIN nodes = 1..Cardinality(kept)
  /\ \A k \in 1..Cardinality(kept) :
       \E flag \in BOOLEAN : nodes[k] = Entry(kept, table, NodeAt(kept, k), flag)

\* record_kept makes one entry per kept node, none of them accepted yet.
LEMMA RecordEntries ==
  ASSUME NEW kept, NEW table
  PROVE  /\ DOMAIN RecordKept(kept, table) = 1..Cardinality(kept)
         /\ \A k \in 1..Cardinality(kept) :
              RecordKept(kept, table)[k] = Entry(kept, table, NodeAt(kept, k), FALSE)
         /\ Flagged(RecordKept(kept, table), kept, table)
<1>1. /\ DOMAIN RecordKept(kept, table) = 1..Cardinality(kept)
      /\ \A k \in 1..Cardinality(kept) :
           RecordKept(kept, table)[k] = Entry(kept, table, NodeAt(kept, k), FALSE)
  BY DEF RecordKept, Node, NodeAt, Entry
<1>. QED  BY <1>1 DEF Flagged

\* Flags do not move a step's nodes: they lie where the kept nodes do.
LEMMA FlaggedPositions ==
  ASSUME NEW kept \in SUBSET (1..Tree.n), NEW table, NEW nodes,
         Flagged(nodes, kept, table)
  PROVE  NodesGood(nodes) /\ Positions(nodes) = {At(v) : v \in kept}
<1>1. \A k \in 1..Cardinality(kept) :
        Pos(nodes[k]) = At(NodeAt(kept, k)) /\ nodes[k].accepted \in BOOLEAN
  BY DEF Flagged, Entry, Pos, At
<1>2. \A k \in 1..Cardinality(kept) : NodeAt(kept, k) \in kept
  BY NodeAtExists
<1>3. Positions(nodes) = {At(v) : v \in kept}
  <2>1. Positions(nodes) = {Pos(nodes[k]) : k \in 1..Cardinality(kept)}
    BY DEF Flagged, Positions
  <2>2. \A v \in kept : \E k \in 1..Cardinality(kept) : NodeAt(kept, k) = v
    BY NodeAtExists
  <2>. QED  BY <1>1, <1>2, <2>1, <2>2
<1>4. \A k \in 1..Cardinality(kept) : Pos(nodes[k]) \in Positions(StructStep)
  BY <1>1, <1>2, StructPositions
<1>5. Cardinality(kept) \in 0..Tree.n
  BY KeptFinite
<1>. QED  BY <1>1, <1>3, <1>4, <1>5 DEF NodesGood, Flagged

\* mark_accepted touches the flags alone.
LEMMA MarkFlagged ==
  ASSUME NEW kept, NEW table, NEW p, p.nodes = RecordKept(kept, table), NEW b, NEW a
  PROVE  Flagged(MarkAccepted(p, b, a), kept, table)
<1>1. /\ DOMAIN p.nodes = 1..Cardinality(kept)
      /\ \A k \in 1..Cardinality(kept) :
           p.nodes[k] = Entry(kept, table, NodeAt(kept, k), FALSE)
  BY RecordEntries
<1>2. DOMAIN MarkAccepted(p, b, a) = 1..Cardinality(kept)
  BY <1>1 DEF MarkAccepted
<1>3. ASSUME NEW k \in 1..Cardinality(kept)
      PROVE  \E flag \in BOOLEAN :
               MarkAccepted(p, b, a)[k] = Entry(kept, table, NodeAt(kept, k), flag)
  <2>. DEFINE flag == \E j \in 2..(a + 1) :
                /\ j <= Len(p.edited_rows[b])
                /\ LET v == p.edited_rows[b][j]
                   IN  v \in DOMAIN p.new_index_of /\ p.new_index_of[v] = k - 1
  <2>1. MarkAccepted(p, b, a)[k] = [p.nodes[k] EXCEPT !.accepted = flag]
    BY <1>1 DEF MarkAccepted
  <2>2. flag \in BOOLEAN
    OBVIOUS
  <2>. HIDE DEF flag
  <2>3. [p.nodes[k] EXCEPT !.accepted = flag] = Entry(kept, table, NodeAt(kept, k), flag)
    BY <1>1 DEF Entry
  <2>. QED  BY <2>1, <2>2, <2>3
<1>. QED  BY <1>2, <1>3 DEF Flagged

-----------------------------------------------------------------------------
(* The gate.                                                               *)

\* On a subtree invalidate_paths does not raise, and what the cut rows lead to
\* is that subtree.
LEMMA GateIsClosed ==
  ASSUME NEW kept \in SUBSET (1..Tree.n),
         \A v \in kept : ParentOf(v) # 0 => ParentOf(v) \in kept
  PROVE  /\ Closed(Tree.rows, kept)
         /\ NodesOf(InvalidatePaths(Tree.rows, kept)) = kept
<1>1. ASSUME NEW r \in 1..Len(Tree.rows), NEW j \in 1..Len(Tree.rows[r]),
             Survives(Tree.rows[r][j], kept)
      PROVE  AliveAfter(Tree.rows[r], kept, j)
  <2>. DEFINE row == Tree.rows[r]
              T == {d \in Nat : d < j => Survives(row[j - d], kept)}
  <2>0. Len(row) \in Nat /\ row[1] = 0 /\ j \in 1..Len(row)
    BY RowTyped
  <2>1. 0 \in T
    BY <1>1, <2>0
  <2>2. ASSUME NEW d \in Nat, d \in T PROVE d + 1 \in T
    <3>. SUFFICES ASSUME d + 1 < j PROVE Survives(row[j - (d + 1)], kept)
      OBVIOUS
    <3>. DEFINE i == j - d
    <3>1. i \in 2..Len(row) /\ j - (d + 1) = i - 1 /\ d < j
      BY <2>0
    <3>2. Survives(row[i], kept)
      BY <2>2, <3>1
    <3>3. /\ row[i] \in 1..Tree.n /\ ParentOf(row[i]) = row[i - 1]
          /\ row[i - 1] \in 0..Tree.n
      <4>1. row[i] # Pad
        BY <3>2 DEF Survives
      <4>. HIDE DEF i
      <4>. QED  BY <3>1, <4>1, RowParent
    <3>. HIDE DEF i, row
    <3>4. row[i] \in kept
      BY <3>2, <3>3 DEF Survives
    <3>5. row[i - 1] # 0 => row[i - 1] \in kept
      BY <3>3, <3>4
    <3>6. row[i - 1] # Pad
      BY <3>3 DEF Pad
    <3>. QED  BY <3>1, <3>5, <3>6 DEF Survives
  <2>. HIDE DEF T
  <2>3. Nat \subseteq T
    BY <2>1, <2>2, Induction
  <2>4. ASSUME NEW i \in 1..j PROVE Survives(row[i], kept)
    <3>1. j - i \in Nat /\ j - i < j /\ j - (j - i) = i
      BY <2>0
    <3>2. j - i \in T
      BY <2>3, <3>1
    <3>. QED  BY <3>1, <3>2 DEF T
  <2>. QED  BY <2>4 DEF AliveAfter
<1>2. Closed(Tree.rows, kept)
  BY <1>1 DEF Closed, RowClosed
<1>. DEFINE e == InvalidatePaths(Tree.rows, kept)
<1>3. Len(Tree.rows) \in Nat
  <2>1. Tree.rows \in Seq(Seq((0..Tree.n) \cup {Pad}))
    BY TreeAssumption
  <2>. QED  BY <2>1, LenProperties
<1>4. e = [r \in 1..Len(Tree.rows) |-> TruncatedRow(Tree.rows[r], kept)] /\ Len(e) = Len(Tree.rows)
  BY <1>3 DEF InvalidatePaths
<1>5. ASSUME NEW r \in 1..Len(Tree.rows)
      PROVE  /\ Len(e[r]) = Len(Tree.rows[r])
             /\ \A j \in 1..Len(Tree.rows[r]) :
                  e[r][j] = IF AliveAfter(Tree.rows[r], kept, j) THEN Tree.rows[r][j] ELSE Pad
  <2>1. Len(Tree.rows[r]) \in Nat
    BY RowTyped
  <2>2. e[r] = [j \in 1..Len(Tree.rows[r]) |->
                  IF AliveAfter(Tree.rows[r], kept, j) THEN Tree.rows[r][j] ELSE Pad]
    BY <1>4 DEF TruncatedRow
  <2>. HIDE DEF e
  <2>3. Len(e[r]) = Len(Tree.rows[r])
    <3>. DEFINE row == e[r]
    <3>1. row = [j \in 1..Len(Tree.rows[r]) |->
                  IF AliveAfter(Tree.rows[r], kept, j) THEN Tree.rows[r][j] ELSE Pad]
      BY <2>2
    <3>. HIDE DEF row
    <3>. QED  BY <2>1, <3>1 DEF row
  <2>4. ASSUME NEW j \in 1..Len(Tree.rows[r])
        PROVE  e[r][j] = IF AliveAfter(Tree.rows[r], kept, j) THEN Tree.rows[r][j] ELSE Pad
    BY <2>2
  <2>. QED  BY <2>3, <2>4
<1>. HIDE DEF e
<1>6. ASSUME NEW v \in NodesOf(e) PROVE v \in kept
  <2>0. PICK r \in 1..Len(e) : \E j \in 1..Len(e[r]) : e[r][j] = v /\ v \notin {0, Pad}
    BY DEF NodesOf
  <2>1. PICK j \in 1..Len(e[r]) : e[r][j] = v /\ v \notin {0, Pad}
    BY <2>0
  <2>2. AliveAfter(Tree.rows[r], kept, j) /\ Tree.rows[r][j] = v
    BY <1>4, <1>5, <2>1
  <2>3. j \in 1..j
    BY <1>4, <1>5, RowTyped
  <2>4. Survives(v, kept)
    BY <2>2, <2>3 DEF AliveAfter
  <2>. QED  BY <2>1, <2>4 DEF Survives
<1>7. ASSUME NEW v \in kept PROVE v \in NodesOf(e)
  <2>0. PICK r \in 1..Len(Tree.rows) : \E j \in 2..Len(Tree.rows[r]) : Tree.rows[r][j] = v
    BY NodeInRow
  <2>1. PICK j \in 2..Len(Tree.rows[r]) : Tree.rows[r][j] = v
    BY <2>0
  <2>2. j \in 1..Len(Tree.rows[r]) /\ v \in Int /\ v >= 1
    <3>1. Tree.n \in Nat
      BY MedusaAssumption
    <3>2. Len(Tree.rows[r]) \in Nat
      BY RowTyped
    <3>. QED  BY <2>1, <3>1, <3>2
  <2>3. Survives(v, kept)
    BY <2>2 DEF Survives, Pad
  <2>4. AliveAfter(Tree.rows[r], kept, j)
    BY <1>1, <2>1, <2>2, <2>3
  <2>5. r \in 1..Len(e) /\ j \in 1..Len(e[r]) /\ e[r][j] = v
    BY <1>4, <1>5, <2>1, <2>2, <2>4
  <2>. QED  BY <2>2, <2>5 DEF NodesOf, Pad
<1>8. NodesOf(e) = kept
  BY <1>6, <1>7
<1>. QED  BY <1>2, <1>8 DEF e

-----------------------------------------------------------------------------
(* The model is put back.                                                  *)

Inside == {"prompt", "candidates", "decode", "evaluate", "update", "output", "detach"}

\* One recording layer inside the run, none outside; the snapshot is the
\* static buffer, which only changes once the snapshot is taken.
HookInv ==
  /\ pc \in {"attach", "finish", "returned", "aborted"} \cup Inside
  /\ ready \in BOOLEAN
  /\ IF ready THEN pristine = Tree.rows ELSE buffer = Tree.rows
  /\ IF pc \in Inside THEN layers = 1 /\ saved = 0 ELSE layers = 0
  /\ Over \/ pc = "finish" => buffer = Tree.rows

\* The hooks are absent and the buffer untouched at the start.
LEMMA HookInvInit == Init => HookInv
BY DEF Init, HookInv, Inside, Over

\* attach, the wrapped calls, a raise and detach keep the hooks accounted for.
LEMMA HookInvNext == HookInv /\ [Next]_vars => HookInv'
<1>. SUFFICES ASSUME HookInv, [Next]_vars PROVE HookInv'
  OBVIOUS
<1>. USE DEF HookInv, Inside, Over
<1>1. CASE Attach
  BY <1>1 DEF Attach, static
<1>2. CASE Generate
  BY <1>2 DEF Generate, static
<1>3. CASE Candidates
  <2>1. PristineRows = Tree.rows
    BY DEF PristineRows
  <2>. QED  BY <1>3, <2>1 DEF Candidates
<1>4. CASE TreeDecoding
  BY <1>4 DEF TreeDecoding, static
<1>5. CASE Evaluate
  BY <1>5 DEF Evaluate, static
<1>6. CASE UpdateInputs
  BY <1>6 DEF UpdateInputs, static
<1>7. CASE Output
  BY <1>7 DEF Output, static
<1>8. CASE Raise
  BY <1>8 DEF Raise, static
<1>9. CASE Detach
  BY <1>9 DEF Detach, static, Restored
<1>10. CASE Return
  BY <1>10 DEF Return, static
<1>11. CASE Terminated \/ UNCHANGED vars
  BY <1>11 DEF Terminated, vars, static
<1>. QED  BY <1>1, <1>2, <1>3, <1>4, <1>5, <1>6, <1>7, <1>8, <1>9, <1>10, <1>11 DEF Next

\* After a collection, failed or not, the three functions are unwrapped and the
\* shared retrieve_indices are the static ones (collector.py's `finally`).
THEOREM PutBack == Spec => []NothingLeftBehind
<1>1. HookInv => NothingLeftBehind
  BY DEF HookInv, NothingLeftBehind, Over, Inside
<1>. QED  BY <1>1, HookInvInit, HookInvNext, PTL DEF Spec

-----------------------------------------------------------------------------
(* The record and what is learnt from it.                                  *)

\* CausalSelection of a given sequence of steps.
Causal(ss) ==
  \A i \in 1..Len(ss) :
    /\ ss[i].step_id = i - 1
    /\ Positions(ss[i].nodes) = Selected(i - 1, HistOf(SubSeq(ss, 1, i - 1)))

\* A step whose tree was selected from the steps before it keeps the record causal.
LEMMA CausalAppend ==
  ASSUME NEW ss, StepsGood(ss), Causal(ss), NEW s, NodesGood(s.nodes),
         s.step_id = Len(ss), Positions(s.nodes) = Selected(Len(ss), HistOf(ss))
  PROVE  /\ StepsGood(Append(ss, s)) /\ Causal(Append(ss, s))
         /\ Len(Append(ss, s)) = Len(ss) + 1
<1>. DEFINE n == Len(ss)
            tt == Append(ss, s)
<1>1. PICK S : ss \in Seq(S)
  BY DEF StepsGood
<1>2. /\ n \in Nat /\ Len(tt) = n + 1 /\ tt[n + 1] = s
      /\ \A i \in 1..n : tt[i] = ss[i]
  BY <1>1
<1>3. tt \in Seq(S \cup {s})
  <2>1. ss \in Seq(S \cup {s})
    BY <1>1, ElementOfSeq, LenProperties, SeqDef
  <2>. QED  BY <2>1
<1>4. \A i \in 1..(n + 1) : SubSeq(tt, 1, i - 1) = SubSeq(ss, 1, i - 1)
  <2>. SUFFICES ASSUME NEW i \in 1..(n + 1)
                PROVE  SubSeq(tt, 1, i - 1) = SubSeq(ss, 1, i - 1)
    OBVIOUS
  <2>1. i - 1 \in 0..n /\ \A j \in 1..(i - 1) : tt[j] = ss[j]
    BY <1>2
  <2>2. SubSeq(tt, 1, i - 1) = [j \in 1..(i - 1) |-> tt[j]]
    BY <1>2, <1>3, <2>1
  <2>3. SubSeq(ss, 1, i - 1) = [j \in 1..(i - 1) |-> ss[j]]
    BY <1>1, <1>2, <2>1
  <2>. QED  BY <2>1, <2>2, <2>3
<1>5. SubSeq(ss, 1, n) = ss
  BY <1>1
<1>. HIDE DEF tt
<1>6. StepsGood(tt)
  <2>1. \A i \in 1..Len(tt) : NodesGood(tt[i].nodes)
    <3>. SUFFICES ASSUME NEW i \in 1..(n + 1) PROVE NodesGood(tt[i].nodes)
      BY <1>2
    <3>1. i \in 1..n \/ i = n + 1
      BY <1>2
    <3>. QED  BY <1>2, <3>1 DEF StepsGood
  <2>. QED  BY <1>3, <2>1 DEF StepsGood
<1>7. Causal(tt)
  <2>. SUFFICES ASSUME NEW i \in 1..(n + 1)
                PROVE  /\ tt[i].step_id = i - 1
                       /\ Positions(tt[i].nodes) = Selected(i - 1, HistOf(SubSeq(tt, 1, i - 1)))
    BY <1>2 DEF Causal
  <2>1. CASE i \in 1..n
    BY <1>2, <1>4, <2>1 DEF Causal
  <2>2. CASE i = n + 1
    <3>1. i - 1 = n /\ tt[i] = s /\ SubSeq(tt, 1, i - 1) = ss
      BY <1>2, <1>4, <1>5, <2>2
    <3>. QED  BY <3>1
  <2>3. i \in 1..n \/ i = n + 1
    BY <1>2
  <2>. QED  BY <2>1, <2>2, <2>3
<1>. QED  BY <1>2, <1>6, <1>7 DEF tt

\* A collector that has recorded ss has learnt h and counts n steps.
Learnt(ss, h, n) ==
  knobs \in Knobs /\ StepsGood(ss) /\ Causal(ss) /\ h = HistOf(ss) /\ n = Len(ss)

\* What is learnt depends on no variable but the knobs.
LEMMA LearntStays ==
  ASSUME knobs' = knobs, NEW ss, NEW h, NEW n
  PROVE  Learnt(ss, h, n)' <=> Learnt(ss, h, n)
<1>1. \A x : HistOf(x)' = HistOf(x)
  BY DEF HistOf, Tally, Gran
<1>2. \A i, x : Selected(i, x)' = Selected(i, x)
  BY DEF Selected
<1>3. Causal(ss)' <=> Causal(ss)
  BY <1>1, <1>2 DEF Causal
<1>. QED  BY <1>1, <1>3 DEF Learnt

\* The tree in flight is the one selected from what was learnt so far, and the
\* shared buffer holds it.
InFlight ==
  /\ ready = TRUE
  /\ buffer = InvalidatePaths(Tree.rows, Kept(t, hist))
  /\ pending =
       [nodes |-> RecordKept(Kept(t, hist), heads),
        edited_rows |-> pending.edited_rows, new_index_of |-> pending.new_index_of,
        context_length |-> pending.context_length,
        sample_token_id |-> pending.sample_token_id]

RecordInv ==
  /\ Learnt(steps, hist, t)
  /\ pc \in {"decode", "evaluate"} => InFlight

\* Nothing is recorded at the start.
LEMMA RecordInvInit == Init => RecordInv
<1>. SUFFICES ASSUME Init PROVE RecordInv
  OBVIOUS
<1>1. steps = <<>> /\ hist = EmptyHist /\ t = 0 /\ knobs \in Knobs /\ pc = "attach"
  BY DEF Init
<1>2. Causal(<<>>) /\ Len(<<>>) = 0
  BY DEF Causal
<1>. QED  BY <1>1, <1>2, EmptyRecount DEF RecordInv, Learnt

\* Every callback keeps the record sound.
LEMMA RecordInvNext == HookInv /\ RecordInv /\ [Next]_vars => RecordInv'
<1>. SUFFICES ASSUME HookInv, RecordInv, [Next]_vars PROVE RecordInv'
  OBVIOUS
<1>0. ASSUME knobs' = knobs, steps' = steps, hist' = hist, t' = t
      PROVE  Learnt(steps, hist, t)'
  BY <1>0, LearntStays DEF RecordInv, Learnt
<1>k. ASSUME knobs' = knobs, hist' = hist, t' = t
      PROVE  Kept(t, hist)' = Kept(t, hist)
  BY <1>k DEF Kept, Selected
<1>1. CASE Attach
  BY <1>0, <1>1 DEF Attach, static, RecordInv
<1>2. CASE Generate
  BY <1>0, <1>2 DEF Generate, static, RecordInv, HistPersists
<1>3. CASE Candidates
  <2>1. PristineRows = Tree.rows
    BY DEF PristineRows, HookInv
  <2>2. \E table \in HeadTables :
          /\ buffer' = InvalidatePaths(Tree.rows, Kept(t, hist))
          /\ heads' = table
          /\ pending' = [nodes |-> RecordKept(Kept(t, hist), table),
                         edited_rows |-> EditedRows(Kept(t, hist)),
                         new_index_of |-> NewIndexOf(Kept(t, hist)),
                         context_length |-> 0, sample_token_id |-> root]
    BY <1>3, <2>1 DEF Candidates, EditedRows, Kept
  <2>3. ready' = TRUE /\ UNCHANGED <<knobs, hist, t, steps>>
    BY <1>3 DEF Candidates
  <2>4. Kept(t, hist)' = Kept(t, hist)
    BY <1>k, <2>3
  <2>5. InFlight'
    BY <2>2, <2>3, <2>4 DEF InFlight
  <2>. QED  BY <1>0, <2>3, <2>5 DEF RecordInv
<1>4. CASE TreeDecoding
  <2>1. UNCHANGED <<knobs, hist, t, steps, ready, buffer, heads>> /\ InFlight
    BY <1>4 DEF TreeDecoding, static, loop, RecordInv
  <2>2. pending' = pending \/ pending' = [pending EXCEPT !.context_length = ContextLength]
    BY <1>4 DEF TreeDecoding
  <2>3. Kept(t, hist)' = Kept(t, hist)
    BY <1>k, <2>1
  <2>4. InFlight'
    BY <2>1, <2>2, <2>3 DEF InFlight
  <2>. QED  BY <1>0, <2>1, <2>4 DEF RecordInv
<1>5. CASE Evaluate
  <2>0. InFlight /\ knobs' = knobs /\ pc' = "update"
    BY <1>5 DEF Evaluate, static, RecordInv
  <2>1. CASE pending = Nil
    BY <1>0, <1>5, <2>0, <2>1 DEF Evaluate, RecordInv
  <2>2. CASE pending # Nil
    <3>1. PICK b \in 1..Len(buffer), a \in 0..Tree.n :
            /\ steps' = Append(steps,
                 [step_id |-> t, prompt_id |-> pid - 1,
                  context_length |-> pending.context_length,
                  nodes |-> MarkAccepted(pending, b, a), accepted_length |-> a,
                  sample_token_id |-> pending.sample_token_id])
            /\ hist' = Fold(MarkAccepted(pending, b, a)) /\ t' = t + 1
      BY <1>5, <2>2 DEF Evaluate
    <3>. DEFINE nodes == MarkAccepted(pending, b, a)
                s == [step_id |-> t, prompt_id |-> pid - 1,
                      context_length |-> pending.context_length, nodes |-> nodes,
                      accepted_length |-> a,
                      sample_token_id |-> pending.sample_token_id]
                kept == Kept(t, hist)
    <3>2. /\ StepsGood(steps) /\ Causal(steps) /\ hist = HistOf(steps) /\ t = Len(steps)
          /\ knobs \in Knobs
      BY DEF RecordInv, Learnt
    <3>3. kept \in SUBSET (1..Tree.n) /\ Selected(t, hist) = {At(v) : v \in kept}
      BY <3>2, HistOfTyped, KeptIsSubtree
    <3>4. Flagged(nodes, kept, heads)
      <4>1. pending.nodes = RecordKept(kept, heads)
        BY <2>0 DEF InFlight
      <4>. QED  BY <4>1, MarkFlagged
    <3>5. NodesGood(nodes) /\ Positions(nodes) = Selected(t, hist)
      <4>. HIDE DEF nodes, kept
      <4>. QED  BY <3>3, <3>4, FlaggedPositions
    <3>6. s.nodes = nodes /\ s.step_id = t
      OBVIOUS
    <3>7. steps' = Append(steps, s) /\ hist' = Update(hist, s.nodes, Kp, Pp, Gran)
      BY <3>1 DEF Fold
    <3>. HIDE DEF nodes, s
    <3>8. /\ StepsGood(Append(steps, s)) /\ Causal(Append(steps, s))
          /\ Len(Append(steps, s)) = Len(steps) + 1
      BY <3>2, <3>5, <3>6, CausalAppend
    <3>9. HistOf(Append(steps, s)) = hist'
      BY <3>2, <3>5, <3>6, <3>7, UpdateIsRecount
    <3>10. Learnt(steps', hist', t')
      BY <3>1, <3>2, <3>7, <3>8, <3>9 DEF Learnt
    <3>11. Learnt(steps, hist, t)'
      BY <2>0, <3>10, LearntStays DEF Learnt
    <3>. QED  BY <2>0, <3>11 DEF RecordInv
  <2>. QED  BY <2>1, <2>2
<1>6. CASE UpdateInputs
  BY <1>0, <1>6 DEF UpdateInputs, static, RecordInv
<1>7. CASE Output
  BY <1>0, <1>7 DEF Output, static, RecordInv
<1>8. CASE Raise
  BY <1>0, <1>8 DEF Raise, static, RecordInv
<1>9. CASE Detach
  BY <1>0, <1>9 DEF Detach, static, RecordInv
<1>10. CASE Return
  BY <1>0, <1>10 DEF Return, static, RecordInv
<1>11. CASE Terminated \/ UNCHANGED vars
  <2>1. UNCHANGED vars
    BY <1>11 DEF Terminated
  <2>2. UNCHANGED <<knobs, hist, t, steps, ready, buffer, heads, pending, pc>>
    BY <2>1 DEF vars, static, loop
  <2>3. Kept(t, hist)' = Kept(t, hist)
    BY <1>k, <2>2
  <2>. QED  BY <1>0, <2>2, <2>3 DEF RecordInv, InFlight
<1>. QED  BY <1>1, <1>2, <1>3, <1>4, <1>5, <1>6, <1>7, <1>8, <1>9, <1>10, <1>11 DEF Next

\* Both invariants hold throughout a collection.
LEMMA RecordSafe == Spec => [](HookInv /\ RecordInv)
<1>. QED  BY HookInvInit, HookInvNext, RecordInvInit, RecordInvNext, PTL DEF Spec

\* Over all prompts of a collection, the histogram the pruner reads is the
\* count of what the recorded steps verified (collector.py's `finalize` and
\* dtp.py's `update`): nothing is folded in twice, dropped or misfiled.
THEOREM HistogramIsRecount == Spec => []HistIsRecount
<1>1. RecordInv => HistIsRecount
  BY DEF RecordInv, Learnt, HistIsRecount
<1>. QED  BY <1>1, RecordSafe, PTL

\* A step's tree is selected from the steps recorded before it alone: the
\* collection never prunes with what it learns later (dtp.py's causality).
THEOREM SelectionIsCausal == Spec => []CausalSelection
<1>1. RecordInv => CausalSelection
  BY DEF RecordInv, Learnt, Causal, CausalSelection
<1>. QED  BY <1>1, RecordSafe, PTL

\* Whatever the histogram has learnt, the selection is closed under ancestors,
\* so invalidate_paths never raises in the middle of a collection.
THEOREM NeverRefused == Spec => []SelectionIsClosed
<1>1. HookInv /\ RecordInv => SelectionIsClosed
  <2>. SUFFICES ASSUME HookInv, RecordInv PROVE Closed(PristineRows, Kept(t, hist))
    BY DEF SelectionIsClosed, Kept
  <2>1. PristineRows = Tree.rows
    BY DEF PristineRows, HookInv
  <2>2. CountsTyped(hist) /\ knobs \in Knobs
    BY HistOfTyped DEF RecordInv, Learnt
  <2>3. /\ Kept(t, hist) \in SUBSET (1..Tree.n)
        /\ \A v \in Kept(t, hist) : ParentOf(v) # 0 => ParentOf(v) \in Kept(t, hist)
    BY <2>2, KeptIsSubtree
  <2>. QED  BY <2>1, <2>3, GateIsClosed
<1>. QED  BY <1>1, RecordSafe, PTL

\* Whatever flags its record carries, a subtree that the buffer is cut to is
\* what the buffer leads to, linked as in the static tree.
LEMMA CutBufferGates ==
  ASSUME NEW kept \in SUBSET (1..Tree.n), NEW table, NEW nodes,
         \A v \in kept : ParentOf(v) # 0 => ParentOf(v) \in kept,
         Flagged(nodes, kept, table),
         pristine = Tree.rows, buffer = InvalidatePaths(Tree.rows, kept)
  PROVE  Gates(nodes)
<1>1. NodesOf(buffer) = kept
  BY GateIsClosed
<1>2. Positions(nodes) = {At(v) : v \in kept}
  BY FlaggedPositions
<1>3. {PosToIndex(q) : q \in Positions(nodes)} = kept
  BY <1>2, StructPositions
<1>4. ASSUME NEW k \in DOMAIN nodes
      PROVE  IF nodes[k].depth = 0 THEN nodes[k].parent_idx = -1
             ELSE Pos(nodes[nodes[k].parent_idx + 1]) = Pp[Pos(nodes[k])]
  <2>. DEFINE v == NodeAt(kept, k)
              p == ParentOf(v)
  <2>1. /\ k \in 1..Cardinality(kept)
        /\ \E flag \in BOOLEAN : nodes[k] = Entry(kept, table, v, flag)
    BY DEF Flagged
  <2>2. v \in kept /\ v \in 1..Tree.n
    BY <2>1, NodeAtExists
  <2>3. nodes[k].depth = Depth(v) /\ nodes[k].parent_idx = KeptParentIdx(kept, v)
        /\ Pos(nodes[k]) = At(v)
    BY <2>1 DEF Entry, Pos, At
  <2>. HIDE DEF v
  <2>4. CASE Depth(v) = 0
    <3>1. p = 0
      BY <2>2, <2>4, ParentShape
    <3>. QED  BY <2>3, <2>4, <3>1 DEF KeptParentIdx
  <2>5. CASE Depth(v) # 0
    <3>1. p # 0 /\ p >= 1
      BY <2>2, <2>5, ParentShape, MedusaAssumption
    <3>2. p \in kept /\ nodes[k].parent_idx = NewIndexOf(kept)[p]
      BY <2>2, <2>3, <3>1 DEF KeptParentIdx
    <3>. DEFINE l == NewIndexOf(kept)[p] + 1
    <3>3. l \in 1..Cardinality(kept) /\ NodeAt(kept, l) = p
      BY <3>2, NodeAtExists
    <3>. HIDE DEF l, p
    <3>4. \E flag \in BOOLEAN : nodes[l] = Entry(kept, table, p, flag)
      BY <3>3 DEF Flagged
    <3>5. Pos(nodes[l]) = At(p)
      BY <3>4 DEF Entry, Pos, At
    <3>6. Pp[At(v)] = At(p)
      BY <2>2, <2>5, StructParents DEF p
    <3>. QED  BY <2>3, <2>5, <3>2, <3>5, <3>6 DEF l
  <2>. QED  BY <2>3, <2>4, <2>5
<1>. QED  BY <1>1, <1>3, <1>4 DEF Gates

\* The tree in flight is gated in the buffer, and stays so when flagged.
LEMMA InFlightGates ==
  ASSUME HookInv, RecordInv, InFlight
  PROVE  Gates(pending.nodes) /\ \A b, a : Gates(MarkAccepted(pending, b, a))
<1>. DEFINE kept == Kept(t, hist)
<1>1. /\ pristine = Tree.rows /\ buffer = InvalidatePaths(Tree.rows, kept)
      /\ pending.nodes = RecordKept(kept, heads)
  BY DEF InFlight, HookInv
<1>2. CountsTyped(hist) /\ knobs \in Knobs
  BY HistOfTyped DEF RecordInv, Learnt
<1>3. /\ kept \in SUBSET (1..Tree.n)
      /\ \A v \in kept : ParentOf(v) # 0 => ParentOf(v) \in kept
  BY <1>2, KeptIsSubtree
<1>. HIDE DEF kept
<1>4. Flagged(pending.nodes, kept, heads)
  BY <1>1, RecordEntries
<1>5. ASSUME NEW b, NEW a
      PROVE  Flagged(MarkAccepted(pending, b, a), kept, heads)
  BY <1>1, MarkFlagged
<1>6. \A nodes : Flagged(nodes, kept, heads) => Gates(nodes)
  BY <1>1, <1>3, CutBufferGates
<1>. QED  BY <1>4, <1>5, <1>6

\* Python's None is no pending tree.
NilIsNoTree ==
  \A nodes, rows, index, length, token :
    Nil # [nodes |-> nodes, edited_rows |-> rows, new_index_of |-> index,
           context_length |-> length, sample_token_id |-> token]

\* What the commit reads is what the last step recorded.
CommitGated == pc = "update" => Len(steps) > 0 /\ Gates(steps[Len(steps)].nodes)

\* Only evaluate_posterior leads to a commit, and it leaves the buffer alone.
LEMMA CommitGatedNext ==
  ASSUME NilIsNoTree, HookInv, RecordInv, CommitGated, [Next]_vars
  PROVE  CommitGated'
<1>. SUFFICES ASSUME pc' = "update" PROVE Len(steps') > 0 /\ Gates(steps[Len(steps)].nodes)'
  BY DEF CommitGated
<1>1. CASE Evaluate
  <2>1. InFlight
    BY <1>1 DEF Evaluate, RecordInv
  <2>2. pending # Nil
    BY <2>1 DEF InFlight, NilIsNoTree
  <2>3. PICK b \in 1..Len(buffer), a \in 0..Tree.n :
          steps' = Append(steps,
             [step_id |-> t, prompt_id |-> pid - 1,
              context_length |-> pending.context_length,
              nodes |-> MarkAccepted(pending, b, a), accepted_length |-> a,
              sample_token_id |-> pending.sample_token_id])
    BY <1>1, <2>2 DEF Evaluate
  <2>. DEFINE s == [step_id |-> t, prompt_id |-> pid - 1,
                    context_length |-> pending.context_length,
                    nodes |-> MarkAccepted(pending, b, a), accepted_length |-> a,
                    sample_token_id |-> pending.sample_token_id]
  <2>4. s.nodes = MarkAccepted(pending, b, a)
    OBVIOUS
  <2>5. Gates(s.nodes)
    BY <2>1, <2>4, InFlightGates
  <2>6. steps' = Append(steps, s)
    BY <2>3
  <2>7. PICK S : steps \in Seq(S)
    BY DEF RecordInv, Learnt, StepsGood
  <2>. HIDE DEF s
  <2>8. Len(steps') > 0 /\ steps'[Len(steps')] = s
    BY <2>6, <2>7
  <2>9. buffer' = buffer /\ pristine' = pristine
    BY <1>1 DEF Evaluate, static
  <2>10. Gates(s.nodes) => Gates(steps[Len(steps)].nodes)'
    BY <2>8, <2>9 DEF Gates
  <2>. QED  BY <2>5, <2>8, <2>10
<1>2. CASE UNCHANGED vars
  <2>1. pc = "update" /\ UNCHANGED <<steps, buffer, pristine>>
    BY <1>2 DEF vars, static
  <2>. QED  BY <2>1 DEF CommitGated, Gates
<1>3. CASE Terminated
  BY <1>3 DEF Terminated, Over, vars
<1>4. pc' # "update" \/ Evaluate \/ Terminated \/ UNCHANGED vars
  BY DEF Next, Attach, Generate, Candidates, TreeDecoding, UpdateInputs, Output, Raise,
         Detach, Return
<1>. QED  BY <1>1, <1>2, <1>3, <1>4

\* From the gate to the commit, the shared retrieve_indices lead to exactly the
\* recorded nodes, and these are linked as in the static tree.
THEOREM BufferHoldsGate ==
  ASSUME NilIsNoTree
  PROVE  Spec => []BufferIsGate
<1>1. Init => CommitGated
  BY DEF Init, CommitGated
<1>2. HookInv /\ RecordInv /\ CommitGated /\ [Next]_vars => CommitGated'
  BY CommitGatedNext
<1>3. HookInv /\ RecordInv /\ CommitGated => BufferIsGate
  BY InFlightGates DEF RecordInv, CommitGated, BufferIsGate
<1>. QED  BY <1>1, <1>2, <1>3, RecordSafe, PTL DEF Spec

-----------------------------------------------------------------------------
(* The text.                                                               *)

\* The target is total on texts and never chooses the pad token.
TargetNeverPads == \A s \in Seq(Vocab) : Argmax(s) \in Vocab \ {PadToken}

RowsSound ==
  /\ buffer \in Seq(Seq((0..Tree.n) \cup {Pad}))
  /\ \A r \in 1..Len(buffer) :
       /\ Len(buffer[r]) >= 1 /\ buffer[r][1] = 0
       /\ \A j \in 1..Len(buffer[r]) :
            buffer[r][j] # Pad => Tree.path[buffer[r][j]] = SubSeq(buffer[r], 1, j)

Control ==
  /\ prompt_outputs \in Seq(Seq(Vocab)) /\ pid = Len(prompt_outputs) + 1
  /\ pc \in {"prompt", "candidates", "decode", "evaluate", "update", "output"} =>
       pid <= Len(Prompts)
  /\ pc = "attach" => pid = 1

TextInv ==
  /\ ids \in Seq(Vocab)
  /\ pc \in {"attach", "prompt"} => ids = <<>>
  /\ pc \in {"candidates", "decode", "evaluate", "update"} =>
       /\ Facts!GreedyText(Prompts[pid], ids)
       /\ kv = ids /\ root = Argmax(ids)
  /\ pc = "output" =>
       /\ Len(ids) > Len(Prompts[pid])
       /\ last = SubSeq(ids, Len(Prompts[pid]) + 1, Len(ids))

VerdictInv ==
  /\ pc \in {"decode", "evaluate", "update"} => RowsSound
  /\ pc = "update" =>
       best \in 1..Len(buffer) /\ accept \in Nat /\ Accepts(best, accept)

LosslessInv == Control /\ TextInv /\ VerdictInv

-----------------------------------------------------------------------------
(* The tree and the verdict.                                               *)

\* Cutting rows keeps them sound: a node left in a row kept all its elders.
LEMMA CutRowsSound ==
  ASSUME NEW keep
  PROVE  LET e == InvalidatePaths(Tree.rows, keep)
         IN  /\ e \in Seq(Seq((0..Tree.n) \cup {Pad}))
             /\ \A r \in 1..Len(e) :
                  /\ Len(e[r]) >= 1 /\ e[r][1] = 0
                  /\ \A j \in 1..Len(e[r]) :
                       e[r][j] # Pad => Tree.path[e[r][j]] = SubSeq(e[r], 1, j)
<1>. DEFINE Value == (0..Tree.n) \cup {Pad}
            e == InvalidatePaths(Tree.rows, keep)
<1>1. Tree.rows \in Seq(Seq(Value)) /\ Len(Tree.rows) \in Nat
  BY TreeAssumption
<1>2. e = [r \in 1..Len(Tree.rows) |-> TruncatedRow(Tree.rows[r], keep)]
  BY DEF InvalidatePaths
<1>3. ASSUME NEW r \in 1..Len(Tree.rows)
      PROVE  LET row == TruncatedRow(Tree.rows[r], keep)
             IN  /\ row \in Seq(Value)
                 /\ Len(row) >= 1 /\ row[1] = 0
                 /\ \A j \in 1..Len(row) :
                      row[j] # Pad => Tree.path[row[j]] = SubSeq(row, 1, j)
  <2>. DEFINE old == Tree.rows[r]
              row == TruncatedRow(old, keep)
  <2>1. /\ old \in Seq(Value) /\ Len(old) \in Nat /\ Len(old) >= 1 /\ old[1] = 0
        /\ \A j \in 1..Len(old) :
             old[j] \in Value /\ (old[j] # Pad => Tree.path[old[j]] = SubSeq(old, 1, j))
    BY RowTyped
  <2>2. row = [j \in 1..Len(old) |-> IF AliveAfter(old, keep, j) THEN old[j] ELSE Pad]
    BY DEF TruncatedRow
  <2>. HIDE DEF old
  <2>3. row \in Seq(Value) /\ Len(row) = Len(old)
    BY <2>1, <2>2
  <2>. HIDE DEF row
  <2>4. row[1] = 0
    BY <2>1, <2>2 DEF AliveAfter, Survives, Pad
  <2>5. ASSUME NEW j \in 1..Len(row), row[j] # Pad
        PROVE  Tree.path[row[j]] = SubSeq(row, 1, j)
    <3>1. AliveAfter(old, keep, j) /\ row[j] = old[j]
      BY <2>2, <2>3, <2>5
    <3>2. \A i \in 1..j : AliveAfter(old, keep, i)
      BY <2>1, <2>3, <3>1 DEF AliveAfter
    <3>3. \A i \in 1..j : row[i] = old[i]
      BY <2>1, <2>2, <2>3, <3>2
    <3>4. SubSeq(row, 1, j) = SubSeq(old, 1, j)
      BY <2>1, <2>3, <3>3
    <3>. QED  BY <2>1, <2>3, <2>5, <3>1, <3>4
  <2>. QED  BY <2>1, <2>3, <2>4, <2>5 DEF old, row
<1>4. e \in Seq(Seq(Value)) /\ Len(e) = Len(Tree.rows)
  BY <1>1, <1>2, <1>3
<1>. QED  BY <1>2, <1>3, <1>4

\* The tokens update_inference_inputs commits.
NewTokens == [j \in 1..Committed |-> CandidateToken(buffer[best][j])]

\* What is committed are tokens, each the target's choice after its elders;
\* the cache keeps the same tokens, and the next root is the choice after all.
LEMMA CommitIsGreedy ==
  ASSUME TargetNeverPads, RowsSound, ids \in Seq(Vocab), kv = ids, root = Argmax(ids),
         best \in 1..Len(buffer), accept \in Nat, Accepts(best, accept)
  PROVE  /\ NewTokens \in Seq(Vocab) /\ Len(NewTokens) = accept + 1
         /\ \A j \in 1..Len(NewTokens) :
              NewTokens[j] = Argmax(ids \o SubSeq(NewTokens, 1, j - 1))
         /\ TargetAt(buffer[best][accept + 1]) = Argmax(ids \o NewTokens)
         /\ [j \in 1..Committed |-> CacheEntry(buffer[best][j])] = NewTokens
<1>. DEFINE row == buffer[best]
            c == NewTokens
<1>1. /\ row \in Seq((0..Tree.n) \cup {Pad}) /\ row[1] = 0
      /\ \A j \in 1..Len(row) : row[j] # Pad => Tree.path[row[j]] = SubSeq(row, 1, j)
  <2>. DEFINE S == Seq((0..Tree.n) \cup {Pad})
  <2>1. buffer \in Seq(S)
    BY DEF RowsSound
  <2>2. buffer[best] \in S
    <3>. HIDE DEF S
    <3>. QED  BY <2>1, ElementOfSeq
  <2>. QED  BY <2>2 DEF RowsSound
<1>2. /\ Len(row) \in Nat /\ accept + 1 <= Len(row)
      /\ \A j \in 1..accept : CandidateToken(row[j + 1]) = TargetAt(row[j])
  BY <1>1 DEF Accepts
<1>3. c = [j \in 1..(accept + 1) |-> CandidateToken(row[j])]
  BY DEF NewTokens, Committed
<1>. DEFINE Real(j) == row[j] # Pad /\ Token(row[j]) \in Vocab
            Upto(j) == [i \in 1..j |-> Token(row[i])]
<1>. HIDE DEF row, c
<1>4. ASSUME NEW j \in 1..(accept + 1), \A i \in 1..j : Real(i)
      PROVE  /\ TargetAt(row[j]) = Argmax(ids \o Upto(j))
             /\ Upto(j) \in Seq(Vocab) /\ TargetAt(row[j]) \in Vocab \ {PadToken}
  <2>0. j \in 1..j /\ j \in 1..Len(row)
    BY <1>2
  <2>1. row[j] # Pad /\ Tree.path[row[j]] = SubSeq(row, 1, j)
    BY <1>1, <1>4, <2>0
  <2>. DEFINE path == SubSeq(row, 1, j)
              tokens == [i \in 1..Len(path) |-> Token(path[i])]
  <2>2. Len(path) = j /\ \A i \in 1..j : path[i] = row[i]
    BY <1>1, <1>2
  <2>3. tokens = Upto(j)
    <3>. HIDE DEF path
    <3>. QED  BY <2>2
  <2>4. TargetAt(row[j]) = Argmax(ids \o tokens)
    BY <2>1 DEF TargetAt
  <2>5. Upto(j) \in Seq(Vocab)
    BY <1>4
  <2>. HIDE DEF Upto, tokens
  <2>6. ids \o Upto(j) \in Seq(Vocab)
    BY <2>5
  <2>. QED  BY <2>3, <2>4, <2>5, <2>6 DEF TargetNeverPads
<1>5. \A j \in 1..(accept + 1) : Real(j)
  <2>. DEFINE T == {n \in Nat : n <= accept => \A i \in 1..(n + 1) : Real(i)}
  <2>1. 0 \in T
    <3>1. row[1] # Pad /\ Token(row[1]) = root
      BY <1>1 DEF Token, Pad
    <3>2. root \in Vocab
      BY DEF TargetNeverPads
    <3>3. \A i \in 1..(0 + 1) : i = 1
      OBVIOUS
    <3>. QED  BY <3>1, <3>2, <3>3
  <2>2. ASSUME NEW n \in Nat, n \in T PROVE n + 1 \in T
    <3>. SUFFICES ASSUME n + 1 <= accept, NEW i \in 1..(n + 2) PROVE Real(i)
      OBVIOUS
    <3>1. \A k \in 1..(n + 1) : Real(k)
      BY <2>2
    <3>2. n + 1 \in 1..(accept + 1) /\ n + 1 \in 1..accept
      BY <2>2
    <3>3. TargetAt(row[n + 1]) \in Vocab \ {PadToken}
      <4>. HIDE DEF Real
      <4>. QED  BY <1>4, <3>1, <3>2
    <3>4. CandidateToken(row[(n + 1) + 1]) = TargetAt(row[n + 1])
      BY <1>2, <3>2
    <3>5. Real((n + 1) + 1)
      BY <3>3, <3>4 DEF CandidateToken
    <3>6. i \in 1..(n + 1) \/ i = (n + 1) + 1
      OBVIOUS
    <3>. QED  BY <3>1, <3>5, <3>6
  <2>. HIDE DEF T
  <2>3. Nat \subseteq T
    BY <2>1, <2>2, Induction
  <2>4. accept \in T
    BY <2>3
  <2>. QED  BY <2>4 DEF T
<1>6. /\ c \in Seq(Vocab) /\ Len(c) = accept + 1
      /\ \A j \in 1..(accept + 1) : c[j] = Token(row[j])
  <2>1. \A j \in 1..(accept + 1) :
          CandidateToken(row[j]) = Token(row[j]) /\ Token(row[j]) \in Vocab
    BY <1>5 DEF CandidateToken
  <2>. QED  BY <1>3, <2>1
<1>7. ASSUME NEW j \in 1..(accept + 1)
      PROVE  TargetAt(row[j]) = Argmax(ids \o SubSeq(c, 1, j))
  <2>1. \A i \in 1..j : Real(i)
    <3>. HIDE DEF Real
    <3>1. \A i \in 1..j : i \in 1..(accept + 1)
      OBVIOUS
    <3>. QED  BY <1>5, <3>1
  <2>2. TargetAt(row[j]) = Argmax(ids \o Upto(j)) /\ Upto(j) \in Seq(Vocab)
    <3>. HIDE DEF Real, Upto
    <3>. QED  BY <1>4, <2>1
  <2>3. Upto(j) = SubSeq(c, 1, j)
    <3>1. /\ SubSeq(c, 1, j) \in Seq(Vocab) /\ Len(SubSeq(c, 1, j)) = j
          /\ \A i \in 1..j : SubSeq(c, 1, j)[i] = Token(row[i])
      BY <1>6
    <3>2. Len(Upto(j)) = j /\ \A i \in 1..j : Upto(j)[i] = Token(row[i])
      OBVIOUS
    <3>. HIDE DEF Upto
    <3>. QED  BY <2>2, <3>1, <3>2, SeqEqual
  <2>. QED  BY <2>2, <2>3
<1>8. ASSUME NEW j \in 1..Len(c)
      PROVE  c[j] = Argmax(ids \o SubSeq(c, 1, j - 1))
  <2>1. CASE j = 1
    <3>1. c[j] = root
      BY <1>1, <1>6, <2>1 DEF Token
    <3>2. ids \o SubSeq(c, 1, j - 1) = ids
      BY <1>6, <2>1
    <3>. QED  BY <3>1, <3>2
  <2>2. CASE j # 1
    <3>1. j - 1 \in 1..accept /\ (j - 1) + 1 = j /\ j - 1 \in 1..(accept + 1)
      BY <1>6, <2>2
    <3>2. c[j] = TargetAt(row[j - 1])
      BY <1>2, <1>3, <1>6, <3>1
    <3>. QED  BY <1>7, <3>1, <3>2
  <2>. QED  BY <2>1, <2>2
<1>9. TargetAt(row[accept + 1]) = Argmax(ids \o c)
  <2>1. accept + 1 \in 1..(accept + 1) /\ SubSeq(c, 1, accept + 1) = c
    BY <1>6
  <2>. QED  BY <1>7, <2>1
<1>10. [j \in 1..Committed |-> CacheEntry(row[j])] = c
  <2>1. \A j \in 1..(accept + 1) : CacheEntry(row[j]) = CandidateToken(row[j])
    BY <1>5 DEF CacheEntry, CandidateToken
  <2>. QED  BY <1>3, <2>1 DEF Committed
<1>. QED  BY <1>6, <1>8, <1>9, <1>10 DEF row, c

-----------------------------------------------------------------------------
(* The invariant.                                                          *)

\* No text exists at the start.
LEMMA LosslessInit == Init => LosslessInv
<1>. SUFFICES ASSUME Init PROVE LosslessInv
  OBVIOUS
<1>1. /\ prompt_outputs = <<>> /\ pid = 1 /\ pc = "attach" /\ ids = <<>>
  BY DEF Init
<1>2. prompt_outputs \in Seq(Seq(Vocab)) /\ ids \in Seq(Vocab) /\ Len(prompt_outputs) = 0
  BY <1>1
<1>. QED  BY <1>1, <1>2 DEF LosslessInv, Control, TextInv, VerdictInv

\* The prompt in hand is a token sequence.
LEMMA PromptTyped ==
  ASSUME Control, pid <= Len(Prompts)
  PROVE  /\ pid \in 1..Len(Prompts) /\ Prompts[pid] \in Seq(Vocab)
         /\ Len(Prompts[pid]) \in Nat /\ Len(prompt_outputs) < Len(Prompts)
         /\ pid = Len(prompt_outputs) + 1
<1>1. Len(prompt_outputs) \in Nat /\ Prompts \in Seq(Seq(Vocab)) /\ Len(Prompts) \in Nat
  BY MedusaAssumption DEF Control
<1>2. pid \in 1..Len(Prompts)
  BY <1>1 DEF Control
<1>3. Prompts[pid] \in Seq(Vocab)
  <2>. DEFINE S == Seq(Vocab)
  <2>. HIDE DEF S
  <2>. QED  BY <1>1, <1>2, ElementOfSeq DEF S
<1>. QED  BY <1>1, <1>2, <1>3 DEF Control

\* The text an update leaves: at least one more token, greedy.
LEMMA UpdatedText ==
  ASSUME TargetNeverPads, LosslessInv, UpdateInputs
  PROVE  /\ ids' = ids \o NewTokens /\ NewTokens \in Seq(Vocab) /\ Len(NewTokens) >= 1
         /\ ids' \in Seq(Vocab) /\ kv' = ids' /\ root' = Argmax(ids')
         /\ Facts!GreedyText(Prompts[pid], ids) /\ Facts!GreedyText(Prompts[pid], ids')
         /\ Len(ids') > Len(Prompts[pid])
<1>. DEFINE c == NewTokens
<1>1. /\ pc = "update" /\ ids' = ids \o c
      /\ kv' = kv \o [j \in 1..Committed |-> CacheEntry(buffer[best][j])]
      /\ root' = TargetAt(buffer[best][accept + 1])
  BY DEF UpdateInputs, NewTokens, Committed
<1>2. /\ pid <= Len(Prompts) /\ ids \in Seq(Vocab)
      /\ Facts!GreedyText(Prompts[pid], ids) /\ kv = ids /\ root = Argmax(ids)
      /\ RowsSound /\ best \in 1..Len(buffer) /\ accept \in Nat /\ Accepts(best, accept)
  BY <1>1 DEF LosslessInv, Control, TextInv, VerdictInv
<1>3. Prompts[pid] \in Seq(Vocab) /\ Len(Prompts[pid]) \in Nat
  BY <1>2, PromptTyped DEF LosslessInv
<1>4. /\ c \in Seq(Vocab) /\ Len(c) = accept + 1
      /\ \A j \in 1..Len(c) : c[j] = Argmax(ids \o SubSeq(c, 1, j - 1))
      /\ TargetAt(buffer[best][accept + 1]) = Argmax(ids \o c)
      /\ [j \in 1..Committed |-> CacheEntry(buffer[best][j])] = c
  BY <1>2, CommitIsGreedy
<1>. HIDE DEF c
<1>5. Facts!GreedyText(Prompts[pid], ids \o c)
  BY <1>2, <1>3, <1>4, Facts!ExtendGreedy
<1>6. ids \o c \in Seq(Vocab) /\ Len(ids \o c) = Len(ids) + Len(c) /\ Len(ids) \in Nat
  <2>1. ids \in Seq(Vocab) /\ c \in Seq(Vocab)
    BY <1>2, <1>4
  <2>. QED  BY <2>1, ConcatProperties, LenProperties
<1>7. Len(Prompts[pid]) <= Len(ids)
  BY <1>2 DEF Facts!GreedyText
<1>8. Len(ids') > Len(Prompts[pid])
  BY <1>1, <1>2, <1>3, <1>4, <1>6, <1>7
<1>9. kv' = ids' /\ root' = Argmax(ids')
  BY <1>1, <1>2, <1>4
<1>10. Facts!GreedyText(Prompts[pid], ids')
  BY <1>1, <1>5
<1>11. c \in Seq(Vocab) /\ Len(c) >= 1 /\ ids' \in Seq(Vocab)
  BY <1>1, <1>2, <1>4, <1>6
<1>. QED  BY <1>1, <1>2, <1>8, <1>9, <1>10, <1>11 DEF c

\* Committing what was accepted keeps the text greedy.
LEMMA LosslessUpdate ==
  ASSUME TargetNeverPads, LosslessInv, UpdateInputs
  PROVE  LosslessInv'
<1>1. /\ pc = "update" /\ pc' \in {"output", "candidates"}
      /\ UNCHANGED <<pid, prompt_outputs>>
      /\ last' = SubSeq(ids', Len(Prompts[pid]) + 1, Len(ids'))
  BY DEF UpdateInputs, result
<1>2. /\ ids' \in Seq(Vocab) /\ kv' = ids' /\ root' = Argmax(ids')
      /\ Facts!GreedyText(Prompts[pid], ids') /\ Len(ids') > Len(Prompts[pid])
  BY UpdatedText
<1>3. TextInv'
  BY <1>1, <1>2 DEF TextInv, Facts!GreedyText
<1>4. Control' /\ VerdictInv'
  BY <1>1 DEF LosslessInv, Control, VerdictInv
<1>. QED  BY <1>3, <1>4 DEF LosslessInv

\* A prompt starts from its own text.
LEMMA LosslessGenerate ==
  ASSUME MaxSteps > 0, LosslessInv, Generate
  PROVE  LosslessInv'
<1>1. /\ pc = "prompt" /\ pc' = "candidates" /\ ids' = Prompts[pid] /\ kv' = Prompts[pid]
      /\ root' = Argmax(Prompts[pid]) /\ UNCHANGED <<pid, prompt_outputs>>
  BY DEF Generate, result
<1>2. Prompts[pid] \in Seq(Vocab) /\ Len(Prompts[pid]) \in Nat
  BY <1>1, PromptTyped DEF LosslessInv, Control
<1>3. Facts!GreedyText(Prompts[pid], Prompts[pid])
  BY <1>2 DEF Facts!GreedyText
<1>4. TextInv'
  BY <1>1, <1>2, <1>3 DEF TextInv, Facts!GreedyText
<1>5. Control' /\ VerdictInv'
  BY <1>1 DEF LosslessInv, Control, VerdictInv
<1>. QED  BY <1>4, <1>5 DEF LosslessInv

\* Candidates keeps the text; its edited rows are sound.
LEMMA LosslessCandidates == HookInv /\ LosslessInv /\ Candidates => LosslessInv'
<1>. SUFFICES ASSUME HookInv, LosslessInv, Candidates PROVE LosslessInv'
  OBVIOUS
<1>1. /\ pc = "candidates" /\ pc' = "decode"
      /\ UNCHANGED <<pid, ids, kv, root, last, prompt_outputs>>
  BY DEF Candidates, result
<1>2. PristineRows = Tree.rows
  BY DEF PristineRows, HookInv
<1>3. \E kept : buffer' = InvalidatePaths(Tree.rows, kept)
  BY <1>2 DEF Candidates, EditedRows
<1>4. RowsSound'
  <2>1. PICK kept : buffer' = InvalidatePaths(Tree.rows, kept)
    BY <1>3
  <2>. DEFINE e == InvalidatePaths(Tree.rows, kept)
  <2>2. /\ e \in Seq(Seq((0..Tree.n) \cup {Pad}))
        /\ \A r \in 1..Len(e) :
             /\ Len(e[r]) >= 1 /\ e[r][1] = 0
             /\ \A j \in 1..Len(e[r]) :
                  e[r][j] # Pad => Tree.path[e[r][j]] = SubSeq(e[r], 1, j)
    BY CutRowsSound
  <2>. HIDE DEF e
  <2>. QED  BY <2>1, <2>2 DEF RowsSound, e
<1>5. Control' /\ TextInv' /\ VerdictInv'
  BY <1>1, <1>4 DEF LosslessInv, Control, TextInv, VerdictInv, Facts!GreedyText
<1>. QED  BY <1>5 DEF LosslessInv

\* What Evaluate accepts is a path whose tokens are the target's choices.
LEMMA LosslessEvaluate == LosslessInv /\ Evaluate => LosslessInv'
<1>. SUFFICES ASSUME LosslessInv, Evaluate PROVE LosslessInv'
  OBVIOUS
<1>1. /\ pc = "evaluate" /\ pc' = "update"
      /\ UNCHANGED <<pid, ids, kv, root, heads, last, buffer, prompt_outputs>>
  BY DEF Evaluate, result
<1>2. PICK b \in 1..Len(buffer), a \in 0..Tree.n :
        Posterior(b, a) /\ best' = b /\ accept' = a
  BY DEF Evaluate
<1>3. RowsSound /\ RowsSound'
  BY <1>1 DEF LosslessInv, VerdictInv, RowsSound
<1>4. Accepts(best, accept)'
  BY <1>1, <1>2 DEF Posterior, Accepts, CandidateToken, TargetAt, Token
<1>5. best' \in 1..Len(buffer') /\ accept' \in Nat
  BY <1>1, <1>2, MedusaAssumption
<1>6. VerdictInv'
  BY <1>1, <1>3, <1>4, <1>5 DEF VerdictInv
<1>7. Control' /\ TextInv'
  BY <1>1 DEF LosslessInv, Control, TextInv, Facts!GreedyText
<1>. QED  BY <1>6, <1>7 DEF LosslessInv

\* A prompt is delivered with its greedy text.
LEMMA LosslessOutput == LosslessInv /\ Output => LosslessInv'
<1>. SUFFICES ASSUME LosslessInv, Output PROVE LosslessInv'
  OBVIOUS
<1>1. /\ pc = "output" /\ prompt_outputs' = Append(prompt_outputs, last)
      /\ ids' = <<>> /\ pid' = pid + 1
      /\ pc' = IF pid < Len(Prompts) THEN "prompt" ELSE "detach"
  BY DEF Output
<1>2. /\ Prompts[pid] \in Seq(Vocab) /\ Len(Prompts[pid]) \in Nat
      /\ pid \in 1..Len(Prompts) /\ pid = Len(prompt_outputs) + 1
      /\ Len(Prompts) \in Nat
  BY <1>1, PromptTyped, MedusaAssumption DEF LosslessInv, Control
<1>3. last \in Seq(Vocab)
  <2>1. /\ ids \in Seq(Vocab) /\ Len(Prompts[pid]) \in 0..Len(ids)
        /\ last = SubSeq(ids, Len(Prompts[pid]) + 1, Len(ids))
    <3>1. /\ ids \in Seq(Vocab) /\ Len(ids) > Len(Prompts[pid])
          /\ last = SubSeq(ids, Len(Prompts[pid]) + 1, Len(ids))
      BY <1>1 DEF LosslessInv, TextInv
    <3>2. Len(ids) \in Nat
      BY <3>1
    <3>. QED  BY <1>2, <3>1, <3>2
  <2>. QED  BY <2>1, Facts!TailOf
<1>4. /\ prompt_outputs' \in Seq(Seq(Vocab))
      /\ Len(prompt_outputs') = Len(prompt_outputs) + 1
  <2>1. prompt_outputs \in Seq(Seq(Vocab))
    BY DEF LosslessInv, Control
  <2>. QED  BY <1>1, <1>3, <2>1, AppendProperties
<1>5. pid' = Len(prompt_outputs') + 1 /\ pc' \in {"prompt", "detach"}
      /\ (pc' = "prompt" => pid' <= Len(Prompts))
  BY <1>1, <1>2, <1>4
<1>. QED  BY <1>1, <1>4, <1>5 DEF LosslessInv, Control, TextInv, VerdictInv

\* No other action touches the text.
LEMMA LosslessOthers ==
  LosslessInv /\ (Attach \/ TreeDecoding \/ Raise \/ Detach \/ Return \/ Terminated
                    \/ UNCHANGED vars)
    => LosslessInv'
<1>. SUFFICES ASSUME LosslessInv, Attach \/ TreeDecoding \/ Raise \/ Detach \/ Return
                                    \/ Terminated \/ UNCHANGED vars
              PROVE  LosslessInv'
  OBVIOUS
<1>1. CASE Attach
  <2>1. /\ pc = "attach" /\ pc' \in {"prompt", "detach"} /\ (pc' = "prompt" => Prompts # <<>>)
        /\ UNCHANGED <<pid, ids, prompt_outputs>>
    BY <1>1 DEF Attach, loop, result
  <2>2. Prompts # <<>> => 1 <= Len(Prompts)
    BY MedusaAssumption, EmptySeq, LenProperties
  <2>. QED  BY <2>1, <2>2 DEF LosslessInv, Control, TextInv, VerdictInv
<1>2. CASE TreeDecoding
  <2>1. /\ pc = "decode" /\ pc' = "evaluate"
        /\ UNCHANGED <<pid, ids, kv, root, last, prompt_outputs, buffer>>
    BY <1>2 DEF TreeDecoding, loop, result
  <2>. QED  BY <2>1 DEF LosslessInv, Control, TextInv, VerdictInv, RowsSound, Facts!GreedyText
<1>3. CASE Raise
  BY <1>3 DEF Raise, loop, result, LosslessInv, Control, TextInv, VerdictInv
<1>4. CASE Detach
  BY <1>4 DEF Detach, loop, result, LosslessInv, Control, TextInv, VerdictInv
<1>5. CASE Return
  BY <1>5 DEF Return, loop, LosslessInv, Control, TextInv, VerdictInv
<1>6. CASE Terminated \/ UNCHANGED vars
  <2>1. UNCHANGED <<pc, pid, loop, buffer, prompt_outputs>>
    BY <1>6 DEF Terminated, vars, result
  <2>2. RowsSound => RowsSound'
    BY <2>1 DEF RowsSound
  <2>3. Accepts(best, accept) => Accepts(best, accept)'
    BY <2>1 DEF loop, Accepts, CandidateToken, TargetAt, Token
  <2>. QED  BY <2>1, <2>2, <2>3 DEF loop, LosslessInv, Control, TextInv, VerdictInv, Facts!GreedyText
<1>. QED  BY <1>1, <1>2, <1>3, <1>4, <1>5, <1>6

\* Every step keeps the text greedy.
LEMMA LosslessNext ==
  ASSUME TargetNeverPads, MaxSteps > 0, HookInv, LosslessInv, [Next]_vars
  PROVE  LosslessInv'
BY LosslessUpdate, LosslessGenerate, LosslessCandidates, LosslessEvaluate,
   LosslessOutput, LosslessOthers DEF Next

-----------------------------------------------------------------------------
(* The refinement.                                                         *)

\* The text of a prompt in hand is what follows the prompt.
LEMMA GeneratedIs ==
  ASSUME NEW p \in Seq(Vocab), p = Prompts[pid], ids \in Seq(Vocab)
  PROVE  ids # <<>> \/ Len(p) = 0 => Generated = SubSeq(ids, Len(p) + 1, Len(ids))
<1>1. ids = <<>> => SubSeq(ids, 0 + 1, Len(ids)) = <<>>
  OBVIOUS
<1>. QED  BY <1>1 DEF Generated

\* A step that commits tokens decodes; the end of a prompt delivers.
LEMMA StepRefines ==
  ASSUME TargetNeverPads, MaxSteps > 0, LosslessInv, [Next]_vars
  PROVE  [Text!Next]_<<Generated, prompt_outputs>>
<1>1. CASE UpdateInputs
  <2>. DEFINE p == Prompts[pid]
              g == SubSeq(ids, Len(p) + 1, Len(ids))
              h == SubSeq(ids', Len(p) + 1, Len(ids'))
  <2>1. pc = "update" /\ UNCHANGED <<pid, prompt_outputs>>
    BY <1>1 DEF UpdateInputs, result
  <2>2. /\ p \in Seq(Vocab) /\ Len(p) \in Nat
        /\ Len(prompt_outputs) < Len(Prompts) /\ pid = Len(prompt_outputs) + 1
    BY <2>1, PromptTyped DEF LosslessInv, Control
  <2>3. /\ ids' = ids \o NewTokens /\ NewTokens \in Seq(Vocab) /\ Len(NewTokens) >= 1
        /\ ids' \in Seq(Vocab) /\ ids \in Seq(Vocab)
        /\ Facts!GreedyText(p, ids) /\ Facts!GreedyText(p, ids') /\ Len(ids') > Len(p)
    BY <1>1, UpdatedText DEF LosslessInv, TextInv
  <2>4. Len(p) <= Len(ids)
    BY <2>3 DEF Facts!GreedyText
  <2>5. Text!GreedyFrom(p, h)
    BY <2>2, <2>3, Facts!TailGreedy DEF Text!GreedyFrom, Facts!GreedyFrom
  <2>6. Len(h) > Len(g) /\ Text!Prefix(g, h)
    <3>. DEFINE H(text) == SubSeq(text, Len(p) + 1, Len(text))
    <3>1. Len(H(ids \o NewTokens)) > Len(g) /\ Facts!Prefix(g, H(ids \o NewTokens))
      BY <2>2, <2>3, <2>4, Facts!TailGrows
    <3>2. H(ids \o NewTokens) = h
      BY <2>3
    <3>. HIDE DEF H, g, h
    <3>. QED  BY <3>1, <3>2 DEF Text!Prefix, Facts!Prefix
  <2>7. Generated = g
    <3>1. ids = <<>> => Len(p) = 0
      BY <2>2, <2>4
    <3>. QED  BY <2>2, <2>3, <3>1, GeneratedIs
  <2>8. Generated' = h
    <3>1. ids' # <<>>
      BY <2>2, <2>3
    <3>. QED  BY <2>1, <3>1 DEF Generated
  <2>. HIDE DEF g, h
  <2>9. Text!Decode
    BY <2>1, <2>2, <2>5, <2>6, <2>7, <2>8 DEF Text!Decode, Text!Current, p
  <2>. QED  BY <2>9 DEF Text!Next
<1>2. CASE Output
  <2>1. /\ pc = "output" /\ prompt_outputs' = Append(prompt_outputs, last) /\ ids' = <<>>
    BY <1>2 DEF Output
  <2>2. /\ Prompts[pid] \in Seq(Vocab) /\ Len(Prompts[pid]) \in Nat
        /\ Len(prompt_outputs) < Len(Prompts)
    BY <2>1, PromptTyped DEF LosslessInv, Control
  <2>3. /\ ids \in Seq(Vocab) /\ Len(ids) > Len(Prompts[pid])
        /\ last = SubSeq(ids, Len(Prompts[pid]) + 1, Len(ids))
    BY <2>1 DEF LosslessInv, TextInv
  <2>4. ids # <<>>
    BY <2>2, <2>3
  <2>5. Generated = last
    BY <2>3, <2>4 DEF Generated
  <2>6. last # <<>>
    <3>. DEFINE k == Len(Prompts[pid])
    <3>1. k \in 0..Len(ids) /\ Len(ids) - k >= 1
      BY <2>2, <2>3
    <3>2. Len(last) = Len(ids) - k
      <4>. HIDE DEF k
      <4>1. Len(SubSeq(ids, k + 1, Len(ids))) = Len(ids) - k
        BY <2>3, <3>1, Facts!TailOf
      <4>. QED  BY <2>3, <4>1 DEF k
    <3>3. Len(last) >= 1
      BY <3>1, <3>2
    <3>. QED  BY <3>3
  <2>7. Generated' = <<>>
    BY <2>1 DEF Generated
  <2>8. Text!Deliver
    BY <2>1, <2>2, <2>5, <2>6, <2>7 DEF Text!Deliver
  <2>. QED  BY <2>8 DEF Text!Next
<1>3. CASE Generate
  <2>1. /\ pc = "prompt" /\ ids = <<>> /\ ids' = Prompts[pid]
        /\ UNCHANGED <<pid, prompt_outputs>>
    BY <1>3 DEF Generate, result, LosslessInv, TextInv
  <2>2. Prompts[pid] \in Seq(Vocab) /\ Len(Prompts[pid]) \in Nat
    BY <2>1, PromptTyped DEF LosslessInv, Control
  <2>3. Generated = <<>> /\ Generated' = <<>>
    BY <2>1, <2>2 DEF Generated
  <2>. QED  BY <2>1, <2>3
<1>4. CASE Attach \/ Candidates \/ TreeDecoding \/ Evaluate \/ Raise \/ Detach \/ Return
             \/ Terminated \/ UNCHANGED vars
  <2>1. UNCHANGED <<pid, ids, prompt_outputs>>
    BY <1>4 DEF Attach, Candidates, TreeDecoding, Evaluate, Raise, Detach, Return,
                Terminated, vars, loop, result
  <2>. QED  BY <2>1 DEF Generated
<1>. QED  BY <1>1, <1>2, <1>3, <1>4 DEF Next

\* Losslessness: whatever the heads draft, whatever the histogram prunes and
\* whichever call raises, what the LP-Spec `collect` delivers is the target's
\* own greedy decoding of every prompt.
THEOREM Lossless ==
  ASSUME TargetNeverPads, MaxSteps > 0
  PROVE  Spec => RefinesGreedy
<1>1. Init => Text!Init
  BY DEF Init, Generated, Text!Init
<1>2. LosslessInv /\ HookInv /\ [Next]_vars => LosslessInv'
  BY LosslessNext
<1>3. LosslessInv /\ [Next]_vars => [Text!Next]_<<Generated, prompt_outputs>>
  BY StepRefines
<1>. QED  BY <1>1, <1>2, <1>3, LosslessInit, HookInvInit, HookInvNext, PTL
          DEF Spec, RefinesGreedy, Text!Spec

-----------------------------------------------------------------------------
(* The trace: what its steps say of the texts.                             *)

\* What step s says of a text lies within its first n tokens.
Within(s, n) ==
  /\ s.context_length \in 0..(n - 1)
  /\ \A k \in DOMAIN s.nodes : s.nodes[k].accepted =>
       s.nodes[k].depth \in Nat /\ s.context_length + s.nodes[k].depth + 2 <= n

\* What the steps ss of prompt p must say of its text.
Told(ss, p, text) ==
  /\ \A i \in 1..Len(ss) :
       /\ ss[i].prompt_id = p - 1
       /\ ss[i].context_length = IF i = 1 THEN Len(Prompts[p]) ELSE EndOf(ss[i - 1])
       /\ SpellsAccepts(ss[i], text) /\ Within(ss[i], Len(text))
  /\ Len(text) = IF ss = <<>> THEN Len(Prompts[p]) ELSE EndOf(ss[Len(ss)])

\* The pending tree p is the one selected as kept, and the buffer holds it.
SameTree(p, kept) ==
  /\ kept \in SUBSET (1..Tree.n)
  /\ \A v \in kept : ParentOf(v) # 0 => ParentOf(v) \in kept
  /\ buffer = InvalidatePaths(Tree.rows, kept)
  /\ p.nodes = RecordKept(kept, heads) /\ p.edited_rows = buffer
  /\ p.new_index_of = NewIndexOf(kept) /\ p.sample_token_id = root

\* Step s holds the verdict that is about to be committed.
Ahead(s) ==
  /\ s.prompt_id = pid - 1 /\ s.context_length = Len(ids)
  /\ s.accepted_length = accept /\ s.sample_token_id = root
  /\ \E p, kept : SameTree(p, kept) /\ s.nodes = MarkAccepted(p, best, accept)

\* The steps of the prompt in hand, and what its pending tree is.
Writing ==
  /\ pc \in {"candidates", "decode", "evaluate", "output"} => Told(StepsOf(pid), pid, ids)
  /\ pc \in {"decode", "evaluate"} => SameTree(pending, Kept(t, hist)) /\ pending # Nil
  /\ pc = "evaluate" => pending.context_length = Len(ids)
  /\ pc = "update" =>
       \E ss, s : /\ \E S : ss \in Seq(S)
                  /\ Ahead(s) /\ StepsOf(pid) = Append(ss, s) /\ Told(ss, pid, ids)
  /\ pc = "output" => Facts!GreedyText(Prompts[pid], ids)

DeliveredTold ==
  \A p \in 1..Len(prompt_outputs) :
    Told(StepsOf(p), p, Prompts[p] \o prompt_outputs[p])

FiledUnder ==
  \A i \in 1..Len(steps) :
    /\ steps[i].prompt_id \in 0..(pid - 1)
    /\ pc \in {"attach", "prompt"} => steps[i].prompt_id < pid - 1

TileInv == FiledUnder /\ Writing /\ DeliveredTold

-----------------------------------------------------------------------------
(* Filing a step.                                                          *)

\* The numbers up to m are m.
LEMMA IntervalCounted ==
  ASSUME NEW m \in Nat
  PROVE  IsFiniteSet(1..m) /\ Cardinality(1..m) = m
<1>1. IsFiniteSet(1..m) /\ Cardinality(1..m) = IF 1 > m THEN 0 ELSE m - 1 + 1
  BY FS_Interval
<1>. QED  BY <1>1

\* While no step is filed under a prompt or a later one, all lie before it.
LEMMA NoneYet ==
  ASSUME NEW n \in Nat, Len(steps) \in Nat,
         \A i \in 1..Len(steps) : steps[i].prompt_id \in Nat /\ steps[i].prompt_id < n
  PROVE  StepsOf(n + 1) = <<>>
<1>1. /\ (n + 1) - 1 = n /\ (n + 2) - 1 = n + 1 /\ (n + 1) + 1 = n + 2
  OBVIOUS
<1>2. {i \in 1..Len(steps) : steps[i].prompt_id < (n + 1) - 1} = 1..Len(steps)
  BY <1>1
<1>3. {i \in 1..Len(steps) : steps[i].prompt_id < (n + 2) - 1} = 1..Len(steps)
  BY <1>1
<1>4. StepsBefore(n + 1) = Len(steps) /\ StepsBefore(n + 2) = Len(steps)
  BY <1>2, <1>3, IntervalCounted DEF StepsBefore
<1>5. StepsOf(n + 1) = SubSeq(steps, Len(steps) + 1, Len(steps))
  BY <1>1, <1>4 DEF StepsOf
<1>. QED  BY <1>5

\* A step filed under the prompt in hand comes behind that prompt's others and
\* leaves the earlier prompts' steps where they lie.
LEMMA StepFiled ==
  ASSUME NEW S, steps \in Seq(S), NEW n \in Nat, NEW s, s.prompt_id = n,
         \A i \in 1..Len(steps) : steps[i].prompt_id \in 0..n,
         steps' = Append(steps, s)
  PROVE  /\ \A p \in 1..n : StepsOf(p)' = StepsOf(p)
         /\ StepsOf(n + 1) \in Seq(S) /\ StepsOf(n + 1)' = Append(StepsOf(n + 1), s)
         /\ \A i \in 1..Len(steps') : steps'[i].prompt_id \in 0..n
<1>a. PICK a : a = Len(steps)
  OBVIOUS
<1>. DEFINE Early(p) == {i \in 1..Len(steps) : steps[i].prompt_id < p - 1}
            Later(p) == {i \in 1..Len(steps') : steps'[i].prompt_id < p - 1}
<1>1. a \in Nat /\ \A i \in 1..a : steps[i].prompt_id \in 0..n
  BY <1>a
<1>2. /\ Len(steps') = a + 1 /\ steps'[a + 1] = s
      /\ \A i \in 1..a : steps'[i] = steps[i]
  BY <1>a
<1>s. steps \in Seq(S \cup {s}) /\ steps' \in Seq(S \cup {s})
  <2>1. steps \in Seq(S \cup {s})
    BY ElementOfSeq, LenProperties, SeqDef
  <2>. QED  BY <2>1
<1>3. ASSUME NEW i \in 1..(a + 1) PROVE i \in 1..a \/ i = a + 1
  BY <1>1
<1>4. \A i \in 1..Len(steps') : steps'[i].prompt_id \in 0..n
  <2>. SUFFICES ASSUME NEW i \in 1..(a + 1) PROVE steps'[i].prompt_id \in 0..n
    BY <1>2
  <2>1. CASE i \in 1..a
    BY <1>1, <1>2, <2>1
  <2>2. CASE i = a + 1
    BY <1>2, <2>2
  <2>. QED  BY <1>3, <2>1, <2>2
<1>5. ASSUME NEW p \in 1..(n + 1)
      PROVE  StepsBefore(p)' = StepsBefore(p) /\ StepsBefore(p) \in 0..a
  <2>1. Later(p) = Early(p)
    <3>1. ASSUME NEW i \in 1..(a + 1), steps'[i].prompt_id < p - 1
          PROVE  i \in 1..a /\ steps[i].prompt_id < p - 1
      <4>1. i # a + 1
        BY <1>2, <3>1
      <4>. QED  BY <1>2, <1>3, <3>1, <4>1
    <3>2. ASSUME NEW i \in 1..a, steps[i].prompt_id < p - 1
          PROVE  i \in 1..(a + 1) /\ steps'[i].prompt_id < p - 1
      BY <1>1, <1>2, <3>2
    <3>. QED  BY <1>a, <1>2, <3>1, <3>2
  <2>2. IsFiniteSet(1..a) /\ Cardinality(1..a) = a
    BY <1>1, IntervalCounted
  <2>3. IsFiniteSet(Early(p)) /\ Cardinality(Early(p)) <= a /\ Cardinality(Early(p)) \in Nat
    <3>1. Early(p) \in SUBSET (1..a)
      BY <1>a
    <3>. HIDE DEF Early
    <3>. QED  BY <2>2, <3>1, FS_Subset, FS_CardinalityType
  <2>4. StepsBefore(p) = Cardinality(Early(p)) /\ StepsBefore(p)' = Cardinality(Later(p))
    BY DEF StepsBefore
  <2>. HIDE DEF Early, Later
  <2>. QED  BY <1>1, <2>1, <2>3, <2>4
<1>6. StepsBefore(n + 2) = a
  <2>1. Early(n + 2) = 1..a
    <3>1. (n + 2) - 1 = n + 1 /\ \A i \in 1..a : steps[i].prompt_id < n + 1
      BY <1>1
    <3>. QED  BY <1>a, <3>1
  <2>2. StepsBefore(n + 2) = Cardinality(Early(n + 2))
    BY DEF StepsBefore
  <2>. QED  BY <1>1, <2>1, <2>2, IntervalCounted
<1>7. StepsBefore(n + 2)' = a + 1
  <2>1. Later(n + 2) = 1..(a + 1)
    <3>1. (n + 2) - 1 = n + 1 /\ \A i \in 1..(a + 1) : steps'[i].prompt_id < n + 1
      BY <1>2, <1>4
    <3>. QED  BY <1>2, <3>1
  <2>2. StepsBefore(n + 2)' = Cardinality(Later(n + 2))
    BY DEF StepsBefore
  <2>3. Cardinality(1..(a + 1)) = a + 1
    BY <1>1, IntervalCounted
  <2>. QED  BY <2>1, <2>2, <2>3
<1>8. ASSUME NEW p \in 1..n PROVE StepsOf(p)' = StepsOf(p)
  <2>1. p \in 1..(n + 1) /\ p + 1 \in 1..(n + 1)
    OBVIOUS
  <2>. DEFINE x == StepsBefore(p)
              y == StepsBefore(p + 1)
  <2>2. x \in 0..a /\ y \in 0..a /\ StepsBefore(p)' = x /\ StepsBefore(p + 1)' = y
    BY <1>5, <2>1
  <2>3. StepsOf(p) = SubSeq(steps, x + 1, y) /\ StepsOf(p)' = SubSeq(steps', x + 1, y)
    BY <2>2 DEF StepsOf
  <2>. HIDE DEF x, y
  <2>4. SubSeq(steps', x + 1, y) = SubSeq(steps, x + 1, y)
    BY <1>1, <1>2, <1>a, <1>s, <2>2
  <2>. QED  BY <2>3, <2>4
<1>9. StepsOf(n + 1) \in Seq(S) /\ StepsOf(n + 1)' = Append(StepsOf(n + 1), s)
  <2>. DEFINE x == StepsBefore(n + 1)
  <2>1. StepsBefore(n + 1)' = x /\ x \in 0..a
    <3>1. n + 1 \in 1..(n + 1)
      OBVIOUS
    <3>. QED  BY <1>5, <3>1
  <2>2. (n + 1) + 1 = n + 2
    OBVIOUS
  <2>3. StepsOf(n + 1)' = SubSeq(steps', x + 1, a + 1)
        /\ StepsOf(n + 1) = SubSeq(steps, x + 1, a)
    BY <1>6, <1>7, <2>1, <2>2 DEF StepsOf
  <2>. HIDE DEF x
  <2>4. SubSeq(steps', x + 1, a + 1) = Append(SubSeq(steps, x + 1, a), s)
    <3>. DEFINE u == SubSeq(steps', x + 1, a + 1)
                w == Append(SubSeq(steps, x + 1, a), s)
    <3>1. u \in Seq(S \cup {s}) /\ Len(u) = a + 1 - x
          /\ \A i \in 1..(a + 1 - x) : u[i] = steps'[x + i]
      BY <1>1, <1>2, <1>s, <2>1
    <3>2. w \in Seq(S \cup {s}) /\ Len(w) = a + 1 - x /\ w[a + 1 - x] = s
          /\ \A i \in 1..(a - x) : w[i] = steps[x + i]
      BY <1>1, <1>a, <1>s, <2>1
    <3>. HIDE DEF u, w
    <3>3. ASSUME NEW i \in 1..(a + 1 - x) PROVE u[i] = w[i]
      <4>1. CASE i = a + 1 - x
        <5>1. x + i = a + 1
          BY <1>1, <2>1, <4>1
        <5>. QED  BY <1>2, <3>1, <3>2, <4>1, <5>1
      <4>2. CASE i # a + 1 - x
        <5>1. i \in 1..(a - x) /\ x + i \in 1..a
          BY <1>1, <2>1, <4>2
        <5>. QED  BY <1>2, <3>1, <3>2, <5>1
      <4>. QED  BY <4>1, <4>2
    <3>4. u = w
      BY <3>1, <3>2, <3>3, SeqEqual
    <3>. QED  BY <3>4 DEF u, w
  <2>5. SubSeq(steps, x + 1, a) \in Seq(S)
    BY <1>1, <1>a, <2>1
  <2>. QED  BY <2>3, <2>4, <2>5
<1>. QED  BY <1>4, <1>8, <1>9

\* A step that spelled a text spells every continuation of it.
LEMMA SpellsLonger ==
  ASSUME NEW s, NEW x \in Seq(Vocab), NEW c \in Seq(Vocab),
         SpellsAccepts(s, x), Within(s, Len(x))
  PROVE  SpellsAccepts(s, x \o c) /\ Within(s, Len(x \o c))
<1>1. /\ Len(x) \in Nat /\ Len(c) \in Nat /\ Len(x \o c) = Len(x) + Len(c)
      /\ \A i \in 1..Len(x) : (x \o c)[i] = x[i]
  OBVIOUS
<1>. DEFINE u == x \o c
<1>. HIDE DEF u
<1>2. Len(u) \in Nat /\ Len(x) <= Len(u) /\ \A i \in 1..Len(x) : u[i] = x[i]
  BY <1>1 DEF u
<1>3. Within(s, Len(u))
  BY <1>1, <1>2 DEF Within
<1>4. s.sample_token_id = u[s.context_length + 1]
  <2>1. s.context_length + 1 \in 1..Len(x)
    BY <1>1 DEF Within
  <2>. QED  BY <1>2, <2>1 DEF SpellsAccepts
<1>5. ASSUME NEW k \in DOMAIN s.nodes, s.nodes[k].accepted
      PROVE  s.nodes[k].token_id = u[s.context_length + s.nodes[k].depth + 2]
  <2>1. s.nodes[k].token_id = x[s.context_length + s.nodes[k].depth + 2]
    BY <1>5 DEF SpellsAccepts
  <2>2. s.context_length + s.nodes[k].depth + 2 \in 1..Len(x)
    BY <1>1, <1>5 DEF Within
  <2>. QED  BY <1>2, <2>1, <2>2
<1>6. SpellsAccepts(s, u)
  BY <1>4, <1>5 DEF SpellsAccepts
<1>. QED  BY <1>3, <1>6 DEF u

\* A step that starts where the text stands, and spells what is committed
\* next, is one more tile.
LEMMA ToldLonger ==
  ASSUME NEW S, NEW ss \in Seq(S), NEW s, NEW p, NEW x \in Seq(Vocab), NEW c \in Seq(Vocab),
         Told(ss, p, x), s.prompt_id = p - 1, s.context_length = Len(x),
         Len(c) = s.accepted_length + 1, s.accepted_length \in Nat,
         SpellsAccepts(s, x \o c), Within(s, Len(x \o c))
  PROVE  Told(Append(ss, s), p, x \o c)
<1>. DEFINE a == Len(ss)
            u == x \o c
            tt == Append(ss, s)
<1>1. /\ a \in Nat /\ Len(tt) = a + 1 /\ tt[a + 1] = s /\ \A i \in 1..a : tt[i] = ss[i]
      /\ tt # <<>>
  BY AppendProperties, LenProperties
<1>2. Len(x) \in Nat /\ Len(u) = Len(x) + Len(c)
  OBVIOUS
<1>3. ASSUME NEW i \in 1..a
      PROVE  SpellsAccepts(ss[i], u) /\ Within(ss[i], Len(u))
  BY SpellsLonger DEF Told
<1>4. EndOf(s) = Len(u)
  <2>. HIDE DEF u
  <2>. QED  BY <1>2 DEF EndOf
<1>e. ss = <<>> <=> a = 0
  OBVIOUS
<1>. HIDE DEF a, u, tt
<1>5. ASSUME NEW i \in 1..(a + 1)
      PROVE  /\ tt[i].prompt_id = p - 1
             /\ tt[i].context_length = IF i = 1 THEN Len(Prompts[p]) ELSE EndOf(tt[i - 1])
             /\ SpellsAccepts(tt[i], u) /\ Within(tt[i], Len(u))
  <2>1. CASE i = a + 1
    <3>1. tt[i] = s
      BY <1>1, <2>1
    <3>2. s.context_length = IF i = 1 THEN Len(Prompts[p]) ELSE EndOf(tt[i - 1])
      <4>1. CASE a = 0
        <5>1. Len(x) = Len(Prompts[p])
          BY <1>e, <4>1 DEF Told
        <5>. QED  BY <2>1, <4>1, <5>1
      <4>2. CASE a # 0
        <5>1. i # 1 /\ i - 1 = a /\ a \in 1..a
          BY <1>1, <2>1, <4>2
        <5>2. Len(x) = EndOf(ss[a])
          BY <1>e, <4>2 DEF Told, a
        <5>. QED  BY <1>1, <5>1, <5>2
      <4>. QED  BY <4>1, <4>2
    <3>. QED  BY <3>1, <3>2 DEF u
  <2>2. CASE i # a + 1
    <3>1. i \in 1..a /\ (i # 1 => i - 1 \in 1..a)
      BY <1>1, <2>2
    <3>2. tt[i] = ss[i] /\ (i # 1 => tt[i - 1] = ss[i - 1])
      BY <1>1, <3>1
    <3>3. /\ ss[i].prompt_id = p - 1
          /\ ss[i].context_length = IF i = 1 THEN Len(Prompts[p]) ELSE EndOf(ss[i - 1])
      BY <3>1 DEF Told, a
    <3>. QED  BY <1>3, <3>1, <3>2, <3>3
  <2>. QED  BY <2>1, <2>2
<1>6. Len(u) = EndOf(tt[Len(tt)])
  BY <1>1, <1>4
<1>. QED  BY <1>1, <1>5, <1>6 DEF Told, tt, u

-----------------------------------------------------------------------------
(* The accepted nodes.                                                     *)

\* The nodes of a step are the entries of the kept nodes, flagged on the first
\* a drafted positions of the row.
FlagsFollow(nodes, kept, table, row, a) ==
  /\ DOMAIN nodes = 1..Cardinality(kept)
  /\ \A k \in 1..Cardinality(kept) :
       /\ nodes[k].depth = Depth(NodeAt(kept, k))
       /\ nodes[k].token_id = HeadToken(table, NodeAt(kept, k))
       /\ nodes[k].parent_idx = KeptParentIdx(kept, NodeAt(kept, k))
       /\ nodes[k].accepted <=>
            \E j \in 2..(a + 1) : row[j] \in kept /\ NewIndexOf(kept)[row[j]] = k - 1

\* The flagged entries are the row's first a drafted nodes, each flagged entry
\* the node of one position, its depth the position's, its parent flagged too.
PathFlagged(nodes, table, row, a) ==
  LET flagged == {k \in DOMAIN nodes : nodes[k].accepted}
  IN  /\ Cardinality(flagged) = a
      /\ \A k \in flagged : \E j \in 2..(a + 1) :
           /\ nodes[k].depth = j - 2
           /\ row[j] \in 1..Tree.n /\ nodes[k].token_id = HeadToken(table, row[j])
           /\ j # 2 => nodes[k].parent_idx + 1 \in flagged

\* mark_accepted flags the first a drafted positions of the chosen row.
LEMMA MarksFollow ==
  ASSUME NEW kept, NEW table, NEW p, NEW b, NEW a \in Nat,
         p.nodes = RecordKept(kept, table), p.new_index_of = NewIndexOf(kept),
         Len(p.edited_rows[b]) \in Nat, a + 1 <= Len(p.edited_rows[b])
  PROVE  FlagsFollow(MarkAccepted(p, b, a), kept, table, p.edited_rows[b], a)
<1>. DEFINE nodes == MarkAccepted(p, b, a)
            row == p.edited_rows[b]
<1>1. /\ DOMAIN p.nodes = 1..Cardinality(kept)
      /\ \A k \in 1..Cardinality(kept) :
           p.nodes[k] = Entry(kept, table, NodeAt(kept, k), FALSE)
  BY RecordEntries
<1>2. DOMAIN nodes = 1..Cardinality(kept)
  BY <1>1 DEF MarkAccepted
<1>3. DOMAIN NewIndexOf(kept) = kept
  BY DEF NewIndexOf
<1>4. ASSUME NEW k \in 1..Cardinality(kept)
      PROVE  /\ nodes[k].depth = Depth(NodeAt(kept, k))
             /\ nodes[k].token_id = HeadToken(table, NodeAt(kept, k))
             /\ nodes[k].parent_idx = KeptParentIdx(kept, NodeAt(kept, k))
             /\ nodes[k].accepted <=>
                  \E j \in 2..(a + 1) : row[j] \in kept /\ NewIndexOf(kept)[row[j]] = k - 1
  <2>. DEFINE flag == \E j \in 2..(a + 1) :
                /\ j <= Len(p.edited_rows[b])
                /\ LET v == p.edited_rows[b][j]
                   IN  v \in DOMAIN p.new_index_of /\ p.new_index_of[v] = k - 1
  <2>1. nodes[k] = [p.nodes[k] EXCEPT !.accepted = flag]
    BY <1>1 DEF MarkAccepted
  <2>2. flag <=> \E j \in 2..(a + 1) : row[j] \in kept /\ NewIndexOf(kept)[row[j]] = k - 1
    BY <1>3
  <2>. HIDE DEF flag, nodes
  <2>3. nodes[k] = Entry(kept, table, NodeAt(kept, k), flag)
    BY <1>1, <2>1 DEF Entry
  <2>. QED  BY <2>2, <2>3 DEF Entry
<1>. HIDE DEF nodes
<1>. QED  BY <1>2, <1>4 DEF FlagsFollow, nodes

\* An accepted prefix of a cut row holds kept nodes only, one per depth, so
\* re-indexing maps its positions one to one to the flagged entries.
LEMMA FlagsAreThePath ==
  ASSUME NEW kept \in SUBSET (1..Tree.n),
         \A v \in kept : ParentOf(v) # 0 => ParentOf(v) \in kept,
         NEW table, NEW b, NEW a \in Nat, NEW nodes, NEW rows,
         rows = InvalidatePaths(Tree.rows, kept),
         b \in 1..Len(rows), a + 1 <= Len(rows[b]),
         \A j \in 1..(a + 1) : rows[b][j] # Pad,
         FlagsFollow(nodes, kept, table, rows[b], a)
  PROVE  PathFlagged(nodes, table, rows[b], a)
<1>. DEFINE row == rows[b]
            renumber == NewIndexOf(kept)
            flagged == {k \in DOMAIN nodes : nodes[k].accepted}
<1>1. Len(Tree.rows) \in Nat /\ Len(rows) = Len(Tree.rows) /\ b \in 1..Len(Tree.rows)
  <2>1. Tree.rows \in Seq(Seq((0..Tree.n) \cup {Pad}))
    BY TreeAssumption
  <2>2. Len(Tree.rows) \in Nat
    BY <2>1, LenProperties
  <2>. QED  BY <2>2 DEF InvalidatePaths
<1>2. /\ Len(row) = Len(Tree.rows[b]) /\ Len(row) \in Nat /\ row[1] = 0
      /\ \A j \in 1..(a + 1) : row[j] = Tree.rows[b][j]
  <2>1. Len(Tree.rows[b]) \in Nat /\ Tree.rows[b][1] = 0
    BY <1>1, RowTyped
  <2>2. row = [j \in 1..Len(Tree.rows[b]) |->
                 IF AliveAfter(Tree.rows[b], kept, j) THEN Tree.rows[b][j] ELSE Pad]
    BY <1>1 DEF InvalidatePaths, TruncatedRow
  <2>. HIDE DEF row
  <2>3. Len(row) = Len(Tree.rows[b])
    BY <2>1, <2>2
  <2>4. \A j \in 1..(a + 1) : row[j] = Tree.rows[b][j]
    <3>1. \A j \in 1..(a + 1) : row[j] # Pad /\ j \in 1..Len(Tree.rows[b])
      BY <2>1, <2>3 DEF row
    <3>. QED  BY <2>2, <3>1
  <2>5. 1 \in 1..(a + 1)
    OBVIOUS
  <2>. QED  BY <2>1, <2>3, <2>4, <2>5
<1>3. NodesOf(rows) = kept
  BY GateIsClosed
<1>4. ASSUME NEW j \in 2..(a + 1)
      PROVE  /\ row[j] \in kept /\ row[j] \in 1..Tree.n
             /\ Depth(row[j]) = j - 2 /\ ParentOf(row[j]) = row[j - 1]
  <2>1. j \in 2..Len(Tree.rows[b]) /\ j \in 1..(a + 1) /\ j - 1 \in 1..(a + 1)
    BY <1>2
  <2>2. row[j] = Tree.rows[b][j] /\ row[j - 1] = Tree.rows[b][j - 1] /\ row[j] # Pad
    BY <1>2, <2>1
  <2>3. /\ row[j] \in 1..Tree.n /\ Depth(row[j]) = j - 2 /\ ParentOf(row[j]) = row[j - 1]
    BY <1>1, <2>1, <2>2, RowParent
  <2>4. row[j] \in NodesOf(rows)
    <3>1. row[j] \notin {0, Pad} /\ j \in 1..Len(rows[b])
      BY <1>2, <2>1, <2>2, <2>3, MedusaAssumption
    <3>. QED  BY <3>1 DEF NodesOf
  <2>. QED  BY <1>3, <2>3, <2>4
<1>5. /\ \A v \in kept : renumber[v] \in 0..(Cardinality(kept) - 1)
      /\ \A u, v \in kept : renumber[u] = renumber[v] => u = v
      /\ Cardinality(kept) \in Nat
  BY IndexOrdered, KeptFinite, MedusaAssumption
<1>6. /\ DOMAIN nodes = 1..Cardinality(kept)
      /\ \A k \in 1..Cardinality(kept) :
           /\ nodes[k].depth = Depth(NodeAt(kept, k))
           /\ nodes[k].token_id = HeadToken(table, NodeAt(kept, k))
           /\ nodes[k].parent_idx = KeptParentIdx(kept, NodeAt(kept, k))
           /\ nodes[k].accepted <=>
                \E j \in 2..(a + 1) : row[j] \in kept /\ renumber[row[j]] = k - 1
  BY DEF FlagsFollow
<1>7. ASSUME NEW j \in 2..(a + 1)
      PROVE  LET k == renumber[row[j]] + 1
             IN  /\ k \in flagged /\ k \in 1..Cardinality(kept)
                 /\ nodes[k].depth = j - 2 /\ nodes[k].token_id = HeadToken(table, row[j])
                 /\ nodes[k].parent_idx = KeptParentIdx(kept, row[j])
  <2>. DEFINE k == renumber[row[j]] + 1
  <2>1. row[j] \in kept
    BY <1>4
  <2>2. k \in 1..Cardinality(kept) /\ k - 1 = renumber[row[j]]
    <3>. DEFINE i == renumber[row[j]]
                m == Cardinality(kept)
    <3>1. i \in 0..(m - 1) /\ m \in Nat
      BY <1>5, <2>1
    <3>. HIDE DEF i, m
    <3>2. i + 1 \in 1..m /\ (i + 1) - 1 = i
      BY <3>1
    <3>. QED  BY <3>2 DEF i, m
  <2>3. k \in flagged
    <3>1. nodes[k].accepted
      BY <1>6, <2>1, <2>2
    <3>. QED  BY <1>6, <2>2, <3>1
  <2>4. NodeAt(kept, k) = row[j]
    BY <2>1, NodeAtExists
  <2>. HIDE DEF k, row, renumber, flagged
  <2>. QED  BY <1>4, <1>6, <2>2, <2>3, <2>4 DEF k
<1>. HIDE DEF row, renumber
<1>8. ASSUME NEW k \in flagged PROVE \E j \in 2..(a + 1) : k = renumber[row[j]] + 1
  <2>1. k \in 1..Cardinality(kept)
    BY <1>6
  <2>2. PICK j \in 2..(a + 1) : renumber[row[j]] = k - 1
    BY <1>6, <2>1
  <2>. QED  BY <2>1, <2>2
<1>9. Cardinality(flagged) = a
  <2>. DEFINE J == 2..(a + 1)
              f == [j \in J |-> renumber[row[j]] + 1]
  <2>1. IsFiniteSet(J) /\ Cardinality(J) = a
    <3>1. /\ IsFiniteSet(2..(a + 1))
          /\ Cardinality(2..(a + 1)) = IF 2 > a + 1 THEN 0 ELSE (a + 1) - 2 + 1
      <4>1. 2 \in Int /\ a + 1 \in Int
        OBVIOUS
      <4>. QED  BY ONLY <4>1, FS_Interval
    <3>. QED  BY <3>1
  <2>2. \A j \in J : f[j] \in flagged /\ f[j] = renumber[row[j]] + 1 /\ nodes[f[j]].depth = j - 2
    BY <1>7
  <2>3. f \in [J -> flagged]
    BY <2>2
  <2>. HIDE DEF f, flagged
  <2>4. ASSUME NEW i \in J, NEW j \in J, f[i] = f[j] PROVE i = j
    <3>1. i - 2 = j - 2
      BY <2>2, <2>4
    <3>. QED  BY <3>1
  <2>5. \A k \in flagged : \E j \in J : f[j] = k
    BY <1>8, <2>2
  <2>. HIDE DEF J
  <2>6. f \in Bijection(J, flagged)
    BY <2>3, <2>4, <2>5 DEF Bijection, Injection, IsInjective, Surjection
  <2>7. ExistsBijection(J, flagged)
    BY <2>6 DEF ExistsBijection
  <2>. QED  BY <2>1, <2>7, FS_Bijection
<1>10. ASSUME NEW k \in flagged
       PROVE  \E j \in 2..(a + 1) :
                /\ nodes[k].depth = j - 2
                /\ row[j] \in 1..Tree.n /\ nodes[k].token_id = HeadToken(table, row[j])
                /\ j # 2 => nodes[k].parent_idx + 1 \in flagged
  <2>1. PICK j \in 2..(a + 1) : k = renumber[row[j]] + 1
    BY <1>8
  <2>2. /\ nodes[k].depth = j - 2 /\ nodes[k].token_id = HeadToken(table, row[j])
        /\ nodes[k].parent_idx = KeptParentIdx(kept, row[j])
        /\ row[j] \in 1..Tree.n /\ ParentOf(row[j]) = row[j - 1]
    BY <1>4, <1>7, <2>1
  <2>3. ASSUME j # 2 PROVE nodes[k].parent_idx + 1 \in flagged
    <3>1. j - 1 \in 2..(a + 1)
      BY <2>3
    <3>2. row[j - 1] \in 1..Tree.n /\ row[j - 1] >= 1
      BY <1>4, <3>1, MedusaAssumption
    <3>3. KeptParentIdx(kept, row[j]) = renumber[row[j - 1]]
      BY <2>2, <3>2 DEF KeptParentIdx, renumber
    <3>4. renumber[row[j - 1]] + 1 \in flagged
      BY <1>7, <3>1
    <3>. QED  BY <2>2, <3>3, <3>4
  <2>. QED  BY <2>2, <2>3
<1>. QED  BY <1>9, <1>10 DEF row, PathFlagged

\* Nothing but the selected tree and the verdict goes into the last step, so
\* committing the verdict makes the text say what the step says.
LEMMA CommitSpells ==
  ASSUME TargetNeverPads, LosslessInv, pc = "update", NEW s, Ahead(s)
  PROVE  SpellsAccepts(s, ids \o NewTokens) /\ Within(s, Len(ids \o NewTokens))
<1>. DEFINE x == ids \o NewTokens
            row == buffer[best]
            a == accept
            flagged == {k \in DOMAIN s.nodes : s.nodes[k].accepted}
<1>1. /\ ids \in Seq(Vocab) /\ kv = ids /\ root = Argmax(ids) /\ RowsSound
      /\ best \in 1..Len(buffer) /\ accept \in Nat /\ Accepts(best, accept)
  BY DEF LosslessInv, TextInv, VerdictInv
<1>2. PICK p, kept : SameTree(p, kept) /\ s.nodes = MarkAccepted(p, best, accept)
  BY DEF Ahead
<1>3. /\ kept \in SUBSET (1..Tree.n)
      /\ \A v \in kept : ParentOf(v) # 0 => ParentOf(v) \in kept
      /\ buffer = InvalidatePaths(Tree.rows, kept)
      /\ p.nodes = RecordKept(kept, heads) /\ p.edited_rows = buffer
      /\ p.new_index_of = NewIndexOf(kept)
  BY <1>2 DEF SameTree
<1>4. /\ NewTokens \in Seq(Vocab) /\ Len(NewTokens) = a + 1
      /\ \A j \in 1..(a + 1) : NewTokens[j] = Argmax(ids \o SubSeq(NewTokens, 1, j - 1))
      /\ \A j \in 1..(a + 1) : NewTokens[j] = CandidateToken(row[j])
  <2>1. /\ NewTokens \in Seq(Vocab) /\ Len(NewTokens) = a + 1
        /\ \A j \in 1..Len(NewTokens) : NewTokens[j] = Argmax(ids \o SubSeq(NewTokens, 1, j - 1))
    BY <1>1, CommitIsGreedy
  <2>2. NewTokens = [j \in 1..(a + 1) |-> CandidateToken(row[j])]
    BY DEF NewTokens, Committed
  <2>. QED  BY <2>1, <2>2
<1>5. /\ Len(row) \in Nat /\ a + 1 <= Len(row) /\ row[1] = 0
  <2>. DEFINE V == Seq((0..Tree.n) \cup {Pad})
  <2>1. buffer \in Seq(V) /\ row[1] = 0
    BY <1>1 DEF RowsSound
  <2>2. row \in V
    <3>. HIDE DEF V
    <3>. QED  BY <1>1, <2>1, ElementOfSeq
  <2>3. Len(row) \in Nat
    BY <2>2
  <2>4. a < Len(row)
    BY <1>1 DEF Accepts
  <2>. QED  BY <1>1, <2>1, <2>3, <2>4
<1>6. ASSUME NEW j \in 1..(a + 1) PROVE row[j] # Pad
  <2>. DEFINE c == NewTokens
  <2>1. ids \o SubSeq(c, 1, j - 1) \in Seq(Vocab)
    <3>1. SubSeq(c, 1, j - 1) \in Seq(Vocab)
      <4>. HIDE DEF c
      <4>1. c \in Seq(Vocab) /\ Len(c) = a + 1 /\ a \in Nat
        BY <1>1, <1>4 DEF c
      <4>. QED  BY <4>1
    <3>. HIDE DEF c
    <3>. QED  BY <1>1, <3>1
  <2>2. c[j] # PadToken
    BY <1>4, <2>1 DEF TargetNeverPads
  <2>3. c[j] = CandidateToken(row[j])
    BY <1>4
  <2>. QED  BY <2>2, <2>3 DEF CandidateToken
<1>7. /\ s.context_length = Len(ids) /\ s.sample_token_id = root
      /\ s.accepted_length = a
  BY DEF Ahead
<1>8. PathFlagged(s.nodes, heads, row, a)
  <2>1. FlagsFollow(s.nodes, kept, heads, row, a)
    <3>1. FlagsFollow(MarkAccepted(p, best, a), kept, heads, p.edited_rows[best], a)
      BY <1>1, <1>3, <1>5, MarksFollow
    <3>. QED  BY <1>2, <1>3, <3>1
  <2>2. a \in Nat /\ best \in 1..Len(buffer) /\ a + 1 <= Len(buffer[best])
        /\ \A j \in 1..(a + 1) : buffer[best][j] # Pad
    BY <1>1, <1>5, <1>6
  <2>. HIDE DEF a
  <2>. QED  BY <1>3, <2>1, <2>2, FlagsAreThePath
<1>9. /\ x \in Seq(Vocab) /\ Len(x) = Len(ids) + a + 1 /\ Len(ids) \in Nat
      /\ \A j \in 1..(a + 1) : x[Len(ids) + j] = NewTokens[j]
  <2>. DEFINE c == NewTokens
  <2>1. c \in Seq(Vocab) /\ Len(c) = a + 1 /\ ids \in Seq(Vocab)
    BY <1>1, <1>4
  <2>. HIDE DEF c
  <2>2. /\ ids \o c \in Seq(Vocab) /\ Len(ids \o c) = Len(ids) + a + 1 /\ Len(ids) \in Nat
        /\ \A j \in 1..(a + 1) : (ids \o c)[Len(ids) + j] = c[j]
    BY <1>1, <2>1
  <2>. QED  BY <2>2 DEF c
<1>10. x[Len(ids) + 1] = root
  <2>1. 1 \in 1..(a + 1)
    BY <1>1
  <2>2. NewTokens[1] = root
    BY <1>4, <1>5, <2>1 DEF CandidateToken, Token, Pad
  <2>. QED  BY <1>9, <2>1, <2>2
<1>11. ASSUME NEW k \in flagged
       PROVE  /\ s.nodes[k].depth \in 0..(a - 1)
              /\ s.nodes[k].token_id = x[Len(ids) + s.nodes[k].depth + 2]
              /\ s.nodes[k].depth > 0 => s.nodes[k].parent_idx + 1 \in flagged
  <2>1. PICK j \in 2..(a + 1) :
           /\ s.nodes[k].depth = j - 2
           /\ row[j] \in 1..Tree.n /\ s.nodes[k].token_id = HeadToken(heads, row[j])
           /\ j # 2 => s.nodes[k].parent_idx + 1 \in flagged
    BY <1>8 DEF PathFlagged
  <2>2. j \in 1..(a + 1)
    BY <1>1
  <2>3. NewTokens[j] = HeadToken(heads, row[j])
    <3>1. row[j] # 0 /\ row[j] # Pad
      BY <1>6, <2>1, <2>2, MedusaAssumption
    <3>. QED  BY <1>4, <2>2, <3>1 DEF CandidateToken, Token
  <2>4. x[Len(ids) + j] = s.nodes[k].token_id
    BY <1>9, <2>1, <2>2, <2>3
  <2>. HIDE DEF x, row, a, flagged
  <2>5. s.nodes[k].depth = j - 2 /\ Len(ids) + (j - 2) + 2 = Len(ids) + j
    BY <1>9, <2>1
  <2>6. s.nodes[k].depth \in 0..(a - 1)
    BY <1>1, <2>1 DEF a
  <2>. QED  BY <2>1, <2>4, <2>5, <2>6
<1>. HIDE DEF x, row
<1>12. SpellsAccepts(s, x)
  <2>1. Cardinality(flagged) = a
    BY <1>8 DEF PathFlagged
  <2>. QED  BY <1>7, <1>10, <1>11, <2>1 DEF SpellsAccepts
<1>13. Within(s, Len(x))
  <2>1. s.context_length \in 0..(Len(x) - 1)
    BY <1>1, <1>7, <1>9
  <2>2. ASSUME NEW k \in DOMAIN s.nodes, s.nodes[k].accepted
        PROVE  s.nodes[k].depth \in Nat /\ s.context_length + s.nodes[k].depth + 2 <= Len(x)
    <3>1. s.nodes[k].depth \in 0..(a - 1)
      BY <1>11, <2>2
    <3>. QED  BY <1>1, <1>7, <1>9, <3>1
  <2>. QED  BY <2>1, <2>2 DEF Within
<1>. QED  BY <1>12, <1>13 DEF x

-----------------------------------------------------------------------------
(* The trace: the steps of a collection.                                   *)

\* What the earlier invariants and the new one say together.
TraceInv == HookInv /\ RecordInv /\ LosslessInv /\ TileInv

\* The recorded steps are a sequence, numbered by prompts up to the one in hand.
LEMMA TraceTyped ==
  ASSUME TraceInv
  PROVE  /\ \E S : steps \in Seq(S)
         /\ Len(steps) \in Nat /\ prompt_outputs \in Seq(Seq(Vocab)) /\ ids \in Seq(Vocab)
         /\ Len(prompt_outputs) \in Nat /\ pid = Len(prompt_outputs) + 1
         /\ \A i \in 1..Len(steps) : steps[i].prompt_id \in 0..(pid - 1)
<1>1. \E S : steps \in Seq(S)
  BY DEF TraceInv, RecordInv, Learnt, StepsGood
<1>2. Len(steps) \in Nat
  BY <1>1
<1>3. prompt_outputs \in Seq(Seq(Vocab)) /\ ids \in Seq(Vocab) /\ pid = Len(prompt_outputs) + 1
  BY DEF TraceInv, LosslessInv, Control, TextInv
<1>. QED  BY <1>1, <1>2, <1>3 DEF TraceInv, TileInv, FiledUnder

\* The trace is read from the recorded steps and the outputs alone.
LEMMA TraceFrame ==
  ASSUME UNCHANGED <<steps, prompt_outputs, pid>>
  PROVE  /\ \A p : StepsOf(p)' = StepsOf(p)
         /\ DeliveredTold => DeliveredTold'
         /\ FiledUnder /\ pc' \notin {"attach", "prompt"} => FiledUnder'
<1>1. \A p : StepsOf(p)' = StepsOf(p)
  BY DEF StepsOf, StepsBefore
<1>. QED  BY <1>1 DEF DeliveredTold, FiledUnder

\* A prompt starts with no steps and its own text.
LEMMA TileGenerate ==
  ASSUME MaxSteps > 0, TraceInv, Generate
  PROVE  TileInv'
<1>1. /\ pc = "prompt" /\ pc' = "candidates" /\ ids' = Prompts[pid]
      /\ UNCHANGED <<pid, steps, prompt_outputs>>
  BY DEF Generate, result
<1>n. PICK n : n = Len(prompt_outputs)
  OBVIOUS
<1>2. /\ n \in Nat /\ Len(steps) \in Nat /\ pid = n + 1
      /\ \A i \in 1..Len(steps) : steps[i].prompt_id \in 0..n /\ steps[i].prompt_id < n
  <2>1. /\ n \in Nat /\ Len(steps) \in Nat /\ pid = n + 1 /\ pid - 1 = n
        /\ \A i \in 1..Len(steps) : steps[i].prompt_id \in 0..(pid - 1)
    BY <1>n, TraceTyped
  <2>2. \A i \in 1..Len(steps) : steps[i].prompt_id < pid - 1
    BY <1>1 DEF TraceInv, TileInv, FiledUnder
  <2>. QED  BY <2>1, <2>2
<1>3. StepsOf(pid) = <<>>
  <2>1. \A i \in 1..Len(steps) : steps[i].prompt_id \in Nat /\ steps[i].prompt_id < n
    BY <1>2
  <2>2. StepsOf(n + 1) = <<>>
    BY <1>2, <2>1, NoneYet
  <2>. QED  BY <1>2, <2>2
<1>4. Told(<<>>, pid, Prompts[pid])
  BY DEF Told
<1>5. Told(StepsOf(pid)', pid', ids')
  BY <1>1, <1>3, <1>4, TraceFrame
<1>. QED  BY <1>1, <1>5, TraceFrame DEF TraceInv, TileInv, Writing

\* The wrapped generate_candidates puts the selected tree in hand.
LEMMA TileCandidates ==
  ASSUME NilIsNoTree, TraceInv, Candidates
  PROVE  TileInv'
<1>1. /\ pc = "candidates" /\ pc' = "decode"
      /\ UNCHANGED <<pid, ids, root, knobs, hist, t, steps, prompt_outputs>>
  BY DEF Candidates, result
<1>2. PristineRows = Tree.rows
  BY DEF PristineRows, TraceInv, HookInv
<1>. DEFINE kept == Kept(t, hist)
<1>3. PICK table \in HeadTables :
        /\ buffer' = InvalidatePaths(Tree.rows, kept) /\ heads' = table
        /\ pending' = [nodes |-> RecordKept(kept, table),
                       edited_rows |-> InvalidatePaths(Tree.rows, kept),
                       new_index_of |-> NewIndexOf(kept),
                       context_length |-> 0, sample_token_id |-> root]
  BY <1>2 DEF Candidates, EditedRows, Kept
<1>4. /\ kept \in SUBSET (1..Tree.n)
      /\ \A v \in kept : ParentOf(v) # 0 => ParentOf(v) \in kept
  <2>1. CountsTyped(hist) /\ knobs \in Knobs
    BY HistOfTyped DEF TraceInv, RecordInv, Learnt
  <2>. QED  BY <2>1, KeptIsSubtree
<1>5. kept' = kept
  BY <1>1 DEF Kept, Selected
<1>k. PICK keep : keep = kept
  OBVIOUS
<1>6. SameTree(pending, Kept(t, hist))' /\ pending' # Nil
  <2>1. kept' = keep /\ Kept(t, hist)' = keep
    BY <1>5, <1>k
  <2>. HIDE DEF kept
  <2>2. SameTree(pending, keep)'
    BY <1>1, <1>3, <1>4, <1>k DEF SameTree
  <2>3. pending' # Nil
    BY <1>3 DEF NilIsNoTree
  <2>. QED  BY <2>1, <2>2, <2>3 DEF SameTree
<1>7. Told(StepsOf(pid)', pid', ids')
  BY <1>1, TraceFrame DEF TraceInv, TileInv, Writing
<1>. QED  BY <1>1, <1>6, <1>7, TraceFrame DEF TraceInv, TileInv, Writing

\* The wrapped tree_decoding notes the length of the text.
LEMMA TileDecoding ==
  ASSUME NilIsNoTree, TraceInv, TreeDecoding
  PROVE  TileInv'
<1>1. /\ pc = "decode" /\ pc' = "evaluate"
      /\ UNCHANGED <<pid, ids, root, heads, buffer, knobs, hist, t, steps, prompt_outputs>>
  BY DEF TreeDecoding, result, static, loop
<1>2. SameTree(pending, Kept(t, hist)) /\ pending # Nil /\ Told(StepsOf(pid), pid, ids)
  BY <1>1 DEF TraceInv, TileInv, Writing
<1>3. pending' = [pending EXCEPT !.context_length = Len(ids)]
  BY <1>2 DEF TreeDecoding, ContextLength
<1>4. \E w1, w2, w3, w4, w5 :
        pending = [nodes |-> w1, edited_rows |-> w2, new_index_of |-> w3,
                   context_length |-> w4, sample_token_id |-> w5]
  <2>1. InFlight
    BY <1>1 DEF TraceInv, RecordInv
  <2>. QED  BY <2>1 DEF InFlight
<1>5. /\ pending'.nodes = pending.nodes /\ pending'.edited_rows = pending.edited_rows
      /\ pending'.new_index_of = pending.new_index_of
      /\ pending'.sample_token_id = pending.sample_token_id
      /\ pending'.context_length = Len(ids)
  BY <1>3, <1>4
<1>p. pending' # Nil
  BY <1>3, <1>4 DEF NilIsNoTree
<1>k. PICK keep : keep = Kept(t, hist)
  OBVIOUS
<1>6. Kept(t, hist)' = keep
  BY <1>1, <1>k DEF Kept, Selected
<1>7. SameTree(pending, Kept(t, hist))'
  <2>1. SameTree(pending, keep)'
    BY <1>1, <1>2, <1>5, <1>k DEF SameTree
  <2>. QED  BY <1>6, <2>1 DEF SameTree
<1>8. Told(StepsOf(pid)', pid', ids')
  BY <1>1, <1>2, TraceFrame
<1>. QED  BY <1>1, <1>5, <1>p, <1>7, <1>8, TraceFrame DEF TraceInv, TileInv, Writing

\* The wrapped evaluate_posterior records the pending tree and the verdict.
LEMMA TileEvaluate ==
  ASSUME TraceInv, Evaluate
  PROVE  TileInv'
<1>1. /\ pc = "evaluate" /\ pc' = "update"
      /\ UNCHANGED <<pid, ids, root, heads, buffer, prompt_outputs>>
  BY DEF Evaluate, result
<1>2. /\ SameTree(pending, Kept(t, hist)) /\ pending # Nil /\ Told(StepsOf(pid), pid, ids)
      /\ pending.context_length = Len(ids)
  BY <1>1 DEF TraceInv, TileInv, Writing
<1>3. PICK b \in 1..Len(buffer), a \in 0..Tree.n :
        /\ best' = b /\ accept' = a
        /\ steps' = Append(steps,
             [step_id |-> t, prompt_id |-> pid - 1,
              context_length |-> pending.context_length,
              nodes |-> MarkAccepted(pending, b, a), accepted_length |-> a,
              sample_token_id |-> pending.sample_token_id])
  BY <1>2 DEF Evaluate
<1>s. PICK s : s = [step_id |-> t, prompt_id |-> pid - 1,
                    context_length |-> pending.context_length,
                    nodes |-> MarkAccepted(pending, b, a), accepted_length |-> a,
                    sample_token_id |-> pending.sample_token_id]
  OBVIOUS
<1>p. PICK p : p = pending
  OBVIOUS
<1>k. PICK kept : kept = Kept(t, hist)
  OBVIOUS
<1>c. PICK ss : ss = StepsOf(pid)
  OBVIOUS
<1>n. PICK n : n = Len(prompt_outputs)
  OBVIOUS
<1>4. /\ s.prompt_id = pid - 1 /\ s.context_length = Len(ids) /\ s.accepted_length = accept'
      /\ s.sample_token_id = root /\ s.nodes = MarkAccepted(p, b, a)
  BY <1>2, <1>3, <1>s, <1>p DEF SameTree
<1>5. /\ n \in Nat /\ pid = n + 1 /\ s.prompt_id = n
      /\ \A i \in 1..Len(steps) : steps[i].prompt_id \in 0..n
  <2>1. /\ n \in Nat /\ pid = n + 1 /\ pid - 1 = n
        /\ \A i \in 1..Len(steps) : steps[i].prompt_id \in 0..(pid - 1)
    BY <1>n, TraceTyped
  <2>. QED  BY <1>4, <2>1
<1>6. PICK S : steps \in Seq(S)
  BY TraceTyped
<1>7. /\ \A q \in 1..n : StepsOf(q)' = StepsOf(q)
      /\ StepsOf(n + 1) \in Seq(S) /\ StepsOf(n + 1)' = Append(StepsOf(n + 1), s)
      /\ \A i \in 1..Len(steps') : steps'[i].prompt_id \in 0..n
  <2>1. /\ steps \in Seq(S) /\ n \in Nat /\ s.prompt_id = n
        /\ \A i \in 1..Len(steps) : steps[i].prompt_id \in 0..n
        /\ steps' = Append(steps, s)
    BY <1>3, <1>5, <1>6, <1>s
  <2>. QED  BY ONLY <2>1, StepFiled
<1>8. FiledUnder'
  <2>1. pid' - 1 = n
    BY <1>1, <1>5
  <2>. QED  BY <1>1, <1>7, <2>1 DEF FiledUnder
<1>9. DeliveredTold'
  <2>. SUFFICES ASSUME NEW q \in 1..n
                PROVE  Told(StepsOf(q)', q, Prompts[q] \o prompt_outputs[q])
    BY <1>1, <1>n DEF DeliveredTold
  <2>. QED  BY <1>7, <1>n DEF TraceInv, TileInv, DeliveredTold
<1>10. Ahead(s)'
  <2>1. SameTree(p, kept)'
    BY <1>1, <1>2, <1>p, <1>k DEF SameTree
  <2>2. s.nodes = MarkAccepted(p, best', accept')
    BY <1>3, <1>4
  <2>3. /\ s.prompt_id = pid' - 1 /\ s.context_length = Len(ids')
        /\ s.accepted_length = accept' /\ s.sample_token_id = root'
    BY <1>1, <1>4
  <2>. QED  BY <2>1, <2>2, <2>3 DEF Ahead, MarkAccepted
<1>11. /\ ss \in Seq(S) /\ StepsOf(pid)' = Append(ss, s) /\ Told(ss, pid', ids')
  <2>1. ss = StepsOf(n + 1) /\ StepsOf(pid)' = StepsOf(n + 1)'
    BY <1>1, <1>5, <1>c
  <2>2. Told(ss, pid, ids)
    BY <1>2, <1>c
  <2>. QED  BY <1>1, <1>7, <2>1, <2>2
<1>12. Writing'
  BY <1>1, <1>10, <1>11 DEF Writing
<1>. QED  BY <1>8, <1>9, <1>12 DEF TileInv

\* Committing the verdict makes the text say what the last step says.
LEMMA TileUpdate ==
  ASSUME TargetNeverPads, TraceInv, UpdateInputs
  PROVE  TileInv'
<1>1. /\ pc = "update" /\ pc' \in {"output", "candidates"}
      /\ UNCHANGED <<pid, steps, prompt_outputs>>
  BY DEF UpdateInputs, result
<1>l. LosslessInv
  BY DEF TraceInv
<1>2. /\ ids' = ids \o NewTokens /\ NewTokens \in Seq(Vocab) /\ ids \in Seq(Vocab)
      /\ Facts!GreedyText(Prompts[pid], ids')
  BY <1>l, UpdatedText DEF LosslessInv, TextInv
<1>3. PICK ss, s : /\ \E S : ss \in Seq(S)
                   /\ Ahead(s) /\ StepsOf(pid) = Append(ss, s) /\ Told(ss, pid, ids)
  BY <1>1 DEF TraceInv, TileInv, Writing
<1>4. PICK S : ss \in Seq(S)
  BY <1>3
<1>5. SpellsAccepts(s, ids \o NewTokens) /\ Within(s, Len(ids \o NewTokens))
  BY <1>1, <1>3, <1>l, CommitSpells
<1>6. /\ s.prompt_id = pid - 1 /\ s.context_length = Len(ids)
      /\ s.accepted_length \in Nat /\ Len(NewTokens) = s.accepted_length + 1
  <2>1. s.prompt_id = pid - 1 /\ s.context_length = Len(ids) /\ s.accepted_length = accept
    BY <1>3 DEF Ahead
  <2>2. accept \in Nat
    BY <1>1, <1>l DEF LosslessInv, VerdictInv
  <2>3. Len(NewTokens) = accept + 1
    BY <2>2 DEF NewTokens, Committed
  <2>. QED  BY <2>1, <2>2, <2>3
<1>7. Told(Append(ss, s), pid, ids \o NewTokens)
  <2>. DEFINE c == NewTokens
  <2>1. /\ ss \in Seq(S) /\ ids \in Seq(Vocab) /\ c \in Seq(Vocab)
        /\ Told(ss, pid, ids) /\ s.prompt_id = pid - 1 /\ s.context_length = Len(ids)
        /\ Len(c) = s.accepted_length + 1 /\ s.accepted_length \in Nat
        /\ SpellsAccepts(s, ids \o c) /\ Within(s, Len(ids \o c))
    BY <1>2, <1>3, <1>4, <1>5, <1>6
  <2>. HIDE DEF c
  <2>2. Told(Append(ss, s), pid, ids \o c)
    BY ONLY <2>1, ToldLonger
  <2>. QED  BY <2>2 DEF c
<1>8. Told(StepsOf(pid)', pid', ids')
  <2>1. StepsOf(pid)' = Append(ss, s)
    BY <1>1, <1>3, TraceFrame
  <2>. QED  BY <1>1, <1>2, <1>7, <2>1
<1>9. Facts!GreedyText(Prompts[pid], ids)'
  BY <1>1, <1>2 DEF Facts!GreedyText
<1>. QED  BY <1>1, <1>8, <1>9, TraceFrame DEF TraceInv, TileInv, Writing

\* The output of a prompt is what its text has behind the prompt.
LEMMA TileOutput ==
  ASSUME TraceInv, Output
  PROVE  TileInv'
<1>1. /\ pc = "output" /\ pc' \in {"prompt", "detach"} /\ pid' = pid + 1
      /\ prompt_outputs' = Append(prompt_outputs, last) /\ steps' = steps
  BY DEF Output
<1>n. PICK n : n = Len(prompt_outputs)
  OBVIOUS
<1>2. /\ prompt_outputs \in Seq(Seq(Vocab)) /\ ids \in Seq(Vocab) /\ n \in Nat
      /\ pid = n + 1 /\ pid' - 1 = n + 1 /\ Len(steps) \in Nat
      /\ \A i \in 1..Len(steps) : steps[i].prompt_id \in 0..n
  <2>1. /\ prompt_outputs \in Seq(Seq(Vocab)) /\ ids \in Seq(Vocab) /\ n \in Nat
        /\ pid = n + 1 /\ pid - 1 = n /\ Len(steps) \in Nat
        /\ \A i \in 1..Len(steps) : steps[i].prompt_id \in 0..(pid - 1)
    BY <1>n, TraceTyped
  <2>. QED  BY <1>1, <2>1
<1>p. PICK prompt : prompt = Prompts[pid]
  OBVIOUS
<1>3. prompt \in Seq(Vocab) /\ Len(prompt) \in Nat
  BY <1>1, <1>p, PromptTyped DEF TraceInv, LosslessInv, Control
<1>4. /\ Told(StepsOf(pid), pid, ids) /\ Facts!GreedyText(prompt, ids)
      /\ Len(ids) > Len(prompt) /\ last = SubSeq(ids, Len(prompt) + 1, Len(ids))
  BY <1>1, <1>p DEF TraceInv, TileInv, Writing, LosslessInv, TextInv
<1>5. \A i \in 1..Len(prompt) : ids[i] = prompt[i]
  BY <1>4 DEF Facts!GreedyText
<1>6. last \in Seq(Vocab) /\ prompt \o last = ids
  <2>1. last \in Seq(Vocab) /\ Len(last) = Len(ids) - Len(prompt)
    BY <1>2, <1>3, <1>4
  <2>2. /\ prompt \o last \in Seq(Vocab) /\ Len(prompt \o last) = Len(ids)
        /\ \A i \in 1..Len(ids) : (prompt \o last)[i] = ids[i]
    BY <1>2, <1>3, <1>4, <1>5
  <2>. DEFINE u == prompt \o last
  <2>. HIDE DEF u
  <2>3. u = ids
    BY <1>2, <2>2, SeqEqual DEF u
  <2>. QED  BY <2>1, <2>3 DEF u
<1>7. /\ Len(prompt_outputs') = n + 1 /\ prompt_outputs'[n + 1] = last
      /\ \A q \in 1..n : prompt_outputs'[q] = prompt_outputs[q]
  BY <1>1, <1>2, <1>6, <1>n, AppendProperties
<1>8. \A q : StepsOf(q)' = StepsOf(q)
  BY <1>1 DEF StepsOf, StepsBefore
<1>9. DeliveredTold'
  <2>. SUFFICES ASSUME NEW q \in 1..(n + 1)
                PROVE  Told(StepsOf(q)', q, Prompts[q] \o prompt_outputs'[q])
    BY <1>7 DEF DeliveredTold
  <2>1. CASE q \in 1..n
    BY <1>7, <1>8, <1>n, <2>1 DEF TraceInv, TileInv, DeliveredTold
  <2>2. CASE q = n + 1
    <3>1. q = pid /\ Prompts[q] \o prompt_outputs'[q] = ids
      BY <1>2, <1>6, <1>7, <1>p, <2>2
    <3>. QED  BY <1>4, <1>8, <3>1
  <2>. QED  BY <1>2, <2>1, <2>2
<1>10. FiledUnder'
  <2>. SUFFICES ASSUME NEW i \in 1..Len(steps)
                PROVE  steps[i].prompt_id \in 0..(n + 1) /\ steps[i].prompt_id < n + 1
    BY <1>1, <1>2 DEF FiledUnder
  <2>. QED  BY <1>2
<1>. QED  BY <1>1, <1>9, <1>10 DEF TileInv, Writing

\* No other action records a step, commits a token or delivers an output.
LEMMA TileOthers ==
  ASSUME TraceInv, Attach \/ Raise \/ Detach \/ Return \/ Terminated \/ UNCHANGED vars
  PROVE  TileInv'
<1>1. UNCHANGED <<pid, steps, prompt_outputs>>
  BY DEF Attach, Raise, Detach, Return, Terminated, vars, loop, result
<1>2. DeliveredTold'
  BY <1>1, TraceFrame DEF TraceInv, TileInv
<1>3. CASE Attach
  <2>1. pc = "attach" /\ pc' \in {"detach", "prompt"}
    BY <1>3 DEF Attach
  <2>2. FiledUnder'
    BY <1>1, <2>1 DEF TraceInv, TileInv, FiledUnder
  <2>. QED  BY <1>2, <2>1, <2>2 DEF TileInv, Writing
<1>4. CASE Raise \/ Detach \/ Return
  <2>1. pc' \in {"detach", "aborted", "finish", "returned"}
    BY <1>4 DEF Raise, Detach, Return
  <2>. QED  BY <1>1, <1>2, <2>1, TraceFrame DEF TraceInv, TileInv, Writing
<1>5. CASE Terminated \/ UNCHANGED vars
  <2>1. UNCHANGED <<pc, ids, pending, hist, t, knobs, buffer, heads, root, accept, best>>
    BY <1>5 DEF Terminated, vars, loop, static
  <2>2. FiledUnder'
    BY <1>1, <2>1 DEF TraceInv, TileInv, FiledUnder
  <2>3. \A q : StepsOf(q)' = StepsOf(q)
    BY <1>1, TraceFrame
  <2>4. Kept(t, hist)' = Kept(t, hist)
    BY <2>1 DEF Kept, Selected
  <2>5. \A p, kept : SameTree(p, kept)' <=> SameTree(p, kept)
    BY <2>1 DEF SameTree
  <2>6. \A s : Ahead(s)' <=> Ahead(s)
    BY <1>1, <2>1, <2>5 DEF Ahead
  <2>7. SameTree(pending, Kept(t, hist))' <=> SameTree(pending, Kept(t, hist))
    BY <2>1, <2>4 DEF SameTree
  <2>8. Writing'
    BY <1>1, <2>1, <2>3, <2>6, <2>7 DEF TraceInv, TileInv, Writing, Facts!GreedyText
  <2>. QED  BY <1>2, <2>2, <2>8 DEF TileInv
<1>. QED  BY <1>3, <1>4, <1>5

\* Nothing is recorded or delivered at the start.
LEMMA TileInit == Init => TileInv
<1>. SUFFICES ASSUME Init PROVE TileInv
  OBVIOUS
<1>1. steps = <<>> /\ prompt_outputs = <<>> /\ pc = "attach"
  BY DEF Init
<1>. QED  BY <1>1 DEF TileInv, FiledUnder, Writing, DeliveredTold

\* The trace holds each finished prompt's steps in order, none lost, doubled or
\* credited to another prompt; their contexts and accepts add up to the
\* prompt's text, and their accepted flags are one chain that spells it.
THEOREM TraceTiles ==
  ASSUME TargetNeverPads, MaxSteps > 0, NilIsNoTree
  PROVE  Spec => []StepsTileOutput
<1>1. Init => TraceInv
  BY HookInvInit, RecordInvInit, LosslessInit, TileInit DEF TraceInv
<1>2. TraceInv /\ [Next]_vars => TraceInv'
  <2>. SUFFICES ASSUME TraceInv, [Next]_vars PROVE TraceInv'
    OBVIOUS
  <2>1. HookInv' /\ RecordInv' /\ LosslessInv'
    BY HookInvNext, RecordInvNext, LosslessNext DEF TraceInv
  <2>2. TileInv'
    BY TileGenerate, TileCandidates, TileDecoding, TileEvaluate, TileUpdate, TileOutput,
       TileOthers DEF Next
  <2>. QED  BY <2>1, <2>2 DEF TraceInv
<1>3. TraceInv => StepsTileOutput
  <2>. SUFFICES ASSUME TraceInv PROVE StepsTileOutput
    OBVIOUS
  <2>1. pc = "evaluate" => pending.context_length = Len(kv)
    BY DEF TraceInv, TileInv, Writing, LosslessInv, TextInv
  <2>2. ASSUME NEW p \in 1..Len(prompt_outputs)
        PROVE  Told(StepsOf(p), p, Prompts[p] \o prompt_outputs[p])
    BY DEF TraceInv, TileInv, DeliveredTold
  <2>. QED  BY <2>1, <2>2 DEF StepsTileOutput, Told
<1>. QED  BY <1>1, <1>2, <1>3, PTL DEF Spec
=============================================================================
