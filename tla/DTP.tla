--------------------------------- MODULE DTP ---------------------------------
(***************************************************************************)
(* baselines/lp_spec/dtp.py: the LP-Spec draft token pruner.               *)
(*                                                                         *)
(* A step's `nodes` are a sequence of records with depth, layer_idx,       *)
(* parent_idx (0-based into the sequence, -1 under the root) and accepted. *)
(* A node's identity across steps is its position in the static tree,      *)
(* <<depth, layer_idx>>.  A rate is a pair <<accepted, reachable>> and a   *)
(* path product the pair of the products, compared by cross-multiplication *)
(* where the code divides and multiplies floats.                           *)
(***************************************************************************)
EXTENDS Integers, Sequences, FiniteSets

Pos(node) == <<node.depth, node.layer_idx>>

Positions(nodes) == {Pos(nodes[i]) : i \in DOMAIN nodes}

NodeOf(nodes, q) == nodes[CHOOSE i \in DOMAIN nodes : Pos(nodes[i]) = q]

\* The rank of every node among the nodes with its depth and parent.
KPredMap(nodes) ==
  [q \in Positions(nodes) |->
     Cardinality({i \in DOMAIN nodes :
        /\ nodes[i].depth = q[1] /\ nodes[i].layer_idx < q[2]
        /\ nodes[i].parent_idx = NodeOf(nodes, q).parent_idx})]

\* The position of every node's parent; depth-0 nodes hang off the root.
ParentPosMap(nodes) ==
  [q \in {p \in Positions(nodes) : p[1] > 0} |->
     Pos(nodes[NodeOf(nodes, q).parent_idx + 1])]

Key(granularity, q, kp) == IF granularity = "headk" THEN <<q[1], kp[q]>> ELSE q

-----------------------------------------------------------------------------
(* DTPHist: a function from the keys seen to [acc, reach].                 *)

EmptyHist == [key \in {} |-> [acc |-> 0, reach |-> 0]]

Count(hist, key) == IF key \in DOMAIN hist THEN hist[key] ELSE [acc |-> 0, reach |-> 0]

\* p_i^k, with the prior 1 for what was never observed.
Rate(hist, key) ==
  LET c == Count(hist, key)
  IN  IF c.reach = 0 THEN <<1, 1>> ELSE <<c.acc, c.reach>>

AlwaysReachable(nodes, pp) == DOMAIN nodes   \* slip: the denominator counts every step

\* The nodes verification got to: their parent was accepted in this step.
Reachable(nodes, pp) ==
  {i \in DOMAIN nodes :
     nodes[i].depth = 0 \/ \E j \in DOMAIN nodes :
       nodes[j].accepted /\ Pos(nodes[j]) = pp[Pos(nodes[i])]}

\* DTPHist.update: fold one verified step in.
Update(hist, nodes, kp, pp, granularity) ==
  LET seen == Reachable(nodes, pp)
      Of(key) == {i \in seen : Key(granularity, Pos(nodes[i]), kp) = key}
      keys == {Key(granularity, Pos(nodes[i]), kp) : i \in seen}
  IN  [key \in DOMAIN hist \cup keys |->
         [acc |-> Count(hist, key).acc
                    + Cardinality({i \in Of(key) : nodes[i].accepted}),
          reach |-> Count(hist, key).reach + Cardinality(Of(key))]]

-----------------------------------------------------------------------------
(* Selection.                                                              *)

Times(a, b) == <<a[1] * b[1], a[2] * b[2]>>

Higher(a, b) == a[1] * b[2] > b[1] * a[2]

\* The path product of the rates from the root to every node.
Scores(nodes, hist, kp, pp, granularity) ==
  LET score[q \in Positions(nodes)] ==
        LET p == Rate(hist, Key(granularity, q, kp))
        IN  IF q[1] = 0 THEN p ELSE Times(score[pp[q]], p)
  IN  score

Granularity(selection) == IF selection = "greedy_node" THEN "node" ELSE "headk"

Shallower(q, r) == q[1] < r[1] \/ (q[1] = r[1] /\ q[2] < r[2])

DeepestFirst(score, q, r) ==   \* slip: ties are broken towards the leaves
  \/ Higher(score[q], score[r])
  \/ ~Higher(score[r], score[q]) /\ Shallower(r, q)

\* q is sorted before r: by descending score, ties by depth, then layer_idx.
ByScore(score, q, r) ==
  \/ Higher(score[q], score[r])
  \/ ~Higher(score[r], score[q]) /\ Shallower(q, r)

\* The first L positions of the order.
TopL(positions, Before(_, _), L) ==
  {q \in positions : Cardinality({r \in positions : Before(r, q)}) < L}

\* The positions verified at step t.  Step 0 verifies the full static tree.
SelectKept(nodes, t, L, selection, hist, kp, pp) ==
  LET all == Positions(nodes)
      score == Scores(nodes, hist, kp, pp, Granularity(selection))
      AcceptedFirst(q, r) ==
        LET a == NodeOf(nodes, q).accepted
            b == NodeOf(nodes, r).accepted
        IN  (a /\ ~b) \/ (a = b /\ Shallower(q, r))
      Ranked(q, r) == ByScore(score, q, r)
  IN  IF t = 0 \/ selection = "full" THEN all
      ELSE IF selection = "first_l" THEN TopL(all, Shallower, L)
      ELSE IF selection = "oracle" THEN TopL(all, AcceptedFirst, L)
      ELSE TopL(all, Ranked, L)

\* The accepted chain up to its first node that was not verified.
EffectiveAccept(nodes, kept) ==
  Cardinality({i \in DOMAIN nodes :
    /\ nodes[i].accepted
    /\ \A j \in DOMAIN nodes :
         nodes[j].accepted /\ nodes[j].depth <= nodes[i].depth
           => Pos(nodes[j]) \in kept})
=============================================================================
