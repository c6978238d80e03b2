------------------------------ MODULE DTPGrowth ------------------------------
(***************************************************************************)
(* The construction the pruner stands for (dtp.py, MEDUSA's calibration):  *)
(* starting from the root, repeatedly add the frontier node with the       *)
(* highest path product.  The code sorts all nodes once and takes the      *)
(* first L instead; this module checks that both give the same tree, for   *)
(* every L, every small tree and every history of the rates.               *)
(***************************************************************************)
EXTENDS DTP

CONSTANTS
  Trees,      \* the static trees, as `nodes` sequences
  Rates,      \* the pairs <<accepted, reachable>> a key may have reached
  Selections  \* the selections under test

\* A static tree, as build_static_structure lists it (collector.py:69): every node
\* at a position of its own, its parent before it and one level up.
StaticTree(tree) ==
  /\ tree \in Seq([depth : Nat, layer_idx : Nat, parent_idx : Int, accepted : BOOLEAN])
  /\ \A k \in DOMAIN tree :
       /\ \A j \in DOMAIN tree : Pos(tree[j]) = Pos(tree[k]) => j = k
       /\ tree[k].depth # 0 =>
            /\ tree[k].parent_idx \in 0..(k - 2)
            /\ tree[tree[k].parent_idx + 1].depth = tree[k].depth - 1

ASSUME GrowthAssumption ==
  /\ \A tree \in Trees : StaticTree(tree)
  /\ \A r \in Rates : r[2] \in Nat /\ r[1] \in 0..r[2]
  /\ Selections \subseteq {"greedy_headk", "greedy_node"}

VARIABLES
  nodes, selection, hist,   \* the inputs of score_nodes
  grown                     \* the nodes added so far

growthVars == <<nodes, selection, hist, grown>>

Keys(tree, sel) ==
  {Key(Granularity(sel), q, KPredMap(tree)) : q \in Positions(tree)}

GrowthInit ==
  /\ nodes \in Trees /\ selection \in Selections
  /\ \E rate \in [Keys(nodes, selection) -> Rates] :
       hist = [key \in {k \in DOMAIN rate : rate[k][2] > 0} |->
                 [acc |-> rate[key][1], reach |-> rate[key][2]]]
  /\ grown = {}

Frontier ==
  {q \in Positions(nodes) \ grown :
     q[1] = 0 \/ ParentPosMap(nodes)[q] \in grown}

NodeScore ==
  Scores(nodes, hist, KPredMap(nodes), ParentPosMap(nodes), Granularity(selection))

\* Add the best frontier node, the shallowest and leftmost among equals.
Grow ==
  /\ LET score == NodeScore
     IN  \E q \in Frontier :
           /\ \A r \in Frontier \ {q} : ByScore(score, q, r)
           /\ grown' = grown \cup {q}
  /\ UNCHANGED <<nodes, selection, hist>>

Grown == grown = Positions(nodes) /\ UNCHANGED growthVars

GrowthNext == Grow \/ Grown

GrowthSpec == GrowthInit /\ [][GrowthNext]_growthVars

-----------------------------------------------------------------------------
\* Taking the first L of the sorted list is the greedy growth of a connected
\* tree (score_nodes: "falls out for free, for all L at once").
SortIsGrowth ==
  grown = SelectKept(nodes, 1, Cardinality(grown), selection, hist,
                     KPredMap(nodes), ParentPosMap(nodes))
=============================================================================
