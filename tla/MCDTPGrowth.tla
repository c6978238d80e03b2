---------------------------- MODULE MCDTPGrowth ----------------------------
(***************************************************************************)
(* Static trees of three to five nodes in the (len, lex) order MEDUSA      *)
(* stores them in, and rates that make equal, zero and prior products.     *)
(***************************************************************************)
EXTENDS DTPGrowth

\* The tree with the given 0-based parents (-1 under the root).
MkTree(depth, layer, parent) ==
  [i \in 1..Len(depth) |->
     [depth |-> depth[i], layer_idx |-> layer[i], parent_idx |-> parent[i],
      accepted |-> FALSE]]

MCTrees ==
  {MkTree(<<0, 0, 1>>, <<0, 1, 0>>, <<-1, -1, 0>>),
   MkTree(<<0, 0, 1, 1, 2>>, <<0, 1, 0, 1, 0>>, <<-1, -1, 0, 1, 2>>),
   MkTree(<<0, 0, 1, 1, 1>>, <<0, 1, 0, 1, 2>>, <<-1, -1, 0, 0, 1>>)}

MCRates == {<<0, 0>>, <<0, 1>>, <<1, 3>>, <<1, 2>>, <<2, 2>>}

MCSelections == {"greedy_headk", "greedy_node"}
=============================================================================
