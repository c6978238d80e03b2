---------------------------- MODULE MCGatingScan ----------------------------
(***************************************************************************)
(* GatingScan on every pair of root -> leaf rows over four draft nodes and *)
(* depth at most three, with every keep set.                               *)
(***************************************************************************)
EXTENDS GatingScan, FiniteSets

MCNodes == 1..4
MCWidth == 4

\* A path visits strictly deeper, later nodes, then padding.
MCRow ==
  {row \in [1..MCWidth -> {Pad, 0} \cup MCNodes] :
     /\ row[1] = 0
     /\ \A j \in 2..MCWidth :
          /\ row[j] # 0
          /\ row[j] # Pad => row[j - 1] # Pad /\ row[j] > row[j - 1]}

\* Two rows of one tree: a node has one path, so rows agree up to a shared node.
MCRowSets ==
  {rs \in MCRow \X MCRow :
     \A i, j \in 2..MCWidth :
       rs[1][i] = rs[2][j] /\ rs[1][i] # Pad
         => i = j /\ \A k \in 1..i : rs[1][k] = rs[2][k]}

MCKeepSets == SUBSET MCNodes
=============================================================================
