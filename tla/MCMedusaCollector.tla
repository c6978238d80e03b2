-------------------------- MODULE MCMedusaCollector --------------------------
(***************************************************************************)
(* A small instance of MedusaCollector: two prompts, a static tree of two  *)
(* heads with siblings of different parents, and a target that sometimes   *)
(* follows the heads, sometimes not.                                       *)
(***************************************************************************)
EXTENDS MedusaCollector

MCPadToken == 0
MCEos == 3
MCPrompts == <<<<1>>, <<2, 1>>>>

\* Nodes 1, 2 under the root, 3 and 4 under node 1, 5 under node 2.
MCTree ==
  LET path == <<<<0, 1>>, <<0, 2>>, <<0, 1, 3>>, <<0, 1, 4>>, <<0, 2, 5>>>>
  IN  [n |-> 5, path |-> [v \in 0..5 |-> IF v = 0 THEN <<0>> ELSE path[v]],
       rows |-> <<<<0, 1, 3>>, <<0, 1, 4>>, <<0, 2, 5>>>>]

MCHeadTables ==
  {<<<<1, 2>>, <<2, 1>>>>, <<<<2, 3>>, <<1, 2>>>>, <<<<1, 3>>, <<3, 2>>>>,
   <<<<2, 1>>, <<3, 1>>>>}

MCKnobs ==
  {[L |-> 2, selection |-> "greedy_headk"], [L |-> 3, selection |-> "greedy_node"],
   [L |-> 1, selection |-> "first_l"], [L |-> 2, selection |-> "full"]}

HeadlineKnobs == {[L |-> 2, selection |-> "greedy_headk"]}

MCVocab == 1..3

\* A context-dependent target that never chooses the pad token.
MCArgmax(s) ==
  1 + ((Len(s) + s[Len(s)] + (IF Len(s) > 1 THEN 2 * s[Len(s) - 1] ELSE 0)) % 3)

UnkVocab == 0..3

\* A target that chooses it after the second token of the first prompt.
UnkArgmax(s) ==
  (Len(s) + s[Len(s)] + (IF Len(s) > 1 THEN 2 * s[Len(s) - 1] ELSE 0)) % 3
=============================================================================
