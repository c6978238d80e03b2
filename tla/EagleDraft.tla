----------------------------- MODULE EagleDraft -----------------------------
(***************************************************************************)
(* The interface between the tree builder and the collector of EAGLE: what *)
(* topK_genrate returns (with its `_capim_scores` stash) and the collector *)
(* relies on.                                                              *)
(*                                                                         *)
(* A drafted tree is a record: draft nodes 1..n below the root 0, `path[v]`*)
(* the nodes from the root to v (the row of `tree_mask`, ascending),       *)
(* `token`, the cumulative scores `cum` of the stash, and `rows`, the      *)
(* retrieve_indices.  The vendored topK_genrate returns such records       *)
(* (EagleTree, proved in TreeProofs); EagleCollector takes them for        *)
(* granted.                                                                *)
(***************************************************************************)
EXTENDS Gating, FiniteSets

CONSTANT Vocab   \* token ids

WellFormedDraft(d) ==
  /\ d.n \in Nat \ {0}
  /\ d.token \in [1..d.n -> Vocab] /\ d.cum \in [1..d.n -> Int]
  /\ d.path \in [0..d.n -> Seq(0..d.n)] /\ d.path[0] = <<0>>
  /\ d.rows \in Seq(Seq((0..d.n) \cup {Pad})) /\ d.rows # <<>>
  /\ NodesOf(d.rows) = 1..d.n
  /\ \A r \in 1..Len(d.rows) :
       /\ Len(d.rows[r]) >= 1 /\ d.rows[r][1] = 0
       /\ \A j \in 1..Len(d.rows[r]) :
            d.rows[r][j] # Pad => d.path[d.rows[r][j]] = SubSeq(d.rows[r], 1, j)
  /\ \A v \in 1..d.n :   \* parents first; log-probabilities are at most 0
       /\ d.cum[v] <= 0
       /\ \A i \in 2..Len(d.path[v]) :
            d.path[v][i - 1] < d.path[v][i] /\ d.cum[v] <= d.cum[d.path[v][i]]
=============================================================================
