-------------------------- MODULE MCEagleCollector --------------------------
(***************************************************************************)
(* A small instance of EagleCollector: two prompts, a two-word vocabulary  *)
(* and an end token, and trees of one to four draft nodes in the shapes    *)
(* EAGLE-2 builds (chain, fork, broom).                                    *)
(***************************************************************************)
EXTENDS EagleCollector, SequencesExt

MCEos == 2
MCVocab == 0..2
MCPrompts == <<<<0>>, <<1, 0>>>>

\* An arbitrary, context-dependent target: it depends on the length and the
\* last two tokens.
MCArgmax(s) ==
  (Len(s) + s[Len(s)] + (IF Len(s) > 1 THEN 2 * s[Len(s) - 1] ELSE 0)) % 3

\* The tree with the given parents, tokens and per-token log-probabilities.
MkDraft(parent, token, logp) ==
  LET n == Len(parent)
      path[v \in 0..n] ==
        IF v = 0 THEN <<0>> ELSE Append(path[parent[v]], v)
      cum[v \in 0..n] ==
        IF v = 0 THEN 0 ELSE cum[parent[v]] + logp[v]
      leaves == SetToSortSeq({v \in 1..n : \A u \in 1..n : parent[u] # v}, <)
      width == CHOOSE w \in 2..(n + 1) :
                 /\ \A v \in 1..n : Len(path[v]) <= w
                 /\ \E v \in 1..n : Len(path[v]) = w
  IN  [n |-> n, token |-> token, path |-> path,
       cum |-> [v \in 1..n |-> cum[v]],
       rows |-> [r \in 1..Len(leaves) |->
                   [j \in 1..width |->
                      IF j <= Len(path[leaves[r]]) THEN path[leaves[r]][j]
                      ELSE Pad]]]

\* The broom spells the greedy continuation of the first prompt.
MCDrafts ==
  {MkDraft(<<0, 0, 1>>, <<1, 0, 2>>, <<-2, 0, -1>>),
   MkDraft(<<0, 0, 2, 3>>, <<1, 0, 2, 0>>, <<-3, -1, 0, -1>>),
   MkDraft(<<0, 0, 1, 1>>, <<2, 1, 1, 0>>, <<-1, -2, 0, -1>>),
   MkDraft(<<0>>, <<1>>, <<-3>>)}

MCThresholds == {NegInf, -1}
=============================================================================
