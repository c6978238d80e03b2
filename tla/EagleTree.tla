------------------------------ MODULE EagleTree ------------------------------
(***************************************************************************)
(* capim_ctrl/eagle_topk.py `topK_genrate`: how one draft tree is built.   *)
(* A beam of K candidates is expanded D times; every expansion appends its *)
(* K * K candidates to flat lists; the T best candidates are kept, and the *)
(* tree is rebuilt from the flat lists by index arithmetic alone.          *)
(*                                                                         *)
(* Candidates are numbered from 0 as in the code, in the order they are    *)
(* appended; candidate c is entry c + 1 of a list.  A token is the rank at *)
(* which its head proposed it.  `lineage` and `logp` are ghosts: the ranks *)
(* the draft model's hidden state was really conditioned on (followed      *)
(* through `out_ids`, never through `parents_list`), and the head's own    *)
(* log-probability of the candidate.                                       *)
(***************************************************************************)
EXTENDS EagleDraft, SequencesExt

CONSTANTS
  K, D,          \* top_k; depth, the number of expansions
  Totals,        \* the values of total_tokens
  HeadRows       \* the top-k log-probabilities a head may give, descending

ASSUME TreeAssumption ==
  /\ K \in Nat \ {0} /\ D \in Nat /\ Vocab = 0..(K - 1)
  /\ Totals \subseteq 1..(K + D * K * K)
  /\ \A row \in HeadRows :
       /\ row \in Seq(Int) /\ Len(row) = K /\ row[1] <= 0
       /\ \A r \in 2..K : row[r] <= row[r - 1]

VARIABLES
  pc,              \* "expand", "rerank", "retrieve", "sort" or "done"
  total_tokens,    \* the tree's size
  level,           \* the loop's i
  scores_list, ss_token, parents_list, lineage, logp,   \* the flat lists
  beam,            \* the current slots: [index, score, lineage]
  top,             \* top_scores_index, ascending
  mask_index,      \* every node's parent in the tree
  tree_mask,       \* every node's ancestors, itself and the root
  retrieve_indices

lists == <<scores_list, ss_token, parents_list, lineage, logp>>
vars == <<pc, total_tokens, level, lists, beam, top, mask_index, tree_mask,
          retrieve_indices>>

-----------------------------------------------------------------------------
(* The operators marked "slip" are plausible bugs of the definition they   *)
(* precede.                                                                *)

\* The children of a slot, by head rank.
Children(slot, row) ==
  [r \in 1..K |-> [score |-> slot.score + row[r], token |-> r - 1, logp |-> row[r],
                   lineage |-> Append(slot.lineage, r - 1)]]

\* The K * K new candidates, slot by slot: cu_scores.view(-1).
Flat(table) ==
  [c \in 1..(K * K) |->
     LET slot == ((c - 1) \div K) + 1
     IN  Children(beam[slot], table[slot])[((c - 1) % K) + 1]]

\* Where the candidates of the previous level start, plus one for the root.
Bias(i) == 1 + (IF i > 1 THEN K * K * (i - 1) ELSE 0) + (IF i > 0 THEN K ELSE 0)

\* torch.topk over the new level, best first; equal scores in any order.
IsBeam(pick, new) ==
  /\ IsInjective(pick)
  /\ \A j \in 1..(K - 1) : new[pick[j]].score >= new[pick[j + 1]].score
  /\ \A c \in DOMAIN new \ Range(pick) : new[c].score <= new[pick[K]].score

\* The selections torch.topk may make of all candidates: the best ones, and of
\* those with equal scores at the cut any.
TopkOf(scores, total) ==
  LET sure == {c \in DOMAIN scores :
                 Cardinality({b \in DOMAIN scores : scores[b] >= scores[c]}) <= total}
      tied == {c \in DOMAIN scores \ sure :
                 Cardinality({b \in DOMAIN scores : scores[b] > scores[c]}) < total}
  IN  {sure \cup some : some \in kSubset(total - Cardinality(sure), tied)}

AnyAmongEqual(scores, total) == TopkOf(scores, total)   \* slip

\* The one thing assumed of torch.topk, whose documentation leaves equal scores
\* open: a child drafted with certainty does not displace its equal parent
\* (so in a kernel that takes equal scores in index order).
Reranked(scores, total) ==
  {chosen \in TopkOf(scores, total) :
     \A c \in chosen, b \in DOMAIN scores \ chosen :
       scores[b] = scores[c] => lineage[b] # Front(lineage[c])}

\* The members of a set of integers, smallest first.
Ascending(S) ==
  [j \in 1..Cardinality(S) |->
     CHOOSE x \in S : Cardinality({y \in S : y < x}) = j - 1]

\* The number of entries before x: torch.searchsorted with right=False.
SearchSorted(s, x) == Cardinality({j \in DOMAIN s : s[j] < x})

DraftParent(c) == parents_list[(c \div K) + 1]

\* The parent of the node made from a selected candidate; 0 is the root.
MaskIndex(selected, c) ==
  IF DraftParent(c) = 0 THEN 0 ELSE SearchSorted(selected, DraftParent(c) - 1) + 1

\* The mask is filled row by row: a row that is not there yet is {0} and itself.
TreeMask(parent) ==
  LET mask[v \in 0..total_tokens] ==
        IF v = 0 THEN {0}
        ELSE {0, v} \cup (IF parent[v] < v THEN mask[parent[v]] ELSE {0, parent[v]})
  IN  mask

PositionId(v) == Cardinality(tree_mask[v]) - 1

\* The walk from a leaf up to column 0; index -1 of the list is its last entry.
PathTo(leaf, width) ==
  LET up(v) == mask_index[IF v = 0 THEN total_tokens ELSE v]
      at[j \in 0..PositionId(leaf)] ==
        IF j = PositionId(leaf) THEN leaf ELSE up(at[j + 1])
  IN  [j \in 1..width |-> IF j - 1 <= PositionId(leaf) THEN at[j - 1] ELSE Pad]

InnerLeaves ==   \* slip: a leaf right below the root gets no row
  {v \in 1..total_tokens :
     mask_index[v] # 0 /\ \A u \in 1..total_tokens : mask_index[u] # v}

\* The nodes that are nobody's parent.
Leaves == {v \in 0..total_tokens : \A u \in 1..total_tokens : mask_index[u] # v}

\* How many rows are allocated for them, all padding until a leaf fills them.
leaf_num == total_tokens - (Cardinality(Range(mask_index)) - 1)

\* custom_sort's key: padding sorts last.
RowBefore(a, b) ==
  LET key(x) == IF x >= 0 THEN x ELSE total_tokens + 5
  IN  \E j \in 1..Len(a) : /\ key(a[j]) < key(b[j])
                           /\ \A i \in 1..(j - 1) : a[i] = b[i]

\* Row q comes before row r in the sorted list; sorted() is stable.
Sooner(q, r) ==
  LET a == retrieve_indices[q]
      b == retrieve_indices[r]
  IN  RowBefore(a, b) \/ (a = b /\ q < r)

-----------------------------------------------------------------------------
\* The first head call: K candidates below the root.
Init ==
  /\ total_tokens \in Totals /\ level = 0
  /\ \E row \in HeadRows :
       LET first == Children([score |-> 0, lineage |-> <<>>], row)
       IN  /\ scores_list = [r \in 1..K |-> first[r].score]
           /\ ss_token = [r \in 1..K |-> first[r].token]
           /\ lineage = [r \in 1..K |-> first[r].lineage]
           /\ logp = [r \in 1..K |-> first[r].logp]
           /\ beam = [r \in 1..K |-> [index |-> r - 1, score |-> first[r].score,
                                      lineage |-> first[r].lineage]]
  /\ parents_list = <<0>>
  /\ top = <<>> /\ mask_index = <<>> /\ tree_mask = <<>>
  /\ retrieve_indices = <<>>
  /\ pc = IF D > 0 THEN "expand" ELSE "rerank"

\* One iteration of the drafting loop: expand every slot, keep the K best.
Expand ==
  /\ pc = "expand"
  /\ \E table \in [1..K -> HeadRows] :
       LET new == Flat(table)
       IN  /\ scores_list' = scores_list \o [c \in 1..(K * K) |-> new[c].score]
           /\ ss_token' = ss_token \o [c \in 1..(K * K) |-> new[c].token]
           /\ lineage' = lineage \o [c \in 1..(K * K) |-> new[c].lineage]
           /\ logp' = logp \o [c \in 1..(K * K) |-> new[c].logp]
           /\ \E pick \in [1..K -> 1..(K * K)] :
                /\ IsBeam(pick, new)
                /\ beam' = [k \in 1..K |->
                     [index |-> pick[k] - 1, score |-> new[pick[k]].score,
                      lineage |-> new[pick[k]].lineage]]
  /\ parents_list' = parents_list \o [k \in 1..K |-> beam[k].index + Bias(level)]
  /\ level' = level + 1
  /\ pc' = IF level + 1 < D THEN "expand" ELSE "rerank"
  /\ UNCHANGED <<total_tokens, top, mask_index, tree_mask, retrieve_indices>>

\* Keep the total_tokens best candidates, in the order they were appended, and
\* look every one's parent up among them.
Rerank ==
  /\ pc = "rerank"
  /\ \E chosen \in Reranked(scores_list, total_tokens) :
       top' = Ascending({c - 1 : c \in chosen})
  /\ mask_index' = [v \in 1..total_tokens |-> MaskIndex(top', top'[v])]
  /\ tree_mask' = TreeMask(mask_index')
  /\ pc' = "retrieve"
  /\ UNCHANGED <<total_tokens, level, lists, beam, retrieve_indices>>

\* One row per leaf, in the order of the nodes.  Only a sampling caller passes a
\* logits_processor and has the rows sorted.
Retrieve ==
  /\ pc = "retrieve"
  /\ LET leaves == Ascending(Leaves)
         width == CHOOSE w \in 1..(total_tokens + 1) :
                    /\ \A v \in 0..total_tokens : PositionId(v) < w
                    /\ \E v \in 0..total_tokens : PositionId(v) + 1 = w
     IN  retrieve_indices' = [r \in 1..Len(leaves) |-> PathTo(leaves[r], width)]
  /\ pc' \in {"sort", "done"}   \* whether a logits_processor was passed
  /\ UNCHANGED <<total_tokens, level, lists, beam, top, mask_index, tree_mask>>

\* The rows in lexicographic order.
SortRows ==
  /\ pc = "sort"
  /\ retrieve_indices' =
       [j \in DOMAIN retrieve_indices |->
          retrieve_indices[CHOOSE r \in DOMAIN retrieve_indices :
            Cardinality({q \in DOMAIN retrieve_indices : Sooner(q, r)}) = j - 1]]
  /\ pc' = "done"
  /\ UNCHANGED <<total_tokens, level, lists, beam, top, mask_index, tree_mask>>

Returned == pc = "done" /\ UNCHANGED vars

Next == Expand \/ Rerank \/ Retrieve \/ SortRows \/ Returned

Spec == Init /\ [][Next]_vars

-----------------------------------------------------------------------------
StashInOrderOfScore ==   \* slip: the stash is taken before top_scores_index is sorted
  LET best == SetToSortSeq({top[v] + 1 : v \in 1..total_tokens},
                LAMBDA a, b : \/ scores_list[a] > scores_list[b]
                              \/ scores_list[a] = scores_list[b] /\ a < b)
  IN  [v \in 1..total_tokens |-> scores_list[best[v]]]

\* _capim_scores.
CapimScores == [v \in 1..total_tokens |-> scores_list[top[v] + 1]]

\* draft_tokens without the root.
DraftTokens == [v \in 1..total_tokens |-> ss_token[top[v] + 1]]

\* What the call returns, as the collector reads it.
Result ==
  [n |-> total_tokens, token |-> DraftTokens, cum |-> CapimScores,
   path |-> [v \in 0..total_tokens |-> Ascending(tree_mask[v])],
   rows |-> retrieve_indices]

\* What the collector relies on (collector.py:55: "a parent's index is always
\* below its child's"; gating.py's precondition): the rebuilt tree is a tree,
\* parents come before and score at least as high as their children, and the
\* rows lead to every node.
ReturnsWellFormedDraft == pc = "done" => WellFormedDraft(Result)

\* The index arithmetic finds every node's real parent: a node's tokens along
\* its path are what its draft was conditioned on, and the difference of the
\* stashed scores, which the collector records as log_prob, is what its own
\* head gave it.
PathsAreLineages ==
  pc = "done" =>
    \A v \in 1..total_tokens :
      LET path == Result.path[v]
          parent == path[Len(path) - 1]
      IN  /\ lineage[top[v] + 1] =
               [j \in 1..(Len(path) - 1) |-> Result.token[path[j + 1]]]
          /\ logp[top[v] + 1] =
               Result.cum[v] - (IF parent = 0 THEN 0 ELSE Result.cum[parent])

\* The candidate paths are the leaves' paths, each once, the longest unpadded;
\* they fill the rows allocated before the leaves were counted one by one, and
\* sorting them for a sampler loses none.
OneRowPerLeaf ==
  pc = "done" =>
    LET path == Result.path
        rows == Result.rows
        leaf == {v \in 1..total_tokens :
                   \A u \in (1..total_tokens) \ {v} : v \notin Range(path[u])}
        IsPathOf(row, v) ==
          /\ Len(path[v]) <= Len(row)
          /\ \A j \in 1..Len(row) :
               row[j] = IF j <= Len(path[v]) THEN path[v][j] ELSE Pad
    IN  /\ Len(rows) = Cardinality(leaf) /\ Len(rows) = leaf_num
        /\ IsInjective(rows)
        /\ \A v \in leaf : \E r \in DOMAIN rows : IsPathOf(rows[r], v)
        /\ \E r \in DOMAIN rows : Pad \notin Range(rows[r])
=============================================================================
