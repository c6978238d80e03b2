------------------------------- MODULE Gating -------------------------------
(***************************************************************************)
(* What common/gating.py `invalidate_paths` computes, in closed form.      *)
(*                                                                         *)
(* A row of `retrieve_indices` is one root -> leaf candidate path: the     *)
(* root (0), draft-node indices, and Pad (-1) on the right.  Given a keep  *)
(* set of draft nodes, every row is cut at its first node that does not    *)
(* survive.  GatingScan models the loop of the code and shows that it      *)
(* computes these operators.  Positions are 1-based here: column j of the  *)
(* code is position j + 1.                                                 *)
(***************************************************************************)
EXTENDS Integers, Sequences

Pad == -1

\* A position's value stays: the root always, a draft node iff it is kept.
Survives(v, keep) == v # Pad /\ (v = 0 \/ v \in keep)

\* The scan is still `alive` after the first j positions of the row.
AliveAfter(row, keep, j) == \A i \in 1..j : Survives(row[i], keep)

TruncatedRow(row, keep) ==
  [j \in 1..Len(row) |-> IF AliveAfter(row, keep, j) THEN row[j] ELSE Pad]

InvalidatePaths(rows, keep) ==
  [r \in 1..Len(rows) |-> TruncatedRow(rows[r], keep)]

\* The keep set is ancestor-closed along the row; otherwise the code raises.
RowClosed(row, keep) ==
  \A j \in 1..Len(row) : Survives(row[j], keep) => AliveAfter(row, keep, j)

Closed(rows, keep) == \A r \in 1..Len(rows) : RowClosed(rows[r], keep)

\* The draft nodes the rows still lead to.
NodesOf(rows) ==
  (UNION {{rows[r][j] : j \in 1..Len(rows[r])} : r \in 1..Len(rows)}) \ {0, Pad}
=============================================================================
