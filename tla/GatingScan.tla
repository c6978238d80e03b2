----------------------------- MODULE GatingScan -----------------------------
(***************************************************************************)
(* The loop of common/gating.py `invalidate_paths`, one position per step: *)
(* `new_row` grows along the current row while `alive` records whether     *)
(* every earlier position survived; a survivor met while not alive raises. *)
(***************************************************************************)
EXTENDS Gating

CONSTANTS
  RowSets,     \* the retrieve_indices structures the collectors may pass
  KeepSets     \* the keep sets they may pass

ASSUME InputsAssumption ==
  /\ RowSets \subseteq Seq(Seq(Int))
  /\ KeepSets \subseteq SUBSET Int

VARIABLES
  rows, keep,  \* the arguments
  out,         \* finished rows
  new_row,     \* the row being built
  alive,       \* the loop's flag for the current row
  status       \* "scan", "done" (returned) or "raised" (ValueError)

scanVars == <<rows, keep, out, new_row, alive, status>>

ScanInit ==
  /\ rows \in RowSets /\ keep \in KeepSets
  /\ out = <<>> /\ new_row = <<>> /\ alive = TRUE
  /\ status = "scan"

Row == rows[Len(out) + 1]
Value == Row[Len(new_row) + 1]
InRow == status = "scan" /\ Len(out) < Len(rows) /\ Len(new_row) < Len(Row)

Keep ==
  /\ InRow /\ Survives(Value, keep) /\ alive
  /\ new_row' = Append(new_row, Value)
  /\ UNCHANGED <<rows, keep, out, alive, status>>

Raise ==
  /\ InRow /\ Survives(Value, keep) /\ ~alive
  /\ status' = "raised"
  /\ UNCHANGED <<rows, keep, out, new_row, alive>>

\* The operators marked "slip" are plausible bugs of the action they precede;
\* only mutation runs use them.
CutForgotten ==   \* slip: the cut does not end the path
  /\ InRow /\ ~Survives(Value, keep)
  /\ new_row' = Append(new_row, Pad)
  /\ UNCHANGED <<rows, keep, out, alive, status>>

CutLate ==   \* slip: the first pruned node itself is still copied
  /\ InRow /\ ~Survives(Value, keep)
  /\ new_row' = Append(new_row, Value) /\ alive' = FALSE
  /\ UNCHANGED <<rows, keep, out, status>>

\* Existing padding and a pruned node both append -1 and end the path.
Cut ==
  /\ InRow /\ ~Survives(Value, keep)
  /\ new_row' = Append(new_row, Pad) /\ alive' = FALSE
  /\ UNCHANGED <<rows, keep, out, status>>

StaleAlive ==   \* slip: alive is not reset between rows
  /\ status = "scan" /\ Len(out) < Len(rows) /\ Len(new_row) = Len(Row)
  /\ out' = Append(out, new_row) /\ new_row' = <<>>
  /\ UNCHANGED <<rows, keep, alive, status>>

EndRow ==
  /\ status = "scan" /\ Len(out) < Len(rows) /\ Len(new_row) = Len(Row)
  /\ out' = Append(out, new_row) /\ new_row' = <<>> /\ alive' = TRUE
  /\ UNCHANGED <<rows, keep, status>>

Return ==
  /\ status = "scan" /\ Len(out) = Len(rows)
  /\ status' = "done"
  /\ UNCHANGED <<rows, keep, out, new_row, alive>>

ScanReturned == status # "scan" /\ UNCHANGED scanVars

ScanNext == Keep \/ Raise \/ Cut \/ EndRow \/ Return \/ ScanReturned

ScanSpec == ScanInit /\ [][ScanNext]_scanVars

-----------------------------------------------------------------------------
\* Type correctness of the loop's state.
TypeOK ==
  /\ rows \in Seq(Seq(Int)) /\ keep \in SUBSET Int
  /\ out \in Seq(Seq(Int)) /\ new_row \in Seq(Int)
  /\ alive \in BOOLEAN /\ status \in {"scan", "done", "raised"}

\* A returning call has computed the closed form: every path cut at its first
\* pruned node, nothing else changed, shapes kept (gating.py "Returns").
ScanComputesGating ==
  status = "done" => out = InvalidatePaths(rows, keep)

\* The call raises only on, and never returns from, a keep set that is not
\* ancestor-closed along some path (gating.py "Raises").
RaisesIffMalformed ==
  /\ status = "raised" => ~Closed(rows, keep)
  /\ status = "done" => Closed(rows, keep)

\* The cut paths lead to exactly the kept nodes of the tree, "with no
\* cross-path bookkeeping": no kept node is lost with a sibling's path, and no
\* pruned node stays reachable through another row.
KeptSubtree ==
  status = "done" => NodesOf(out) = NodesOf(rows) \cap keep
=============================================================================
