------------------------------ MODULE Analysis ------------------------------
(***************************************************************************)
(* scripts/cpu/pruning_analysis.py on the traces `main.py drive` replays:  *)
(* the statistics of the ungated EAGLE run, the sweep that gates it after  *)
(* the fact, the gated runs that license the sweep, and the comparison of  *)
(* the confidence gate with a cut at a depth.                              *)
(*                                                                         *)
(* A ratio is a record [num, den], compared by cross-multiplication.  The  *)
(* gated runs are those that draft what the ungated run drafted: what they *)
(* would draft after an accept the gate cut short is another text's.       *)
(***************************************************************************)
EXTENDS Drive, FiniteSetsExt

CONSTANTS
  SweepSigmas,    \* SWEEP_SIGMAS, from the highest to the lowest
  CausalSigmas,   \* the gates of the runs that were collected gated
  SigmaOp,        \* the operating point, one of them
  MaxDepths       \* the depths signal_value cuts at

ASSUME AnalysisAssumption ==
  /\ NegInf \notin Int /\ SweepSigmas \in Seq(Int) \ {<<>>}
  /\ \A r, s \in DOMAIN SweepSigmas : r < s => SweepSigmas[r] > SweepSigmas[s]
  /\ SigmaOp \in CausalSigmas /\ CausalSigmas \subseteq Int /\ MaxDepths \subseteq Nat

VARIABLE analysis   \* [outcome]: "none", "ZeroDivisionError", or "written" with what
                    \* analyse() returned

-----------------------------------------------------------------------------
Ratio(a, b) == [num |-> a, den |-> b]
AtMost(x, y) == x.num * y.den <= y.num * x.den
Same(x, y) == AtMost(x, y) /\ AtMost(y, x)
Fewer(x, y) == Ratio(x.num * y.den - y.num * x.den, x.den * y.den)

Total(trace, Of(_)) == SumFunction([i \in DOMAIN trace |-> Of(trace[i])])

TreeSize(step) == Len(step.nodes)
Flagged(step, S) == Cardinality({k \in S : step.nodes[k].accepted})
AcceptedLength(step) == step.accepted_length

Nodes(trace) == Total(trace, TreeSize)
Accepted(trace) == Total(trace, AcceptedLength)

BonusOnce(accepted, trace) == accepted + 1   \* slip

\* The bonus token of every iteration comes on top.
WithBonus(accepted, trace) == accepted + Len(trace)

DeepestIndex(trace) ==   \* slip: the 0-based index for the number of levels
  Max({-1} \cup UNION {{trace[i].nodes[k].depth : k \in DOMAIN trace[i].nodes} : i \in DOMAIN trace})

Levels(trace) ==
  Max({-1} \cup UNION {{trace[i].nodes[k].depth : k \in DOMAIN trace[i].nodes} : i \in DOMAIN trace})
    + 1

FixedBudget(trace) ==
  LET flagged(step) == Flagged(step, DOMAIN step.nodes)
      nodes == Nodes(trace)
  IN  [acceptance_density |-> Ratio(Total(trace, flagged), nodes),
       structural_ceiling |-> Ratio(Levels(trace) * Len(trace), nodes),
       mean_tree_size |-> Ratio(nodes, Len(trace)),
       tokens_per_iter |-> Ratio(WithBonus(Accepted(trace), trace), Len(trace))]

\* A row of the static sweep: the nodes and tokens the gate would have left.
StaticRow(trace, sigma) ==
  LET size(step) == Cardinality(PruneTree(step, sigma))
      flagged(step) == Flagged(step, PruneTree(step, sigma))
      accept(step) == GatedAccept(step, sigma)
      n_kept == Total(trace, size)   n_dropped == Nodes(trace) - n_kept
      dropped_acc == Accepted(trace) - Total(trace, flagged)
      eff_tpi == WithBonus(Total(trace, accept), trace)
  IN  [sigma |-> sigma,
       mean_tree_size |-> Ratio(n_kept, Len(trace)),
       nodes_kept_frac |-> Ratio(n_kept, Nodes(trace)),
       discarded_doomed_frac |-> Ratio(n_dropped - dropped_acc, n_dropped),
       kept_acceptance_density |-> Ratio(Total(trace, flagged), n_kept),
       accepted_retained_frac |-> Ratio(Total(trace, accept), Accepted(trace)),
       tokens_per_iter |-> Ratio(eff_tpi, Len(trace)),
       tokens_per_iter_retained_frac |->
         Ratio(eff_tpi, WithBonus(Accepted(trace), trace))]

StaticSweep(trace) == [r \in DOMAIN SweepSigmas |-> StaticRow(trace, SweepSigmas[r])]

CausalRow(trace) ==
  [mean_tree_size |-> Ratio(Nodes(trace), Len(trace)),
   tokens_per_iter |-> Ratio(WithBonus(Accepted(trace), trace), Len(trace))]

CausalSweep ==
  [sigma \in CausalSigmas |-> CausalRow([i \in DOMAIN drafted |-> Gated(drafted[i], sigma)])]

\* The sweep's prediction beside the measurement, at the gates that have both.
Agreement(rows, causal, ungated) ==
  {[sigma |-> row.sigma,
    static_predicted_retention |-> row.tokens_per_iter_retained_frac,
    causal_measured_retention |->
      Ratio(causal[row.sigma].tokens_per_iter.num * ungated.tokens_per_iter.den,
            causal[row.sigma].tokens_per_iter.den * ungated.tokens_per_iter.num),
    static_mu |-> row.mean_tree_size, causal_mu |-> causal[row.sigma].mean_tree_size] :
     row \in {rows[r] : r \in {r \in DOMAIN rows : rows[r].sigma \in CausalSigmas}}}

\* The free gate: every branch cut below max_depth.
DepthTruncation(trace, max_depth) ==
  LET shallow(step) == Cardinality({k \in DOMAIN step.nodes : step.nodes[k].depth <= max_depth})
      chain(step) == Min({step.accepted_length, max_depth + 1})
  IN  [nodes_kept_frac |-> Ratio(Total(trace, shallow), Nodes(trace)),
       accepted_retained_frac |-> Ratio(Total(trace, chain), Accepted(trace))]

InterpBackwards(x, xs, ys) ==   \* slip: t runs from the right end
  IF x <= xs[1] THEN Ratio(ys[1], 1)
  ELSE IF x >= xs[Len(xs)] THEN Ratio(ys[Len(ys)], 1)
  ELSE LET i == Min({i \in DOMAIN xs : x <= xs[i]})
           dx == xs[i] - xs[i - 1]
       IN  Ratio(ys[i - 1] * dx + (xs[i] - x) * (ys[i] - ys[i - 1]), dx)

\* Linear interpolation, clamped at both ends of the curve.
Interp(x, xs, ys) ==
  IF x <= xs[1] THEN Ratio(ys[1], 1)
  ELSE IF x >= xs[Len(xs)] THEN Ratio(ys[Len(ys)], 1)
  ELSE LET i == Min({i \in DOMAIN xs : x <= xs[i]})
           dx == xs[i] - xs[i - 1]
       IN  Ratio(ys[i - 1] * dx + (x - xs[i - 1]) * (ys[i] - ys[i - 1]), dx)

\* The confidence gate at the node budget of every depth cut.  The budgets are
\* over one number of nodes and the retentions over one number of accepts.
SignalValue(trace, rows) ==
  [d \in MaxDepths |->
     LET cut == DepthTruncation(trace, d)
         conf == Interp(cut.nodes_kept_frac.num,
                        [r \in DOMAIN rows |-> rows[r].nodes_kept_frac.num],
                        [r \in DOMAIN rows |-> rows[r].accepted_retained_frac.num])
     IN  [budget_nodes_frac |-> cut.nodes_kept_frac,
          depth_retention |-> cut.accepted_retained_frac,
          confidence_retention |-> Ratio(conf.num, conf.den * Accepted(trace))]]

\* The divisions nothing guards: fixed_budget's and static_sweep's by the
\* nodes and the accepts, marginal_yield's by the operating point's nodes and
\* by the nodes and the tokens between it and the ungated run.
DividesByZero(trace, causal, ungated) ==
  LET op == causal[SigmaOp]
  IN  \/ Nodes(trace) = 0 \/ Accepted(trace) = 0
      \/ op.mean_tree_size.num = 0
      \/ Fewer(ungated.mean_tree_size, op.mean_tree_size).num = 0
      \/ Fewer(ungated.tokens_per_iter, op.tokens_per_iter).num = 0

AnalysisInit == Init /\ analysis = [outcome |-> "none"]

\* analyse() on the ungated trace; an error leaves nothing written.
Analyse ==
  /\ queue = <<>> /\ gate = NegInf /\ analysis.outcome = "none"
  /\ LET fb == FixedBudget(eagle)
         static_rows == StaticSweep(eagle)
         causal == CausalSweep
     IN  analysis' = IF DividesByZero(eagle, causal, fb) THEN [outcome |-> "ZeroDivisionError"]
                     ELSE [outcome |-> "written", fixed_budget |-> fb, static_sweep |-> static_rows,
                           causal_sweep |-> causal,
                           agreement |-> Agreement(static_rows, causal, fb),
                           signal_value |-> SignalValue(eagle, static_rows)]
  /\ UNCHANGED vars

AnalysisNext ==
  \/ Next /\ UNCHANGED analysis
  \/ Analyse

AnalysisSpec == AnalysisInit /\ [][AnalysisNext]_<<vars, analysis>>

-----------------------------------------------------------------------------
Analysed == analysis.outcome = "written"

\* The counterfactual sweep and the two machines it stands for agree: a row
\* reports the tokens, and the verified nodes but for the root that stands in
\* for an empty tree, that CAPIM's replay of the trace at that gate charges;
\* and a gated run that drafts the same trees measures what it predicts, so
\* agreement()'s error is the divergence of the texts alone.
SweepIsReplay ==
  Analysed =>
    /\ \A r \in DOMAIN SweepSigmas, c \in CallsOf("capim") :
         records[c].cfg.sigma_th = SweepSigmas[r] =>
           LET row == analysis.static_sweep[r]
               emitted(step) == step.tokens
               verified(step) == step.verify.m
               empty == {i \in DOMAIN eagle : PruneTree(eagle[i], SweepSigmas[r]) = {}}
           IN  /\ row.tokens_per_iter.num = Total(records[c].steps, emitted)
               /\ row.mean_tree_size.num =
                    Total(records[c].steps, verified) - Cardinality(empty)
    /\ \A row \in analysis.agreement :
         /\ Same(row.static_predicted_retention, row.causal_measured_retention)
         /\ Same(row.static_mu, row.causal_mu)

\* The totals of the sweep mix two records of an accept, the nodes' flags and
\* accepted_length; they are the same chain: never more flags than one path has
\* levels (line 76), every dropped node doomed or an accept that was lost,
\* every lost one a token, a depth cut keeping the accepts above it.  So the
\* analysis gives up only where the trace or the gate has nothing to show: no
\* accept, no node at the operating point, no accept lost there.
StatisticsCountTheChain ==
  /\ Analysed =>
       /\ AtMost(analysis.fixed_budget.acceptance_density,
                 analysis.fixed_budget.structural_ceiling)
       /\ \A r \in DOMAIN SweepSigmas :
            LET row == analysis.static_sweep[r]
                doomed(step) == Cardinality({k \in DOMAIN step.nodes :
                  ~Survives(step.nodes[k], row.sigma) /\ ~step.nodes[k].accepted})
            IN  /\ row.discarded_doomed_frac.num = Total(eagle, doomed)
                /\ row.kept_acceptance_density.num = row.accepted_retained_frac.num
       /\ \A d \in MaxDepths :
            LET above(step) == Flagged(step, {k \in DOMAIN step.nodes : step.nodes[k].depth <= d})
            IN  analysis.signal_value[d].depth_retention.num = Total(eagle, above)
  /\ analysis.outcome = "ZeroDivisionError" =>
       \/ Accepted(eagle) = 0
       \/ \A i \in DOMAIN eagle : PruneTree(eagle[i], SigmaOp) = {}
       \/ \A i \in DOMAIN eagle : \A k \in DOMAIN eagle[i].nodes :
            eagle[i].nodes[k].accepted => Survives(eagle[i].nodes[k], SigmaOp)

\* The comparison at a matched budget is one: the curve ascends as the gate is
\* loosened (line 243), so a confidence retention lies between those of the
\* gates that keep fewer and more nodes than the budget, at a plateau too, and
\* a larger budget never retains less.
MatchedBudgets ==
  Analysed =>
    LET rows == analysis.static_sweep
        signal == analysis.signal_value
    IN  /\ \A r, s \in DOMAIN rows : r <= s =>
             /\ AtMost(rows[r].nodes_kept_frac, rows[s].nodes_kept_frac)
             /\ AtMost(rows[r].accepted_retained_frac, rows[s].accepted_retained_frac)
        /\ \A d \in MaxDepths, r \in DOMAIN rows :
             /\ AtMost(rows[r].nodes_kept_frac, signal[d].budget_nodes_frac) =>
                  AtMost(rows[r].accepted_retained_frac, signal[d].confidence_retention)
             /\ AtMost(signal[d].budget_nodes_frac, rows[r].nodes_kept_frac) =>
                  AtMost(signal[d].confidence_retention, rows[r].accepted_retained_frac)
        /\ \A d, e \in MaxDepths : d <= e =>
             AtMost(signal[d].confidence_retention, signal[e].confidence_retention)
=============================================================================
