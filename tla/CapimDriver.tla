----------------------------- MODULE CapimDriver -----------------------------
(***************************************************************************)
(* The decisions of the CAPIM replay driver: capim_ctrl/sequencer.py and   *)
(* capim_ctrl/driver.py.  Times and energies are functions of the work     *)
(* ordered (which widths and contexts, on which device, composed how), so  *)
(* a cost is represented by that work.                                     *)
(*                                                                         *)
(* A step's `nodes` are a sequence of records with depth,                  *)
(* cumulative_log_prob, parent_idx (0-based, -1 under the root), accepted  *)
(* and layer_idx.  Of the operators marked "slip" see EagleCollector.      *)
(***************************************************************************)
EXTENDS Integers, Sequences, FiniteSets

CONSTANT NegInf   \* float("-inf")

Survives(node, sigma_th) == sigma_th = NegInf \/ node.cumulative_log_prob >= sigma_th

\* The positions of the nodes that survive the gate.
PruneTree(step, sigma_th) ==
  {k \in DOMAIN step.nodes : Survives(step.nodes[k], sigma_th)}

AtLeastOne(n) == IF n < 1 THEN 1 ELSE n

Mu(step, sigma_th) == AtLeastOne(Cardinality(PruneTree(step, sigma_th)))

\* The nodes that were drafted: those whose parent survived.
Generated(step, sigma_th) ==
  {k \in DOMAIN step.nodes :
     LET node == step.nodes[k]
     IN  \/ sigma_th = NegInf \/ node.depth = 0
         \/ /\ node.parent_idx \in 0..(Len(step.nodes) - 1)
            /\ Survives(step.nodes[node.parent_idx + 1], sigma_th)}

GeneratedByDepth(step, sigma_th) ==
  LET generated == Generated(step, sigma_th)
  IN  [d \in {step.nodes[k].depth : k \in generated} |->
         Cardinality({k \in generated : step.nodes[k].depth = d})]

\* One draft pass per depth, composed sequentially.
DraftCost(step, sigma_th, draft_on_npu) ==
  LET gen == GeneratedByDepth(step, sigma_th)
  IN  [d \in DOMAIN gen |->
         [width |-> gen[d], ctx |-> step.context_length + d,
          fc |-> IF draft_on_npu THEN "NPU" ELSE "PIM"]]

AcceptUngated(step, sigma_th) == step.accepted_length   \* slip

\* driver._effective_accept: accepted tokens that also survive the gate.
GatedAccept(step, sigma_th) ==
  LET surviving == Cardinality({k \in PruneTree(step, sigma_th) : step.nodes[k].accepted})
  IN  IF surviving < step.accepted_length THEN surviving ELSE step.accepted_length

Route(mu, mu_th, concurrent_verify) ==
  IF mu < mu_th
  THEN [exec_model |-> "SEQUENTIAL", fc_device |-> "PIM", split_attention |-> FALSE]
  ELSE [exec_model |-> IF concurrent_verify THEN "CONCURRENT" ELSE "SEQUENTIAL",
        fc_device |-> "NPU", split_attention |-> FALSE]

DraftOnNpu(cfg) == cfg.all_npu \/ cfg.draft_device = "npu"

\* The target forward over mu tokens; attention is on the FC device only in
\* the all-NPU ablation.
Verify(step, cfg) ==
  LET mu == Mu(step, cfg.sigma_th)
      plan == IF cfg.all_npu
              THEN [exec_model |-> "SEQUENTIAL", fc_device |-> "NPU",
                    split_attention |-> FALSE]
              ELSE Route(mu, cfg.mu_th, cfg.concurrent_verify)
  IN  [m |-> mu, ctx |-> step.context_length, plan |-> plan,
       attention |-> IF cfg.all_npu THEN "NPU" ELSE "PIM"]

Tokens(step, cfg) == GatedAccept(step, cfg.sigma_th) + 1
=============================================================================
