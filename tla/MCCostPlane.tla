----------------------------- MODULE MCCostPlane -----------------------------
(***************************************************************************)
(* Instances of CostPlane and Report: drive() calls of the three drivers   *)
(* on networks of one, two and three blocks whose dimensions all differ,   *)
(* each after its prefill; single steps under every placement, and runs of *)
(* three steps over two prompts.                                           *)
(***************************************************************************)
EXTENDS Report

Net(n, db) ==
  [d_model |-> 4, n_heads |-> 2, intermediate_size |-> 6, vocab_size |-> 10,
   bytes_per_param |-> db, n_layers |-> n]

Nets == {Net(1, 1), Net(2, 2), Net(3, 1)}

Node(d, cum, par) ==
  [depth |-> d, cumulative_log_prob |-> cum, parent_idx |-> par, accepted |-> FALSE]

ChainTree == <<Node(0, -1, -1), Node(1, -2, 0), Node(2, -3, 1)>>

\* The empty tree, a root's child, a pair, a chain, and a bush of two levels.
Trees ==
  { <<>>, <<Node(0, -1, -1)>>,
    <<Node(0, -1, -1), Node(0, -3, -1)>>,
    ChainTree,
    <<Node(0, -1, -1), Node(0, -2, -1), Node(1, -2, 0), Node(1, -3, 1)>> }

StepOf(nodes, ctx, acc, q) ==
  [prompt_id |-> q, context_length |-> ctx, nodes |-> nodes, accepted_length |-> acc]

ArCalls ==
  {[driver |-> "ar", model |-> net, steps |-> <<StepOf(<<>>, 3, acc, 0)>>] :
     net \in Nets, acc \in 0..2}

CapimCfgs ==
  [sigma_th : {NegInf, -2}, mu_th : {2}, draft_device : {"pim", "npu"},
   all_npu : BOOLEAN, concurrent_verify : BOOLEAN]

CapimCalls ==
  {[driver |-> "capim", model |-> net, cfg |-> cfg, steps |-> <<StepOf(nodes, 3, 0, 0)>>] :
     net \in Nets, nodes \in Trees, cfg \in CapimCfgs}

LpSpecCalls ==
  {[driver |-> "lp_spec", model |-> net, steps |-> <<StepOf(<<>>, 3, 0, 0)>>, m |-> m,
    medusa_num_heads |-> heads] : net \in Nets, m \in {1, 3}, heads \in {1, 2}}

\* Two steps of one prompt and one of the next, accepting all, none and one.
\* In a CAPIM call one verify is small and one is large, see mu_th.
Run(first, second, c) ==
  << StepOf([k \in DOMAIN first |-> [first[k] EXCEPT !.accepted = TRUE]], c, Len(first), 0), StepOf(second, c + Len(first) + 1, 0, 0),
     StepOf(<<Node(0, -1, -1)>>, 2, 0, 1) >>

RunCalls ==
  {[driver |-> "ar", model |-> net, steps |-> Run(<<>>, <<>>, 3)] : net \in Nets}
  \cup
  {[driver |-> "capim", model |-> Net(2, 2), cfg |-> cfg, steps |-> Run(a, b, 3)] :
     cfg \in CapimCfgs, a \in {<<>>, ChainTree}, b \in {<<Node(0, -1, -1)>>, ChainTree}}
  \cup
  {[driver |-> "lp_spec", model |-> net, m |-> 2, medusa_num_heads |-> 1,
    steps |-> Run(<<>>, <<>>, 4)] : net \in Nets}

MCCalls == ArCalls \cup CapimCalls \cup LpSpecCalls \cup RunCalls

MCJobs == UNION {{JobsOf(c)[k] : k \in 1..(Len(c.steps) + 1)} : c \in MCCalls}

\* The PIM is slow on some kernels and fast on others; a split takes
\* t_n * t_p / (t_n + t_p).
MCSeconds ==
  [x \in Places |->
     CASE x[2] = "BOTH" -> 2
       [] x = <<"FC", "NPU">> -> 6 [] x = <<"FC", "PIM">> -> 3
       [] x = <<"MATMUL", "NPU">> -> 3 [] x = <<"MATMUL", "PIM">> -> 6
       [] x[1] \in NONLINEAR -> 1 [] x[1] = "COMM" -> 4]

MCJoules ==
  [x \in Places |->
     CASE x[2] = "NPU" -> 5 [] x[2] = "PIM" -> 2 [] x[2] = "BOTH" -> 3 [] x[1] = "COMM" -> 7]
=============================================================================
