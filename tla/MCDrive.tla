------------------------------- MODULE MCDrive -------------------------------
(***************************************************************************)
(* Instances of Drive and of Analysis after it.  EAGLE runs of three steps *)
(* over two prompts: every shape of up to three nodes whose cumulative     *)
(* log-prob never increases towards the leaves, every accepted chain; the  *)
(* gate shortens the accepts and so the contexts of the steps after it.    *)
(* MEDUSA runs of three and four steps over two prompts on a static tree   *)
(* of five nodes, every accepted chain (none in the first of four steps),  *)
(* collected at several keep-counts, up to the whole tree.                 *)
(***************************************************************************)
EXTENDS Analysis

\* Parents, 0-based; siblings and levels in the order they are recorded.
Shapes == {<<-1>>, <<-1, 0>>, <<-1, -1, 0>>}
Cums == {-1, -2, -3}

DepthIn(par) == 
  LET d[k \in DOMAIN par] == IF par[k] = -1 THEN 0 ELSE d[par[k] + 1] + 1 IN d

LayerIdxIn(par) ==
  [k \in DOMAIN par |-> Cardinality({j \in 1..(k - 1) : DepthIn(par)[j] = DepthIn(par)[k]})]

\* The chains from the root: a node with its ancestors, or nothing.
ChainsIn(par) ==
  LET up[k \in DOMAIN par] == {k} \cup IF par[k] = -1 THEN {} ELSE up[par[k] + 1]
  IN  {{}} \cup {up[k] : k \in DOMAIN par}

NodesIn(par, cum, chain) ==
  [k \in DOMAIN par |->
     [depth |-> DepthIn(par)[k], parent_idx |-> par[k], layer_idx |-> LayerIdxIn(par)[k],
      cumulative_log_prob |-> cum[k], accepted |-> k \in chain]]

CumsOf(par) ==
  {cum \in [DOMAIN par -> Cums] :
     \A k \in DOMAIN par : par[k] # -1 => cum[k] <= cum[par[k] + 1]}

\* What a step drafts and what the target accepts of it.
Drafts ==
  UNION {{[nodes |-> NodesIn(par, cum, chain), accepted_length |-> Cardinality(chain)] :
            cum \in CumsOf(par), chain \in ChainsIn(par)} : par \in Shapes}

At(draft, p, ctx) ==
  [prompt_id |-> p, context_length |-> ctx, nodes |-> draft.nodes,
   accepted_length |-> draft.accepted_length]

After(step, sigma_th) == step.context_length + MeasuredAccept(step, sigma_th) + 1

LastDraft ==
  [nodes |-> NodesIn(<<-1, 0>>, <<-1, -2>>, {1, 2}), accepted_length |-> 2]

SecondDrafts ==
  {[nodes |-> NodesIn(<<-1, 0>>, <<-1, -2>>, chain), accepted_length |-> Cardinality(chain)] :
     chain \in ChainsIn(<<-1, 0>>)}

\* Two steps of the first prompt, one of the second.
EagleRun(a, b, g) ==
  LET one == At(a, 0, 3)
      two == At(b, 0, After(one, g))
  IN  <<one, two, At(LastDraft, 1, 2)>>

StaticPar == <<-1, -1, 0, 0, 1>>
StaticCum == [k \in 1..5 |-> -1]

\* A MEDUSA run of as many steps as there are chains, the last of a second prompt.
Static(chains) ==
  [t \in DOMAIN chains |->
     [prompt_id |-> IF t > 1 /\ t = Len(chains) THEN 1 ELSE 0, prompt_len |-> 2,
      nodes |-> NodesIn(StaticPar, StaticCum, chains[t])]]

Normal == [all_npu |-> FALSE, concurrent_verify |-> TRUE]
AllFlags == [all_npu : BOOLEAN, concurrent_verify : BOOLEAN]

Idle == Static(<<{}>>)

MCInputs ==
  {[drafted |-> EagleRun(a, b, g), gate |-> g, static |-> Idle, L |-> 2, flags |-> Normal] :
     a \in Drafts, b \in SecondDrafts, g \in {NegInf, -1, -2}}
  \cup
  {[drafted |-> <<At(a, 0, 3)>>, gate |-> g, static |-> Idle, L |-> 2, flags |-> f] :
     a \in Drafts, g \in {NegInf}, f \in AllFlags}
  \cup
  {[drafted |-> <<At(LastDraft, 0, 2)>>, gate |-> NegInf, static |-> Static(c),
    L |-> keep, flags |-> Normal] : c \in [1..3 -> ChainsIn(StaticPar)], keep \in {1, 3, 5}}
  \cup
  {[drafted |-> <<At(LastDraft, 0, 2)>>, gate |-> NegInf, static |-> Static(<<{}>> \o c),
    L |-> keep, flags |-> Normal] : c \in [1..3 -> ChainsIn(StaticPar)], keep \in {2, 5}}

OneStepInputs ==
  {[drafted |-> <<At(a, 0, 3)>>, gate |-> -2, static |-> Idle, L |-> 2, flags |-> Normal] : a \in Drafts}

MCSigmaThs == <<-2, NegInf, -1>>
MCDraftDevices == <<"pim", "npu">>
MCMuThs == <<2, 3>>
MCSweepSigmas == <<-1, -2, -3>>
MCCausalSigmas == {-1, -2}
MCSigmaOp == -1
MCLSpecs == <<1, 3, 2>>
=============================================================================
