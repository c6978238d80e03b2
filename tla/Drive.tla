-------------------------------- MODULE Drive --------------------------------
(***************************************************************************)
(* `main.py drive`: an EAGLE trace and a MEDUSA trace are re-costed by the *)
(* autoregressive baseline, by the CAPIM driver over its sweep, and by the *)
(* LP-Spec driver over its sweep.  One step of one drive() call per action.*)
(*                                                                         *)
(* What crosses the calls is the point: the draft cache that CAPIM's sweep *)
(* shares, the history LP-Spec must not share, the gate that was applied   *)
(* when the trace was collected and may be applied again at replay.        *)
(*                                                                         *)
(* `drafted` and `static` are ghosts: the trees of the two runs before the *)
(* collectors cut them, with what the target would accept of them.  A cost *)
(* is represented by the work ordered, see CapimDriver.                    *)
(***************************************************************************)
EXTENDS CapimDriver, DTP

CONSTANTS
  Inputs,   \* [drafted, gate, static, L, flags]: see the variables below
  SigmaThs, DraftDevices, MuThs, LSpecs   \* the sweep knobs, as sequences

ASSUME DriveAssumption ==
  /\ \A in \in Inputs :
       /\ Len(in.drafted) \in Nat /\ DOMAIN in.drafted = 1..Len(in.drafted)
       /\ in.gate \in Int \cup {NegInf} /\ in.L \in Nat \ {0}
  /\ SigmaThs \in Seq(Int \cup {NegInf}) /\ DraftDevices \in Seq({"npu", "pim"})
  /\ MuThs \in Seq(Int) /\ LSpecs \in Seq(Nat)

\* A recorded node, a drafted step, and a step on MEDUSA's whole static tree.
Node == [depth : Nat, parent_idx : Int, layer_idx : Nat,
         cumulative_log_prob : Int, accepted : BOOLEAN]
DraftedStep == [prompt_id : Nat, context_length : Nat, nodes : Seq(Node), accepted_length : Nat]
StaticStep == [prompt_id : Nat, prompt_len : Nat, nodes : Seq(Node)]

\* The accepted nodes are one chain, at most one at each depth.
OneChain(nodes) ==
  \A j, k \in DOMAIN nodes :
    nodes[j].accepted /\ nodes[k].accepted /\ nodes[j].depth = nodes[k].depth => j = k

\* A tree in its static order: every node at a position of its own, its parent
\* before it, one level up, and accepted if it is.
IsTree(nodes) ==
  \A k \in DOMAIN nodes :
    /\ \A j \in DOMAIN nodes : Pos(nodes[j]) = Pos(nodes[k]) => j = k
    /\ nodes[k].depth = 0 <=> nodes[k].parent_idx = -1
    /\ nodes[k].depth # 0 =>
         LET parent == nodes[nodes[k].parent_idx + 1]
         IN  /\ nodes[k].parent_idx \in 0..(k - 2) /\ parent.depth = nodes[k].depth - 1
             /\ nodes[k].accepted => parent.accepted

SameTree(a, b) ==
  /\ DOMAIN a = DOMAIN b
  /\ \A k \in DOMAIN a : Pos(a[k]) = Pos(b[k]) /\ a[k].parent_idx = b[k].parent_idx

VARIABLES
  drafted, gate,   \* the EAGLE run as drafted, and its collection's sigma_th
  static, L,       \* the MEDUSA run on its static tree, and its collection's L
  medusa,          \* the MEDUSA trace
  flags,           \* [all_npu, concurrent_verify]
  queue,           \* the drive() calls still to make, the running one first
  result,          \* the StepRecords of the running call
  draft_cache_by_key,
  hist,            \* LP-Spec's DTPHist
  records          \* the finished calls: [cfg, steps]

input == <<drafted, gate, static, L, medusa, flags>>
vars == <<input, queue, result, draft_cache_by_key, hist, records>>

-----------------------------------------------------------------------------
\* The accept the target measures in a gated tree: as far down the accepted
\* chain as the gate left it standing (EagleCollector's Posterior).
MeasuredAccept(step, sigma_th) ==
  Cardinality({k \in DOMAIN step.nodes :
    /\ step.nodes[k].accepted
    /\ \A j \in DOMAIN step.nodes :
         step.nodes[j].accepted /\ step.nodes[j].depth <= step.nodes[k].depth
           => Survives(step.nodes[j], sigma_th)})

\* A prompt's steps follow one another.
Grouped(steps) ==
  \A i, j \in DOMAIN steps :
    i < j /\ steps[i].prompt_id = steps[j].prompt_id =>
      steps[j - 1].prompt_id = steps[j].prompt_id

\* The runs as the collectors find them: the accepts are a chain from the root,
\* along which the score does not rise, a step counts them, and its context is
\* what the steps before it committed, under the gate of the collection; the steps of
\* a MEDUSA run are on one static tree.
ASSUME TraceAssumption ==
  \A in \in Inputs :
    /\ in.drafted \in Seq(DraftedStep) /\ in.static \in Seq(StaticStep)
    /\ Grouped(in.drafted) /\ Grouped(in.static)
    /\ \A i \in DOMAIN in.drafted :
         LET nodes == in.drafted[i].nodes
             accepted == {k \in DOMAIN nodes : nodes[k].accepted}
             last == in.drafted[i - 1]
         IN  /\ OneChain(nodes) /\ in.drafted[i].accepted_length = Cardinality(accepted)
             /\ \A k \in accepted : nodes[k].depth < Cardinality(accepted)
             /\ \A j, k \in accepted : nodes[j].depth <= nodes[k].depth =>
                  nodes[k].cumulative_log_prob <= nodes[j].cumulative_log_prob
             /\ i > 1 /\ last.prompt_id = in.drafted[i].prompt_id =>
                  in.drafted[i].context_length =
                    last.context_length + MeasuredAccept(last, in.gate) + 1
    /\ \A i \in DOMAIN in.static :
         LET nodes == in.static[i].nodes
         IN  OneChain(nodes) /\ IsTree(nodes) /\ SameTree(nodes, in.static[1].nodes)

\* The nodes a collector records, re-indexed to their positions in its list.
Recorded(nodes, kept) ==
  LET NewIndex(k) == Cardinality({j \in kept : j < k})
      At(i) == CHOOSE k \in kept : NewIndex(k) = i - 1
  IN  [i \in 1..Cardinality(kept) |->
         [nodes[At(i)] EXCEPT !.parent_idx = IF @ = -1 THEN -1 ELSE NewIndex(@ + 1)]]

\* What the EAGLE collector makes of a drafted step: the survivors, counted
\* anew at every depth, and the accepts among them (EagleCollector's
\* RecordedNodes and MarkAccepted).
Gated(step, sigma_th) ==
  LET nodes == Recorded(step.nodes, PruneTree(step, sigma_th))
  IN  [step EXCEPT
         !.nodes = [i \in DOMAIN nodes |-> [nodes[i] EXCEPT !.layer_idx =
            Cardinality({j \in 1..(i - 1) : nodes[j].depth = nodes[i].depth})]],
         !.accepted_length = MeasuredAccept(step, sigma_th)]

eagle == [i \in DOMAIN drafted |-> Gated(drafted[i], gate)]

\* What the MEDUSA collector makes of a step on the static tree: the selected
\* nodes keep their static layer_idx, the accepts are those of the chain that
\* was verified, and the context follows from the accepts before.
RecordKept(step, kept, ctx) ==
  LET nodes == Recorded(step.nodes, {k \in DOMAIN step.nodes : Pos(step.nodes[k]) \in kept})
      accepted_length == EffectiveAccept(step.nodes, kept)
  IN  [prompt_id |-> step.prompt_id, context_length |-> ctx,
       nodes |-> [i \in DOMAIN nodes |->
                    [nodes[i] EXCEPT !.accepted = @ /\ nodes[i].depth < accepted_length]],
       accepted_length |-> accepted_length]

\* One collection run at keep-count keep (MedusaCollector): one history over
\* all its steps, ranks and parents those of the static tree.
Collected(steps, keep) ==
  LET kp == KPredMap(steps[1].nodes)
      pp == ParentPosMap(steps[1].nodes)
      run[t \in 0..Len(steps)] ==
        IF t = 0 THEN [hist |-> EmptyHist, trace |-> <<>>]
        ELSE LET before == run[t - 1]
                 last == before.trace[t - 1]
                 kept == SelectKept(steps[t].nodes, t - 1, keep, "greedy_headk",
                                      before.hist, kp, pp)
                 ctx == IF t > 1 /\ last.prompt_id = steps[t].prompt_id
                        THEN last.context_length + last.accepted_length + 1
                        ELSE steps[t].prompt_len
                 step == RecordKept(steps[t], kept, ctx)
             IN  [hist |-> Update(before.hist, step.nodes, kp, pp, "headk"),
                  trace |-> Append(before.trace, step)]
  IN  run[Len(steps)].trace

\* itertools.product over the sweep, the last knob fastest.
CapimConfigs ==
  [c \in 1..(Len(SigmaThs) * Len(DraftDevices) * Len(MuThs)) |->
     LET mu == (c - 1) % Len(MuThs)
         dev == ((c - 1) \div Len(MuThs)) % Len(DraftDevices)
         sig == (c - 1) \div (Len(MuThs) * Len(DraftDevices))
     IN  [driver |-> "capim", sigma_th |-> SigmaThs[sig + 1],
          draft_device |-> DraftDevices[dev + 1], mu_th |-> MuThs[mu + 1],
          all_npu |-> flags.all_npu, concurrent_verify |-> flags.concurrent_verify]]

LpSpecConfigs == [c \in DOMAIN LSpecs |-> [driver |-> "lp_spec", L_spec |-> LSpecs[c]]]

Calls ==
  <<[driver |-> "ar", source |-> "eagle"], [driver |-> "ar", source |-> "medusa"]>>
    \o CapimConfigs \o LpSpecConfigs

Cfg == Head(queue)

TraceOf(cfg) ==
  IF cfg.driver = "capim" \/ (cfg.driver = "ar" /\ cfg.source = "eagle")
  THEN eagle ELSE medusa

Step == TraceOf(Cfg)[Len(result) + 1]

Running(driver) ==
  queue # <<>> /\ Cfg.driver = driver /\ Len(result) < Len(TraceOf(Cfg))

-----------------------------------------------------------------------------
Init ==
  /\ \E in \in Inputs : /\ drafted = in.drafted /\ gate = in.gate
                        /\ static = in.static /\ L = in.L /\ flags = in.flags
                        /\ medusa = Collected(in.static, in.L)
  /\ queue = Calls /\ result = <<>> /\ records = <<>>
  /\ draft_cache_by_key = [key \in {} |-> {}] /\ hist = EmptyHist

ArTokensNoBonus(step) == step.accepted_length   \* slip

ArTokens(step) == step.accepted_length + 1

\* AR: one target forward per token, at the token's own context.
ArStep ==
  /\ Running("ar")
  /\ result' = Append(result,
       [prompt_id |-> Step.prompt_id, tokens |-> ArTokens(Step),
        contexts |-> {Step.context_length + j : j \in 0..(ArTokens(Step) - 1)}])
  /\ UNCHANGED <<input, queue, draft_cache_by_key, hist, records>>

KeyBySigma(cfg) == cfg.sigma_th   \* slip: the device is not part of the key

CacheKey(cfg) == <<cfg.sigma_th, cfg.draft_device>>

\* setdefault(key, {}).
Cache == 
  IF CacheKey(Cfg) \in DOMAIN draft_cache_by_key
  THEN draft_cache_by_key[CacheKey(Cfg)] ELSE <<>>

\* CAPIM: draft (from the cache if an earlier call of the sweep left it),
\* gate, route, verify, accept.  The cache is filled in step order.
CapimStep ==
  /\ Running("capim")
  /\ LET i == Len(result) + 1
         draft == IF i \in DOMAIN Cache THEN Cache[i]
                  ELSE DraftCost(Step, Cfg.sigma_th, DraftOnNpu(Cfg))
         cache == IF i \in DOMAIN Cache THEN Cache ELSE Append(Cache, draft)
     IN  /\ draft_cache_by_key' =
              [key \in DOMAIN draft_cache_by_key \cup {CacheKey(Cfg)} |->
                 IF key = CacheKey(Cfg) THEN cache ELSE draft_cache_by_key[key]]
         /\ result' = Append(result,
              [prompt_id |-> Step.prompt_id, tokens |-> Tokens(Step, Cfg),
               draft |-> draft, verify |-> Verify(Step, Cfg)])
  /\ UNCHANGED <<input, queue, hist, records>>

FoldVerified(step, kept, kp, pp) ==   \* slip: only what the replay verified counts
  Update(hist, SelectSeq(step.nodes, LAMBDA n : Pos(n) \in kept), kp, pp, "headk")

\* The whole measured step is folded in, whatever L_spec keeps.
FoldStep(step, kept, kp, pp) == Update(hist, step.nodes, kp, pp, "headk")

FromOne == Len(result) + 1   \* slip: the first step is no cold start

StepIndex == Len(result)

\* LP-Spec: select by the history, verify, accept, then learn from the step.
LpSpecStep ==
  /\ Running("lp_spec")
  /\ LET kp == KPredMap(Step.nodes)
         pp == ParentPosMap(Step.nodes)
     IN  \E kept \in {SelectKept(Step.nodes, StepIndex, Cfg.L_spec, "greedy_headk",
                                   hist, kp, pp)} :
           /\ result' = Append(result,
                [prompt_id |-> Step.prompt_id,
                 tokens |-> EffectiveAccept(Step.nodes, kept) + 1,
                 kept |-> kept,
                 verify |-> [m |-> AtLeastOne(Cardinality(kept)),
                             ctx |-> Step.context_length]])
           /\ hist' = FoldStep(Step, kept, kp, pp)
  /\ UNCHANGED <<input, queue, draft_cache_by_key, records>>

\* A drive() call returns; the next one starts with a history of its own.
EndCall ==
  /\ queue # <<>> /\ Len(result) = Len(TraceOf(Cfg))
  /\ records' = Append(records, [cfg |-> Cfg, steps |-> result])
  /\ queue' = Tail(queue) /\ result' = <<>> /\ hist' = EmptyHist
  /\ UNCHANGED <<input, draft_cache_by_key>>

\* The records are written out.
Written == queue = <<>> /\ UNCHANGED vars

Next == ArStep \/ CapimStep \/ LpSpecStep \/ EndCall \/ Written

Spec == Init /\ [][Next]_vars

-----------------------------------------------------------------------------
CallsOf(driver) == {c \in DOMAIN records : records[c].cfg.driver = driver}

\* A draft taken from the sweep's cache is the one this call's own knobs call
\* for (driver.drive: "the caller must use a fresh cache per distinct
\* (sigma_th, draft_device)"), in every order of the sweep.
DraftsAreFresh ==
  \A c \in CallsOf("capim") : \A i \in DOMAIN eagle :
    LET cfg == records[c].cfg
    IN  records[c].steps[i].draft = DraftCost(eagle[i], cfg.sigma_th, DraftOnNpu(cfg))

\* The stricter of the collection's and the replay's gate.
Stricter(a, b) == IF a = NegInf THEN b ELSE IF b = NegInf \/ a >= b THEN a ELSE b

\* Gating at collection and again at replay is gating once with the stricter
\* threshold: mu, the plan and the emitted tokens are those of replaying the
\* ungated tree with it (sequencer.prune_tree, driver._effective_accept).
GatesCompose ==
  \A c \in CallsOf("capim") : \A i \in DOMAIN drafted :
    LET once == [records[c].cfg EXCEPT !.sigma_th = Stricter(gate, @)]
    IN  /\ records[c].steps[i].verify = Verify(drafted[i], once)
        /\ records[c].steps[i].tokens = Tokens(drafted[i], once)

\* The steps of a trace that belong to prompt p.
OfPrompt(trace, p) == {i \in DOMAIN trace : trace[i].prompt_id = p}

\* The steps of step i's prompt up to it, and the first of them.
UpTo(trace, i) == {j \in OfPrompt(trace, trace[i].prompt_id) : j <= i}
FirstOf(trace, i) == CHOOSE j \in UpTo(trace, i) : \A k \in UpTo(trace, i) : j <= k

\* The AR baseline re-generates the text: over a prompt it charges every
\* context from the first step's to the one the last token was committed at,
\* each once; and replaying the trace with no gate emits as many tokens.
ArTilesTheText ==
  /\ \A c \in CallsOf("ar") :
       LET steps == records[c].steps
           trace == TraceOf(records[c].cfg)
       IN  \A i \in DOMAIN trace :
             /\ UNION {steps[j].contexts : j \in UpTo(trace, i)} =
                  trace[FirstOf(trace, i)].context_length ..
                    (trace[i].context_length + trace[i].accepted_length)
             /\ \A j \in UpTo(trace, i) \ {i} : steps[i].contexts \cap steps[j].contexts = {}
  /\ \A a \in CallsOf("ar"), c \in CallsOf("capim") : \A i \in DOMAIN eagle :
       records[a].cfg.source = "eagle" /\ records[c].cfg.sigma_th = NegInf =>
         records[a].steps[i].tokens = records[c].steps[i].tokens

\* A larger L_spec only ever verifies more and emits more (effective_accept:
\* "monotone non-decreasing in L and <= the measured full-tree accept"), all
\* along the trace: the history a call learns does not depend on its L_spec.
NestedInL ==
  \A a, b \in CallsOf("lp_spec") : \A i \in DOMAIN medusa :
    records[a].cfg.L_spec <= records[b].cfg.L_spec =>
      /\ records[a].steps[i].kept \subseteq records[b].steps[i].kept
      /\ records[a].steps[i].tokens <= records[b].steps[i].tokens
      /\ records[b].steps[i].tokens <= medusa[i].accepted_length + 1

\* Replayed at the keep-count it was collected at, a MEDUSA trace passes through
\* LP-Spec's selection whole (drive_all.sh:13 "pass-through"): every recorded
\* node is verified and every measured accept emitted, although the trees are
\* pruned and their sibling ranks and rates are not those of the collection.
ReplayPassesThrough ==
  \A c \in CallsOf("lp_spec") : \A i \in DOMAIN medusa :
    records[c].cfg.L_spec = L =>
      /\ records[c].steps[i].kept = Positions(medusa[i].nodes)
      /\ records[c].steps[i].tokens = medusa[i].accepted_length + 1

\* driver.py:5: "the drafted width at each depth is the number of nodes whose
\* parent survived the gate", said of every replay, the one of a trace "already
\* gated by the GPU collector" included.
DraftWidthsCountBoundary ==
  \A c \in CallsOf("capim") : \A i \in DOMAIN drafted :
    LET cfg == records[c].cfg
    IN  records[c].steps[i].draft =
          DraftCost(drafted[i], Stricter(gate, cfg.sigma_th), DraftOnNpu(cfg))
=============================================================================
