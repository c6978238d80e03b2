# Verification of capim

capim measures what confidence gating buys speculative decoding on a mobile NPU + PIM
system. It runs two speculative decoders (EAGLE-2 and MEDUSA) on a GPU, records every
decode step as a *trace*, and re-costs the traces on an analytical cost plane under three
drivers: an autoregressive baseline, CAPIM and LP-Spec. The numbers it reports are only as
good as three claims, and these are what this project checks:

1. collecting does not change the text: gating and recording leave greedy decoding alone;
2. the trace describes the text that was generated, step by step;
3. the drivers charge, for every step of a trace, the work that step stands for.

## 1. The system

| component | state it keeps | operations | talks to |
|---|---|---|---|
| path invalidation, `common/gating.py` | locals of one scan | `invalidate_paths` | called by both collectors |
| EAGLE tree builder, `capim_ctrl/eagle_topk.py` | flat candidate lists of one draft; the `_capim_scores` stash | `topK_genrate` | called through the hook of the EAGLE collector |
| EAGLE collector, `capim_ctrl/collector.py` | per prompt: pending tree, steps, restore handles; per run: `all_steps` | `collect`, `attach`, `detach`, two wrapped hooks, `record_gated_step`, `mark_accepted` | called back by the external `eagenerate` loop |
| LP-Spec collector, `baselines/lp_spec/collector.py` | one recorder for the run, the histogram, the step index, a snapshot of the model's static buffer | `collect`, `attach`, `detach`, three wrapped functions, `record_kept` | called back by the external `medusa_generate` loop; edits the model's buffer in place |
| draft token pruner, `baselines/lp_spec/dtp.py` | `DTPHist`: accepted / reachable counts | `update`, `score_nodes`, `select_kept`, `effective_accept` | used at collection and at replay |
| CAPIM controller and driver, `capim_ctrl/sequencer.py`, `driver.py` | none of its own; a draft cache handed in | `prune_tree`, `route`, `drive` | reads an EAGLE trace, orders passes from the cost plane |
| LP-Spec driver, autoregressive baseline | one `DTPHist` per call; none | `drive` | read a trace, order passes |
| cost plane, `common/system.py`, `model.py`, `devices/` | a ledger (`Composed`) per pass | `build_*`, `tag`, `compose_sequential`, `compose_concurrent`, `cost_forward_pass`, `prefill_means` | called by every driver |
| command line, `main.py` | the sweep's cache of draft caches | `collect`, `drive` | ties the parts together |
| report, `common/report.py` | none; buckets per prompt | `aggregate_by_prompt`, `summarize`, `breakdown` and their tables | reads what a `drive()` call returned |
| pruning analysis, `scripts/cpu/pruning_analysis.py` | none | statistics of the ungated trace, static and causal sweep, matched budgets | reads the traces the drivers replay |
| trace schema, configuration, prompts, other scripts | files | load, save, plot | |

Everything runs in one thread. What is hard is not parallelism but *callbacks and leftovers*:

- the collectors only see the decoding loop through functions they wrap; the facts of one
  step are gathered in two or three different callbacks, and `eagenerate` drafts one tree
  more than it verifies, so a tree is pending when a prompt ends;
- any call inside the collectors' `try` may raise; what is wrapped must be unwrapped, what was
  edited restored, and no partial trace may look complete;
- MEDUSA's `retrieve_indices` is one buffer of the model, shared by all steps and prompts,
  and the gate is written into it;
- LP-Spec's histogram outlives prompts, and the selection of a step may use only the steps before it;
- the gate is applied at collection and may be applied again at replay;
- sweeps share caches between configurations;
- indices abound: candidate lists, trees, kept sub-trees and paths number the same nodes
  differently, `-1` is both padding and a valid Python index, ties decide orders;
- a trace pruned at collection is pruned again at replay, by rates counted from trees that
  miss siblings; the analysis gates a trace after the fact and takes the result for a measurement;
- a block of the network is costed once and scaled, with its boundaries patched in, and each
  charge is added by hand into latency, energy and three breakdowns.

What makes each component correct:

- invalidation cuts every path at its first pruned node, touches nothing else, and refuses
  exactly the keep sets that are not ancestor-closed;
- the tree builder's index arithmetic yields the tree that was drafted, each root-to-leaf path once;
- a collection's text is the target's greedy decoding, its steps tile that text, its flags
  spell it, its nodes are those that could be verified, and nothing of it stays in the model;
- the pruner selects a connected tree, causally;
- replay is order-independent across a sweep, monotone in its budget, and gating twice is
  gating once with the stricter threshold;
- the cost of a pass is that of the whole network, and every breakdown is a view of it;
- the headline rates, the tables and the end-to-end latency of a report are one picture of one call;
- the analysis counts what the replay charges, and compares two gates at the same budget.

The hazards, each at its line and with the properties that would catch it, are listed in
`PROJECT.json`.

## 2. Modules

| module | models | how it corresponds |
|---|---|---|
| `Gating` | `invalidate_paths` in closed form | operators on rows; used by everything below |
| `GatingScan` | the loop of `invalidate_paths` | `new_row`, `alive`, `out` are the code's locals; one position per action (`Keep`, `Cut`, `Raise`), `EndRow`, `Return` |
| `EagleDraft` | the interface between tree builder and collector | `WellFormedDraft` says what the collector relies on; `EagleTree` is proved to return it, `EagleCollector` assumes it |
| `EagleTree` | `topK_genrate` | actions `Expand`, `Rerank`, `Retrieve`, `SortRows` are the four stretches of the function; `Ascending` stands for `sort` and for loops over nodes in order, `Sooner` for the stable `sorted`; `lineage` and `logp` are ghosts that follow the hidden states instead of the indices |
| `Greedy` | abstract: what a collection promises about its text | chunks of greedy decoding, prompts delivered in order |
| `EagleCollector` | `collect`, `Collector`, its hooks, and `eagenerate` (external) | `Attach`, `Generate`, `DraftTree` (the wrapped `topK_genrate`), `Verify` (the wrapped `evaluate_posterior`), `UpdateInputs` (external), `Raise` at every call inside the `try`, `Detach`, `Return` |
| `DTP` | `dtp.py` | operators; a rate is an exact fraction, products are compared by cross-multiplication |
| `DTPGrowth` | abstract: MEDUSA's calibration | grows the tree node by node from the frontier; the code sorts once |
| `MedusaCollector` | the LP-Spec collector and `medusa_generate` (external) | `Candidates`, `TreeDecoding`, `Evaluate` are the three wrapped functions; `buffer` is the shared `retrieve_indices`, `pristine` the snapshot, `layers` the wrapping |
| `CapimDriver` | the decisions of the CAPIM driver | operators: gate, drafted widths, route, verify, accept |
| `Drive` | `main.py drive` over two traces | `ArStep`, `CapimStep`, `LpSpecStep`: one step of one `drive()` call; `EndCall`; `queue` is the sweep |
| `CostPlane` | layers, routers, composers, `cost_forward_pass` | `SequentialLayer`, `PinnedLayer`, `SplitLayer`, `GlueLayer`: one iteration of a composer; `EndBlock` scales and adds the hops, `EndPass` merges |
| `Analysis` | `pruning_analysis.py`'s `analyse()` after the sweep of `Drive` | `Analyse` on the ungated trace; a ratio is a pair of integers; an unguarded division by zero is an outcome |
| `Report` | a whole `drive()` call on `CostPlane` and its report | `EndPrefill` and `EndStep` end one costed step and start the next; `Reporting` aggregates; `Seconds` and `Joules` give the charges amounts |
| `TreeProofs`, `GreedyProofs`, `EagleProofs`, `DTPProofs`, `MedusaProofs`, `DriveProofs`, `SumProofs`, `CostProofs` | | theorems, section 5 |
| `MC*` | | instances for TLC |

Composition: `GatingScan` implements `Gating`, which both collectors use for the edited
rows; `EagleTree` produces what `EagleDraft` promises and `EagleCollector` consumes;
`EagleCollector` and `MedusaCollector` implement `Greedy` (refinement mapping: the text
after the prompt, and the delivered outputs); `MedusaCollector` and `Drive` both use `DTP`;
`CostPlane` costs exactly the work `CapimDriver` orders; `Report` runs it once per step of a
call and aggregates; `Analysis` reads the traces and the records of `Drive`. `Drive` derives
its two traces from the drafted trees as the collectors do (`Gated`, `Collected`), so the
replay is composed with a collection it fits.

Conventions. Operators marked *slip* are plausible bugs of the definition that follows them;
no specification uses them, they show that a property can fail. Positions count from 1
where the code counts from 0; recorded indices (`parent_idx`, `layer_idx`, `depth`) keep the
code's values. Tokens, log-probabilities and rates are small integers or fractions: only
their order and equality matter. A network is abstracted to what it chooses: the draft model
to the tree it may return, the target to `Argmax`, a function of the context.

Two abstractions deserve a word.

- *Costs.* A float cost is an opaque charge naming the operator and the place it ran, a sum
  is the bag of its charges, and `scale` multiplies multiplicities. Two equal bags are equal
  for all device rates. `Report` gives every charge a time and an energy by operator type and
  place, with the one relation between them the code guarantees: a split kernel takes what
  both devices need together.
- *Ties in `torch.topk`.* The vendored `topK_genrate` has upstream's guard against reordering
  commented out (`eagle_topk.py:128`). `Reranked` lets ties fall any way except that a child
  does not displace its equal parent. With arbitrary ties the parent of a kept node may be
  missing, and `searchsorted` then returns some other node (the mutant `AnyAmongEqual`
  shows it). In exact arithmetic such a tie needs a head's top log-probability of exactly 0. In
  half precision a small one may be rounded away when it is added to the path's sum, so ties
  are less rare there, and the assumption on `topk` carries more weight.

## 3. Runs

`tlc -config X.cfg M` for each; all finish within two minutes on two workers.

| run | question | bounds, and why they are enough |
|---|---|---|
| `gating_scan` | does the loop compute the closed form, and raise exactly when it should? | all pairs of rows of one tree over 4 nodes, depth 3, all keep sets: holes, shared prefixes and padding all occur; rows do not influence each other |
| `eagle_tree` | does the index arithmetic rebuild the drafted tree? | beams of 2, three expansions, 3, 5 or 6 nodes, two head outputs: candidates of three levels tie, kept leaves lie at all depths, parents precede and follow each other in both orders |
| `eagle_collector` | is a whole collection lossless, truthful, exception-safe, finite? | two prompts, gated and not, trees that are chain, fork, broom and single node, `MaxNewTokens` = 2 so up to three steps per prompt; every call inside the `try` may raise; all lengths of accept from 0 to 3 occur |
| `dtp_growth` | is sorting once the same as growing the tree? | three static trees of up to 5 nodes; rates 0, 1/3, 1/2, 1 and unobserved, so that equal and zero products occur; both granularities; every prefix is an L |
| `medusa_collector` | the same as for EAGLE, with a shared buffer and a histogram that lives on | two prompts, 3 steps each, a tree of 5 nodes with siblings of different parents, four selections; every call inside the `try` may raise |
| `drive` | does a sweep charge what the traces say, in any order, and does the analysis count what it charged? | EAGLE traces of three steps over two prompts from every tree of up to 3 nodes and every accepted chain, collected under 3 thresholds and replayed under 3; 2 devices, 2 routes, 3 values of `L_spec` in a non-monotone order; MEDUSA traces of 4 steps collected on the full tree and pruned, so that a replay meets missing siblings; static gates and depth cuts with equal and with distinct budgets |
| `cost_plane` | is the ledger of every pass that of the unrolled network, and the report that of the call? | calls of up to three steps over two prompts of unequal length, three drivers, split and unsplit verifies; networks of 1, 2 and 3 blocks (no hop, one, several), every placement and composer the drivers can order, empty to two-level trees, gated and not |

The properties, by what they say:

- `gating_scan`: `ScanComputesGating`, `RaisesIffMalformed`, `KeptSubtree`.
- `eagle_tree`: `ReturnsWellFormedDraft` (the assumption of the collector),
  `PathsAreLineages` (a node's path, token and score are those its hidden state was
  conditioned on), `OneRowPerLeaf` (the rows are the leaves', and as many as were allocated).
- `eagle_collector`: `RefinesGreedy`; `StepsTileText` and `TraceTilesOutput` (contexts and
  accepts of consecutive steps add up to the text, while generating and in the trace);
  `AcceptsSpellOutput` (the flagged nodes are one chain and spell the committed tokens);
  `RecordedIffVerifiable` (the recorded sub-tree is what the edited rows can verify);
  `PendingIsCurrent`, `WrappedOnce`, `BoundedSteps`, `TraceComplete`; `Termination`.
- `medusa_collector`: `HistIsRecount` (the histogram is the recount of the recorded steps),
  `CausalSelection`, `SelectionIsClosed`, `BufferIsGate` (from selection to commit, every reader
  of the shared buffer sees the recorded tree), `NothingLeftBehind`, `StepsTileOutput` (the recorded context is the
  cache's length, too), `RefinesGreedy`.
- `drive`: `DraftsAreFresh`, `GatesCompose`, `ArTilesTheText`, `NestedInL`;
  `ReplayPassesThrough` (a trace replayed at the keep-count it was collected at is verified
  whole); `SweepIsReplay` (a row of the static sweep is CAPIM's replay at that gate and
  predicts the gated run), `StatisticsCountTheChain` (flags and accepted lengths are one
  chain, so the statistics stay in range and the analysis gives up only on traces with
  nothing to show), `MatchedBudgets` (the interpolated comparison is between the right gates).
- `cost_plane`: `ChargesTheUnrolledNetwork`, `LedgersAreViews`, `DispatchIsLegal`,
  `KvStaysInBank`; `OnePicture` (rates of means are means of rates, the printed rows add up),
  `BusyTag` (the busy-time tag is printed exactly when devices overlap), `SplitBeatsBothDevices`.

Remarks on what these runs showed. The first three contradict comments that describe the
program; the properties follow the code:

- A balanced split is faster than either device alone, so the makespan of LP-Spec's split
  kernels is below *both* ends of the "band" `system.py:53` and `report.py:271` put it in.
- `report.py:181` counts CAPIM among the sequential drivers; with `concurrent_verify` it splits
  kernels, and then the "makespan" of `report.py:233` also holds the draft's unsplit kernels.
- `system.py:9-10` has every LP-Spec draft step composed sequentially. `lp_spec/driver.py:94`
  composes the MEDUSA heads with `compose_concurrent`, and explains why; so does `LpSpecPasses`.
- No crossing is charged between the last block and the `lm_head`: the head is composed on its
  own, without a device before it (`system.py:240-242`). `ChargesTheUnrolledNetwork` counts
  the crossings inside the stack only, as the code does.
- `drive_all.sh:14` has the collection L at least a step's tree size; the cold start records
  the full tree. The pass-through it argues for holds all the same (`ReplayPassesThrough`).
- The analysis divides by what the operating gate loses: when it loses no accepted token,
  `marginal_yield` raises and no result is written. Outside the sweep `_interp` clamps.

Five runs look for a violation and find it; each checks a statement of the repository that
the code does not keep:

| run | statement | what the run shows |
|---|---|---|
| `eagle_accepted_length` | `schema.py:63` "≥1: the bonus token" | the recorded value excludes the bonus token and can be 0 (the drivers add 1) |
| `eagle_context_length` | `schema.py:61` "tokens in the KV-cache at step start" | EAGLE traces count the sampled root, which is not yet in the cache; MEDUSA traces do not |
| `medusa_pad_match` | `gating.py:31` a matching pad token is what greedy emits anyway | a second pad match compares with unrelated logits and commits a token greedy decoding would not |
| `medusa_unobserved` | `dtp.py:34` never prunes an unobserved branch | the path product of an unobserved node carries its parent's rate |
| `drive_boundary` | `driver.py:5` and `:91` boundary nodes are charged | a trace gated at collection does not hold them |

`medusa_collector` therefore uses a target that never chooses the pad token 0
(`<unk>` in the Vicuna vocabulary), and `medusa_pad_match` one that does.

*Fairness.* `FairSpec` adds `WF_vars(Next)`: there is one thread and every call returns or
raises, so while a step is enabled one is taken. Only `Termination` uses it. No single action
is assumed fair; that the loop ends follows from each step committing at least the root.

*Deadlock* is checked everywhere; a finished or failed run stutters in an action of its own
(`Terminated`, `Written`, `Recorded`).

## 4. What is only model-checked

`Termination` of both collectors: liveness, and `ENABLED` with it, is out of the proof
system's reach. Every invariant and every action property that a run checks is also stated by
a theorem.

The prover cannot instantiate a theorem that takes an operator. Induction is therefore stated
over sets (`SetInduction`, `SumProofs!Induction`), and that a recursive function of the model
is defined at all (`Scores`, a collection run, a sum) is shown by hand where it is needed.

## 5. What is proved

All constants are arbitrary, within the named assumptions of the modules:

- `TreeAssumption` of `EagleTree`: a beam is not empty, a tree has at least one node and no more
  than were drafted, a head's top log-probabilities are at most 0 and descend, as `topk` of a
  log-softmax gives them; and what `Reranked` assumes of equal scores (section 2);
- `CollectorAssumption`: draft trees are well formed (`BuilderReturnsDrafts` proves it of
  `EagleTree`), thresholds are integers or minus infinity, prompts are non-empty;
- `TreeAssumption` of `MedusaCollector`: the static tree's rows are padded root-to-leaf paths, a node's number
  is its place in MEDUSA's sorted tree (`collector.py:69`), so parents precede children;
- `GrowthAssumption` of `DTPGrowth`: a static tree lists every node once and after its parent,
  as `build_static_structure` does; a key was accepted at most as often as reached;
- `DriveAssumption`: thresholds are integers or minus infinity, budgets positive, traces finite;
- `TraceAssumption`: a run's steps are typed and come prompt after prompt; a draft's accepted
  nodes are one chain from the root, along which the score does not rise, and are counted by
  the accepted length; within a prompt a context is the one before plus what its gated step emitted; all
  MEDUSA steps of a run are on one static tree. `TraceTiles` and `AcceptsSpell` prove the
  chain and the contexts of an EAGLE collection, and `TraceTiles` the contexts of a MEDUSA one;
- `AnalysisAssumption`: thresholds and depths are integers, the sweep's thresholds descend, the
  operating point is a gate that was collected;
- `CostAssumption`: networks have positive dimensions, contexts are positive;
- `CallsAssumption`: a call has a trace, and its steps are jobs; `ReportAssumption`: rates are
  positive, and a split kernel takes `t_n * t_p / (t_n + t_p)`, the balanced split of `system.py`.

Hypotheses that only some theorems need are stated in them: `TargetTotal`, the target's
argmax is a token id; `NilIsNoTree`, Python's `None` is not a tree; `TargetNeverPads`, the
target never chooses the pad token (`medusa_pad_match` shows that it is needed), and
`MaxSteps > 0`.

- `TreeProofs`.
  - The gate. The inductive invariant `LoopInv` relates the row being built to the cut row and
    `alive` to `AliveAfter`. The loop's result, and that it raises on exactly the malformed
    keep sets, follow; then that the cut paths lead to exactly the kept nodes.
  - The builder, for every beam, depth, tree size and head. `BuildInv` (`BuildIsOrderly`) says
    that candidate c extends the candidate that `parents_list[(c - 1) // K]` names, in tokens
    and in score. It needs the beam, too: a slot's index plus the level's bias is the
    candidate the slot holds (`BeamOK`), and an expansion starts where the lists end
    (`BiasNext`). The rerank keeps the parents of what it keeps: a higher score is never left
    for a lower one (`TopkTakes`), an equal parent by the assumption on ties. Hence
    `searchsorted` finds the parent, and finds it before the child (`MaskIndexFinds`); the
    mask, filled row by row, holds each node's ancestors; the walk up from a leaf, with its
    `-1` as an index, is the leaf's path (`WalkIsPath`); the sort permutes the rows
    (`SortPermutes`). The three properties are then inductions along a node's path
    (`BuilderReturnsDrafts`, `BuilderKeepsLineages`, `BuilderListsLeaves`).
  - The pruner's tree. `GrowthInv`: what has grown sorts before what has not. Whatever has not
    grown has an ancestor in the frontier, and sorts after it (`FrontierReaches`), so the best
    of the frontier is the best of all; what has grown is therefore the first L of the sorted
    nodes, for every L, with no sort in the argument (`SortingIsGrowing`).
- `GreedyProofs`. What both losslessness proofs share: a text stays greedy when tokens are
  appended that are each the target's choice, and its tail is then a step of `Greedy`.
- `EagleProofs`.
  - The text. `Lossless`: `Spec => RefinesGreedy`, for every tree, gate, target and exception.
    `LosslessInv` says that the text after the prompt is greedy and that what `Verify`
    accepted is a path of the tree whose tokens are greedy after it; without the second part
    the step that commits the path could not be shown greedy.
  - One step. Cumulative scores do not increase along a path, so the kept set is
    ancestor-closed along every row (`GateIsClosed`: `invalidate_paths` cannot raise on it),
    and the edited rows reach exactly the kept nodes (`CutRowsReachKept`).
  - The run. `HookInv` ties the number of recording layers to the program point
    (`HooksRestored`); `TypeInv` says what is defined at which point (`TypeCorrect`);
    `StepInv` relates the recorded steps, the pending tree, the context length and the loop's
    counters (`StepsTile`, `PendingStaysCurrent`, `StepsBounded`). `RecordedIsVerifiable`
    combines the record lemmas with the gate; `TraceIsComplete` needs only that a failure is
    never forgotten.
  - The trace. `FiledInv` carries the tiling into the steps of the prompts already done
    (`TraceTiles`). `SpellInv` says that a step's flags are one chain and spell what it
    committed (`AcceptsSpell`): from the verdict to the commit the last step is ahead of the
    text, and says what the text is about to become.
- `DTPProofs`. `SelectionIsSubtree`: a rate is at most one, so a score does not rise along a
  path, and ties break toward the shallower node. A node's parent therefore sorts before it,
  and the first L of the sorted list are a subtree, whatever the histogram holds.
  `SelectionBounded`: they are L at most.
- `MedusaProofs`.
  - The steps. `HookInv` follows the wrapped functions and the shared buffer through every
    callback and every raise (`PutBack`). `RecordInv` says that the
    histogram is the recount of the recorded steps (`HistogramIsRecount`) and that each step's
    tree is what its predecessors select (`SelectionIsCausal`). It needs the middle of a step
    too, when the selection is made but its step not yet recorded (`InFlight`). With
    `DTPProofs` the selection is a subtree, so the gate is never refused (`NeverRefused`);
    the buffer leads to the tree in flight, flagged or not, and evaluating keeps it there until
    the commit (`CommitGated`, `BufferHoldsGate`).
  - The text. `Lossless`, along the argument of the EAGLE one: the rows in the buffer are cut
    paths (`RowsSound`), a pad in a row reads the pad token, which the target never chooses,
    so an accepted prefix holds real nodes only.
  - The trace. `TileInv`: the steps tile and spell the text of every prompt, the running one
    included (`TraceTiles`).
- `DriveProofs`. `CacheNeverStale`: what lies under a key was costed with that key's knobs
  (`CacheSound`); a call reads under its own key and fills the cache in step order, so the
  i-th entry is the i-th step's (`ResultSound`). `ReplayInv` adds that every call records, for
  each step of its trace, what its own knobs order, and that an LP-Spec call's histogram is
  that of the measured steps so far (`Learnt`), which no knob of the call enters. The
  properties are then facts about one step under two thresholds (`GatingComposes`), two
  keep-counts (`BudgetsNest`) or two contexts (`BaselineTiles`). `ReplayIsWhole`: the order of
  the pruner is strict and total, so the first L are L; what a collection kept is recorded as a
  tree again, and a replay at the same L selects all of it.
  The analysis is a function of the ungated trace (`AnalysisInv`), and its numbers are totals
  over the steps, so what holds of one step under one gate or two carries over term by term
  (`TermByTerm`, `SumOfParts`): a row is the replay at its gate, one root for every empty tree
  apart, and the gated run measures it (`SweepStandsForReplay`); what a gate or a cut drops of
  a chain from the root is counted the same by flags and by length, and a division by zero
  needs a total that is zero or that the gate leaves alone (`StatisticsAreOfOneChain`). For
  `BudgetsAreMatched` the sweep's curve is shown to ascend with one value to an abscissa;
  `InterpBetween` and `InterpAscends` then hold of every such curve and every point.
- `SumProofs`. Induction over sets, and sums and bags: a sum over a finite set is taken one
  element after the other, in any order. Places are counted in a list that repeats a block
  and in the rows of a table.
- `CostProofs`. The layers the builders list and where the routers put them (`PassesTyped`).
  `CostInv` says of every ledger, also one half composed, with charges still in the lanes of
  `compose_concurrent`, how often each charge is in each breakdown (`BreakdownsAreViews`), and
  that no attention leaves the bank (`AttentionInBank`). `LpInv`: an LP-Spec ledger has every
  matmul split, and in both bounds (`DispatchLegal`). `CallInv` adds the call around the
  step, and what the report says of the records so far (`ReportIsOnePicture`, `TagIsRight`,
  `SplitPays`), for all rates. `Billed` counts: at every point each ledger holds, charge by
  charge, what the layers costed so far are due in the network unrolled (`LedgersAreDue`). A
  layer adds its kernel, its gather and the transfer before it (`BillMore`); a block scaled,
  with its hops, is the stack (`StackBill`), since the consumer's input is the producer's
  output at every block boundary; the passes add up to the step (`DueMore`), and that is
  `NetworkCharged`.

## 6. What is not modelled

- The networks: tokens and log-probabilities are chosen from small sets.
- An exception in `attach()`. It stands before the `try` (`capim_ctrl/collector.py:373`,
  `baselines/lp_spec/collector.py:396`), so no `detach()` would follow one, and what was
  already wrapped would stay so. It only imports a module, reads attributes and sets them.
- `eagenerate`'s third stop, at `max_length`, which ends a prompt like the other two, and the
  error paths of an empty trace.
- Roofline times and energies (`devices/`), `config.py`, `type.py`: plain arithmetic and constants.
- `report.py`: the sample deviations (error bars), the split of energies by component, the
  layout of tables and CSV. `schema.py`: `save` and `load` copy field by field, and
  `compute_summary`'s means are printed and used nowhere.
- `cmd_collect`, `load_eagle_model`, `load_medusa_model`, `sd_repos.py`, `prompts/`: loading.
- `scripts/` but for `pruning_analysis.py`: figures, tables and commands in sequence.
- `Report` gives LP-Spec steps a full accept; what a smaller one would be is in `Drive`.
- `CapimConfig.split_attention` stays `None`, the value every caller leaves it at.
- LP-Spec is driven with its default selection, as `main.py` does.

## 7. Plan

Done: the gate, both collectors, the draft tree, the pruner, the replay drivers, the cost
composition, the report and the analysis, each with its runs; proofs for the gate, the draft
tree, both collections, the pruner, the replay, the analysis, and the ledgers and reports of
the cost plane. Left: `Drive` with the other selections of `dtp.py`, and `split_attention` in
`CostPlane`, once a caller uses them.
