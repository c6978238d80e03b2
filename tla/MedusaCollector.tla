--------------------------- MODULE MedusaCollector ---------------------------
(***************************************************************************)
(* Collection of an LP-Spec trace: baselines/lp_spec/collector.py          *)
(* `collect`, its one `Collector` for the whole run, and the external      *)
(* decoding loop (`medusa_generate`) whose three functions it wraps.       *)
(*                                                                         *)
(* What makes it delicate: `retrieve_indices` is one static buffer of the  *)
(* model, shared by every iteration, prompt and collection, and the gate   *)
(* is written into it; and the histogram and the step index live across    *)
(* prompts while a tree must not.  The static tree is a record as in       *)
(* EagleCollector: nodes 1..n, their paths from the root 0, the rows.      *)
(***************************************************************************)
EXTENDS Gating, DTP

CONSTANTS
  Vocab,          \* token ids
  Eos,            \* the end-of-sequence token
  PadToken,       \* what generate_candidates yields for a negative index: 0
  Prompts,        \* the prompts, tokenized
  Argmax(_),      \* the target's greedy next token after a cached context
  Tree,           \* the static tree: [n, path, rows]
  HeadTables,     \* the heads' top-k tokens: [depth |-> [rank |-> token]]
  Knobs,          \* the choices of [L, selection] to collect with
  MaxSteps,       \* medusa_generate's max_steps
  Nil             \* Python's None

ASSUME MedusaAssumption ==
  /\ Vocab \subseteq Nat /\ PadToken \in Nat /\ Eos \in Nat
  /\ Prompts \in Seq(Seq(Vocab)) /\ MaxSteps \in Nat
  /\ Knobs \subseteq
       [L : Nat,
        selection : {"greedy_headk", "greedy_node", "first_l", "full", "oracle"}]
  /\ Tree.n \in Nat \ {0} /\ NodesOf(Tree.rows) = 1..Tree.n

\* generate_medusa_buffers: the choices are sorted, so a parent comes before
\* its children, and a row is the path to its leaf, padded.
ASSUME TreeAssumption ==
  /\ Tree.path \in [0..Tree.n -> Seq(0..Tree.n)] /\ Tree.path[0] = <<0>>
  /\ Tree.rows \in Seq(Seq((0..Tree.n) \cup {Pad}))
  /\ \A r \in 1..Len(Tree.rows) :
       /\ Len(Tree.rows[r]) >= 1 /\ Tree.rows[r][1] = 0
       /\ \A j \in 1..Len(Tree.rows[r]) :
            Tree.rows[r][j] # Pad =>
              Tree.path[Tree.rows[r][j]] = SubSeq(Tree.rows[r], 1, j)
  /\ \A v \in 1..Tree.n : \A i \in 2..Len(Tree.path[v]) :
       Tree.path[v][i - 1] < Tree.path[v][i]

VARIABLES
  pc,             \* where the run is: see Next
  layers,         \* recording layers around the three wrapped functions
  saved,          \* the Collector's restore handles
  buffer,         \* model.medusa_buffers["retrieve_indices"]
  knobs,          \* Collector.L, .selection
  ready, pristine,\* Collector._ready, _pristine_rows
  hist, t,        \* Collector._hist, _t
  pending, steps, \* Collector._pending, _steps
  pid,            \* the prompt being collected, from 1
  ids, kv,        \* medusa_generate: input_ids, the tokens in the KV-cache
  root, heads,    \* the next root; the heads' tokens for the current tree
  idx,            \* iterations of the current prompt
  best, accept,   \* what evaluate_posterior returned
  last,           \* the text yielded last
  failed,         \* an exception is propagating through `collect`
  prompt_outputs, trace

loop == <<ids, kv, root, heads, idx, best, accept, last>>
static == <<knobs, ready, pristine>>
result == <<prompt_outputs, trace>>
vars == <<pc, layers, saved, buffer, static, hist, t, pending, steps, pid, loop,
          failed, result>>

-----------------------------------------------------------------------------
(* build_static_structure and what is derived from it once.  The operators *)
(* marked "slip" are plausible bugs of the definition they precede.        *)

Depth(v) == Len(Tree.path[v]) - 2

LayerIdx(v) == Cardinality({u \in 1..Tree.n : u < v /\ Depth(u) = Depth(v)})

ParentOf(v) == Tree.path[v][Len(Tree.path[v]) - 1]

Node(v, parent_idx) ==
  [depth |-> Depth(v), token_id |-> 0, parent_idx |-> parent_idx,
   accepted |-> FALSE, layer_idx |-> LayerIdx(v)]

\* The full static tree as the step the pruner scores; node v is entry v - 1.
StructStep ==
  [v \in 1..Tree.n |-> Node(v, IF ParentOf(v) >= 1 THEN ParentOf(v) - 1 ELSE -1)]

Kp == KPredMap(StructStep)
Pp == ParentPosMap(StructStep)

\* What the collector's pruner selects at step i with a histogram.
Gran == Granularity(knobs.selection)

Selected(i, h) == SelectKept(StructStep, i, knobs.L, knobs.selection, h, Kp, Pp)

PosToIndex(q) == CHOOSE v \in 1..Tree.n : <<Depth(v), LayerIdx(v)>> = q

NewIndexOf(kept) == [v \in kept |-> Cardinality({u \in kept : u < v})]

StaticParentIdx(kept, v) == ParentOf(v) - 1   \* slip: not re-indexed

KeptParentIdx(kept, v) ==
  IF ParentOf(v) >= 1 THEN NewIndexOf(kept)[ParentOf(v)] ELSE -1

\* The token the heads propose for node v.
HeadToken(table, v) == table[Depth(v) + 1][Kp[<<Depth(v), LayerIdx(v)>>] + 1]

\* record_kept, with the token ids filled in from tree_candidates.
RecordKept(kept, table) ==
  [k \in 1..Cardinality(kept) |->
     LET v == CHOOSE u \in kept : NewIndexOf(kept)[u] = k - 1
     IN  [Node(v, KeptParentIdx(kept, v)) EXCEPT !.token_id = HeadToken(table, v)]]

MarkShort(p, b, a) ==   \* slip: column 0 is taken for the first draft node
  [k \in DOMAIN p.nodes |->
     [p.nodes[k] EXCEPT !.accepted =
        \E j \in 1..a :
          LET v == p.edited_rows[b][j]
          IN  v \in DOMAIN p.new_index_of /\ p.new_index_of[v] = k - 1]]

\* mark_accepted: column 0 is the root, -1 is padding.
MarkAccepted(p, b, a) ==
  [k \in DOMAIN p.nodes |->
     [p.nodes[k] EXCEPT !.accepted =
        \E j \in 2..(a + 1) :
          /\ j <= Len(p.edited_rows[b])
          /\ LET v == p.edited_rows[b][j]
             IN  v \in DOMAIN p.new_index_of /\ p.new_index_of[v] = k - 1]]

-----------------------------------------------------------------------------
(* The external loop's own computations (MEDUSA's utils).                  *)

Token(v) == IF v = 0 THEN root ELSE HeadToken(heads, v)

\* tree_candidates has a 0 appended, which a negative index selects.
CandidateToken(v) == IF v = Pad THEN PadToken ELSE Token(v)

\* The target's choice at a node, over the cache and the node's path.  A
\* negative index reads the logits of the last node of the tree.
TargetAt(v) ==
  LET path == Tree.path[IF v = Pad THEN Tree.n ELSE v]
  IN  Argmax(kv \o [i \in 1..Len(path) |-> Token(path[i])])

Accepts(r, k) ==
  /\ k < Len(buffer[r])
  /\ \A j \in 1..k : CandidateToken(buffer[r][j + 1]) = TargetAt(buffer[r][j])

Posterior(b, a) ==
  /\ Accepts(b, a)
  /\ \A r \in 1..Len(buffer) : ~Accepts(r, a + 1)
  /\ \A r \in 1..(b - 1) : ~Accepts(r, a)

\* The cache entry update_inference_inputs moves into place for a position:
\* a negative index is the slot before the tree, the last one committed.
CacheEntry(v) == IF v = Pad THEN kv[Len(kv)] ELSE Token(v)

-----------------------------------------------------------------------------
Init ==
  /\ pc = "attach" /\ layers = 0 /\ saved = Nil /\ buffer = Tree.rows
  /\ knobs \in Knobs
  /\ ready = FALSE /\ pristine = <<>> /\ hist = EmptyHist /\ t = 0
  /\ pending = Nil /\ steps = <<>> /\ pid = 1
  /\ ids = <<>> /\ kv = <<>> /\ root = Nil /\ heads = Nil /\ idx = 0
  /\ best = 1 /\ accept = 0 /\ last = <<>>
  /\ failed = FALSE /\ prompt_outputs = <<>> /\ trace = Nil

\* One Collector is attached around all prompts.
Attach ==
  /\ pc = "attach"
  /\ saved' = layers /\ layers' = layers + 1
  /\ pc' = IF Prompts = <<>> THEN "detach" ELSE "prompt"
  /\ UNCHANGED <<buffer, static, hist, t, pending, steps, pid, loop, failed, result>>

HistPerPrompt == hist' = EmptyHist   \* slip: the histogram restarts per prompt

HistPersists == hist' = hist

\* set_prompt, then medusa_generate's prefill.
Generate ==
  /\ pc = "prompt"
  /\ pending' = Nil /\ HistPersists
  /\ ids' = Prompts[pid] /\ kv' = Prompts[pid] /\ root' = Argmax(Prompts[pid])
  /\ idx' = 0 /\ last' = <<>>
  /\ pc' = IF MaxSteps > 0 THEN "candidates" ELSE "output"
  /\ UNCHANGED <<layers, saved, buffer, static, t, steps, pid, heads, best,
                 accept, failed, result>>

\* _ensure_static: the first call takes the snapshot of the buffer.
PristineRows == IF ready THEN pristine ELSE buffer

EditedTwice(kept) ==   \* slip: the gate is applied to what the last gate left
  InvalidatePaths(buffer, kept)

ZeroPadded(kept) ==   \* slip: cut rows are padded with the root's index
  [r \in DOMAIN PristineRows |->
     [j \in DOMAIN PristineRows[r] |->
        LET v == InvalidatePaths(PristineRows, kept)[r][j]
        IN  IF v = Pad THEN 0 ELSE v]]

EditedRows(kept) == InvalidatePaths(PristineRows, kept)

\* The wrapped generate_candidates: select, write the gate into the shared
\* buffer, then let the heads fill the tree.
Candidates ==
  /\ pc = "candidates"
  /\ ready' = TRUE /\ pristine' = PristineRows
  /\ \E kept \in {{PosToIndex(q) : q \in Selected(t, hist)}} :
       /\ Closed(PristineRows, kept)
       /\ buffer' = EditedRows(kept)
       /\ \E table \in HeadTables :
            /\ heads' = table
            /\ pending' = [nodes |-> RecordKept(kept, table),
                           edited_rows |-> EditedRows(kept),
                           new_index_of |-> NewIndexOf(kept),
                           context_length |-> 0, sample_token_id |-> root]
  /\ pc' = "decode"
  /\ UNCHANGED <<layers, saved, knobs, hist, t, steps, pid, ids, kv, root, idx,
                 best, accept, last, failed, result>>

ContextLength == Len(ids)

\* The wrapped tree_decoding only notes the context's length.
TreeDecoding ==
  /\ pc = "decode"
  /\ pending' = IF pending = Nil THEN Nil
                ELSE [pending EXCEPT !.context_length = ContextLength]
  /\ pc' = "evaluate"
  /\ UNCHANGED <<layers, saved, buffer, static, hist, t, steps, pid, loop, failed,
                 result>>

\* slip: the ranks are taken from the gated tree, where siblings are missing.
FoldGated(nodes) ==
  Update(hist, nodes, KPredMap(nodes), ParentPosMap(nodes), Gran)

Fold(nodes) == Update(hist, nodes, Kp, Pp, Gran)

\* The wrapped evaluate_posterior: record the step, then learn from it.
Evaluate ==
  /\ pc = "evaluate"
  /\ \E b \in 1..Len(buffer), a \in 0..Tree.n :
       /\ Posterior(b, a)
       /\ best' = b /\ accept' = a
       /\ IF pending = Nil THEN UNCHANGED <<steps, hist, t, pending>>
          ELSE LET nodes == MarkAccepted(pending, b, a)
               IN  /\ steps' = Append(steps,
                         [step_id |-> t, prompt_id |-> pid - 1,
                          context_length |-> pending.context_length, nodes |-> nodes,
                          accepted_length |-> a,
                          sample_token_id |-> pending.sample_token_id])
                   /\ hist' = Fold(nodes)
                   /\ t' = t + 1 /\ pending' = Nil
  /\ pc' = "update"
  /\ UNCHANGED <<layers, saved, buffer, static, pid, ids, kv, root, heads, idx,
                 last, failed, result>>

Committed == accept + 1

\* update_inference_inputs, the yield, and the loop's test.
UpdateInputs ==
  /\ pc = "update"
  /\ ids' = ids \o [j \in 1..Committed |-> CandidateToken(buffer[best][j])]
  /\ kv' = kv \o [j \in 1..Committed |-> CacheEntry(buffer[best][j])]
  /\ root' = TargetAt(buffer[best][Committed])
  /\ last' = SubSeq(ids', Len(Prompts[pid]) + 1, Len(ids'))
  /\ idx' = idx + 1
  /\ pc' = IF idx + 1 >= MaxSteps \/ \E i \in DOMAIN last' : last'[i] = Eos
           THEN "output" ELSE "candidates"
  /\ UNCHANGED <<layers, saved, buffer, static, hist, t, pending, steps, pid,
                 heads, best, accept, failed, result>>

\* The generator is drained: what it yielded last is the prompt's output.
Output ==
  /\ pc = "output"
  /\ prompt_outputs' = Append(prompt_outputs, last)
  /\ ids' = <<>> /\ last' = <<>> /\ pid' = pid + 1
  /\ pc' = IF pid < Len(Prompts) THEN "prompt" ELSE "detach"
  /\ UNCHANGED <<layers, saved, buffer, static, hist, t, pending, steps, kv, root,
                 heads, idx, best, accept, failed, trace>>

\* Any call inside collect's `try` may raise.
Raise ==
  /\ pc \in {"prompt", "candidates", "decode", "evaluate", "update", "output"}
  /\ failed' = TRUE /\ pc' = "detach"
  /\ UNCHANGED <<layers, saved, buffer, static, hist, t, pending, steps, pid, loop,
                 result>>

BufferLeft == buffer   \* slip: only the functions are restored

Restored == IF ready THEN pristine ELSE buffer

\* The `finally`: put back the functions and the static buffer.
Detach ==
  /\ pc = "detach"
  /\ layers' = saved /\ saved' = Nil /\ buffer' = Restored
  /\ pc' = IF failed THEN "aborted" ELSE "finish"
  /\ UNCHANGED <<static, hist, t, pending, steps, pid, loop, failed, result>>

Return ==
  /\ pc = "finish"
  /\ trace' = [steps |-> steps, prompt_outputs |-> prompt_outputs,
               gated |-> knobs.selection # "full"]
  /\ pc' = "returned"
  /\ UNCHANGED <<layers, saved, buffer, static, hist, t, pending, steps, pid, loop,
                 failed, prompt_outputs>>

Over == pc \in {"returned", "aborted"}

Terminated == Over /\ UNCHANGED vars

Next ==
  \/ Attach \/ Generate \/ Candidates \/ TreeDecoding \/ Evaluate \/ UpdateInputs
  \/ Output \/ Raise \/ Detach \/ Return \/ Terminated

Spec == Init /\ [][Next]_vars

\* One thread runs the collection and every call returns or raises.
FairSpec == Spec /\ WF_vars(Next)

-----------------------------------------------------------------------------
\* The continuation of the current prompt.
Generated ==
  IF ids = <<>> THEN <<>> ELSE SubSeq(ids, Len(Prompts[pid]) + 1, Len(ids))

Text == INSTANCE Greedy WITH gen <- Generated, delivered <- prompt_outputs

\* Whatever the heads draft and whatever the histogram prunes, the run
\* implements plain greedy decoding of each prompt: the KV-cache and the text
\* advance by the same, gated prefix (collector.py: "the in-loop gate is
\* exact-in-practice").
RefinesGreedy == Text!Spec

\* gating.py:31, of the pad slot a negative index selects: "if it ever matched,
\* the accepted token would be what greedy emits anyway".  Here: every token an
\* iteration accepts is greedy after the text before it, given a faithful cache.
PadMatchIsGreedy ==
  pc = "update" /\ kv = ids =>
    \A j \in 1..accept :
      CandidateToken(buffer[best][j + 1]) =
        Argmax(ids \o [i \in 1..j |-> CandidateToken(buffer[best][i])])

\* What a histogram of these steps must say of a key: how often a node with
\* the key was verified after an accepted parent, and how often it matched.
\* Positions, not the recorded parent_idx, tell who a node's parent is.
Tally(ss, key) ==
  LET Reached(nodes) ==
        {k \in DOMAIN nodes :
           LET q == Pos(nodes[k])
           IN  /\ Key(Gran, q, Kp) = key
               /\ q[1] > 0 => \E j \in DOMAIN nodes :
                    nodes[j].accepted /\ Pos(nodes[j]) = Pp[q]}
      reached == UNION {{<<i, k>> : k \in Reached(ss[i].nodes)} : i \in DOMAIN ss}
  IN  [acc |-> Cardinality({p \in reached : ss[p[1]].nodes[p[2]].accepted}),
       reach |-> Cardinality(reached)]

HistOf(ss) ==
  LET keys == {Key(Gran, q, Kp) : q \in Positions(StructStep)}
  IN  [key \in {k \in keys : Tally(ss, k).reach > 0} |-> Tally(ss, key)]

\* The histogram is the recount of every step recorded so far, over all
\* prompts: nothing is folded in twice, dropped, or filed under a rank that a
\* pruned sibling shifted.
HistIsRecount == hist = HistOf(steps)

\* Causality: what step i verified is what the pruner selects from the steps
\* before it alone; only the very first step is the full tree.
CausalSelection ==
  \A i \in 1..Len(steps) :
    /\ steps[i].step_id = i - 1
    /\ Positions(steps[i].nodes) =
         Selected(i - 1, HistOf(SubSeq(steps, 1, i - 1)))

\* The selection is always closed under ancestors, whatever the histogram has
\* learnt, so invalidate_paths (gating.py:37-42) never refuses it: only a
\* failure elsewhere ends a collection early.
SelectionIsClosed ==
  pc = "candidates" =>
    Closed(PristineRows, {PosToIndex(q) : q \in Selected(t, hist)})

\* The shared buffer is the gate of a step: it leads to exactly the step's
\* nodes, and these are linked as in the static tree.
Gates(nodes) ==
  /\ pristine = Tree.rows
  /\ NodesOf(buffer) = {PosToIndex(q) : q \in Positions(nodes)}
  /\ \A k \in DOMAIN nodes :
       IF nodes[k].depth = 0 THEN nodes[k].parent_idx = -1
       ELSE Pos(nodes[nodes[k].parent_idx + 1]) = Pp[Pos(nodes[k])]

\* From selection to commit, every reader of the shared buffer sees exactly the
\* recorded tree, pending first and then the last step, and a node pruned in
\* one step is back for the next.
BufferIsGate ==
  /\ pc \in {"decode", "evaluate"} => Gates(pending.nodes)
  /\ pc = "update" => Gates(steps[Len(steps)].nodes)

\* Nothing of a collection stays in the model: the functions are unwrapped and
\* the static buffer is the one it started with, also after an exception.
NothingLeftBehind == Over => layers = 0 /\ buffer = Tree.rows

\* Step s tells the truth about the text: its flagged nodes are one chain, as
\* long as accepted_length, and spell what follows the context and the root.
SpellsAccepts(s, text) ==
  LET flagged == {k \in DOMAIN s.nodes : s.nodes[k].accepted}
  IN  /\ s.sample_token_id = text[s.context_length + 1]
      /\ Cardinality(flagged) = s.accepted_length
      /\ \A k \in flagged :
           /\ s.nodes[k].token_id = text[s.context_length + s.nodes[k].depth + 2]
           /\ s.nodes[k].depth > 0 =>
                s.nodes[s.nodes[k].parent_idx + 1].accepted

\* The recorded steps of prompt p: those behind the ones of earlier prompts.
StepsBefore(p) == Cardinality({i \in 1..Len(steps) : steps[i].prompt_id < p - 1})

StepsOf(p) == SubSeq(steps, StepsBefore(p) + 1, StepsBefore(p + 1))

EndOf(s) == s.context_length + s.accepted_length + 1

\* The steps of a finished prompt tile its output: the first starts at the
\* prompt, each next one where the accepts of the previous end, and the flags
\* agree with the tokens.  (The histogram's step index runs on regardless.)
\* The context a step will record is the KV-cache it is verified over
\* (schema.py:61), although a third hook notes it between the two others.
StepsTileOutput ==
  /\ pc = "evaluate" => pending.context_length = Len(kv)
  /\ \A p \in 1..Len(prompt_outputs) :
       LET ss == StepsOf(p)
           text == Prompts[p] \o prompt_outputs[p]
       IN  /\ \A i \in 1..Len(ss) :
                /\ ss[i].prompt_id = p - 1
                /\ ss[i].context_length = IF i = 1 THEN Len(Prompts[p]) ELSE EndOf(ss[i - 1])
                /\ SpellsAccepts(ss[i], text)
           /\ Len(text) = IF ss = <<>> THEN Len(Prompts[p]) ELSE EndOf(ss[Len(ss)])

\* dtp.py:34: "the DTP never prunes a branch it has not yet observed".
NeverPrunesUnobserved ==
  pc = "decode" =>
    \A q \in Positions(StructStep) :
      Count(hist, Key(Gran, q, Kp)).reach = 0 =>
        q \in Positions(pending.nodes)
=============================================================================
