--------------------------- MODULE EagleCollector ---------------------------
(***************************************************************************)
(* Collection of an EAGLE-2 trace: capim_ctrl/collector.py `collect`, its  *)
(* per-prompt `Collector`, and the external decoding loop (`eagenerate`)   *)
(* whose two hooks the Collector wraps.  One thread; the interleaving is   *)
(* the order in which the external loop calls the wrapped hooks, the       *)
(* moment at which a call raises, and what each call leaves behind for the *)
(* next prompt.                                                            *)
(*                                                                         *)
(* A drafted tree is a record of EagleDraft.                               *)
(***************************************************************************)
EXTENDS EagleDraft

CONSTANTS
  Eos,            \* the end-of-sequence token
  Prompts,        \* the prompts, tokenized
  Argmax(_),      \* the target's greedy next token after a context
  Drafts,         \* the trees topK_genrate may return
  Thresholds,     \* the --sigma values a collection may be run with
  NegInf,         \* float("-inf"): record every node, invalidate nothing
  MaxNewTokens,   \* eagenerate's max_new_tokens
  Nil             \* Python's None

ASSUME CollectorAssumption ==
  /\ Vocab \subseteq Nat /\ Eos \in Nat
  /\ Prompts \in Seq(Seq(Vocab)) /\ Prompts # <<>>
  /\ \A d \in Drafts : WellFormedDraft(d)
  /\ Thresholds \subseteq Int \cup {NegInf} /\ NegInf \notin Int
  /\ MaxNewTokens \in Nat

\* The target's head has one logit per token id, so its argmax is a token id
\* (TLC cannot enumerate the contexts; the proofs take this as a hypothesis).
TargetTotal == \A s \in Seq(Vocab) : Argmax(s) \in Vocab

VARIABLES
  pc,             \* where the run is: see Next
  sigma_th,       \* the collection's threshold
  pid,            \* the prompt being collected, from 1
  hooks,          \* ea_layer.topK_genrate, and the recording layers around
                  \* ea_model.evaluate_posterior
  saved,          \* the Collector's restore handles
  ids, root, kv,  \* eagenerate: input_ids, the sampled root, KV-cache length
  new_token,      \* eagenerate's count of generated tokens
  draft, retrieve,\* the current tree; retrieve_indices as eagenerate sees them
  best, accept,   \* what evaluate_posterior returned
  pending, steps, \* Collector._pending, Collector._steps
  step_id,        \* Collector._step_id
  failed,         \* an exception is propagating through `collect`
  all_steps, prompt_outputs,  \* collect's accumulators
  trace           \* the returned Trace

loop == <<ids, root, kv, new_token, draft, retrieve, best, accept>>
recorder == <<pending, steps, step_id>>
result == <<all_steps, prompt_outputs, trace>>
vars == <<pc, sigma_th, pid, hooks, saved, loop, recorder, failed, result>>

-----------------------------------------------------------------------------
(* record_gated_step and mark_accepted, the pure recording core.  The      *)
(* operators marked "slip" are plausible bugs of the definition they       *)
(* precede; only mutation runs use them.                                   *)

Parent(d, v) == d.path[v][Len(d.path[v]) - 1]

DepthTwiceShifted(d, v) == Len(d.path[v]) - 3   \* slip

Depth(d, v) == Len(d.path[v]) - 2   \* 0 for a child of the root

KeptDraft(d, sigma) ==
  {v \in 1..d.n : sigma = NegInf \/ d.cum[v] >= sigma}

ZeroPaddedRows(d, sigma) ==   \* slip: pruned positions are set to 0, not -1
  LET cut == InvalidatePaths(d.rows, KeptDraft(d, sigma))
  IN  [r \in 1..Len(cut) |->
         [j \in 1..Len(cut[r]) |-> IF cut[r][j] = Pad THEN 0 ELSE cut[r][j]]]

EditedRows(d, sigma) ==
  IF sigma = NegInf THEN d.rows
  ELSE InvalidatePaths(d.rows, KeptDraft(d, sigma))

\* {draft index -> position in `nodes`}, counted from 0 as in the code.
NewIndexOf(kept) == [v \in kept |-> Cardinality({u \in kept : u < v})]

DraftParentIdx(kept, p) == p - 1   \* slip: not re-indexed into the kept list

ParentIdx(kept, p) == IF p = 0 THEN -1 ELSE NewIndexOf(kept)[p]

\* The kept node at position k of the list (from 1).
NodeAt(kept, k) == CHOOSE v \in kept : NewIndexOf(kept)[v] = k - 1

\* Earlier kept nodes of the same depth.
LayerIdx(d, kept, v) ==
  Cardinality({u \in kept : u < v /\ Depth(d, u) = Depth(d, v)})

\* The TokenNode list of the kept sub-tree, in ascending draft order.
RecordedNodes(d, kept) ==
  [k \in 1..Cardinality(kept) |->
     LET v == NodeAt(kept, k)
         p == Parent(d, v)
     IN  [depth |-> Depth(d, v), token_id |-> d.token[v],
          log_prob |-> d.cum[v] - (IF p = 0 THEN 0 ELSE d.cum[p]),
          cumulative_log_prob |-> d.cum[v],
          parent_idx |-> ParentIdx(kept, p),
          accepted |-> FALSE, layer_idx |-> LayerIdx(d, kept, v)]]

AcceptedShort(a) == 2..a   \* slip: range(1, accept_length)

AcceptedPositions(a) == 2..(a + 1)   \* column 0 is the root

\* Flags the nodes on the winning path's accepted positions.
MarkAccepted(p, b, a) ==
  [k \in DOMAIN p.nodes |->
     [p.nodes[k] EXCEPT !.accepted =
        \E j \in AcceptedPositions(a) :
          LET idx == p.edited_rows[b][j]
          IN  idx \in DOMAIN p.new_index_of /\ p.new_index_of[idx] = k - 1]]

-----------------------------------------------------------------------------
(* The external loop's own computations (EAGLE's eagenerate and            *)
(* evaluate_posterior).                                                    *)

DraftToken(v) == IF v = 0 THEN root ELSE draft.token[v]

\* draft_tokens has a -1 appended, which a negative index selects.
CandidateToken(v) == IF v = Pad THEN Pad ELSE DraftToken(v)

\* Tree attention: the target's choice after the tokens on v's path.  A
\* negative index reads the logits of the last node.
TargetAt(v) ==
  LET path == draft.path[IF v = Pad THEN draft.n ELSE v]
  IN  Argmax(ids \o [i \in 1..Len(path) |-> DraftToken(path[i])])

\* The first k drafted positions of row r match the target.
Accepts(r, k) ==
  /\ k < Len(retrieve[r])
  /\ \A j \in 1..k :
       CandidateToken(retrieve[r][j + 1]) = TargetAt(retrieve[r][j])

\* The longest match over the rows, and the first row that reaches it.
Posterior(b, a) ==
  /\ Accepts(b, a)
  /\ \A r \in 1..Len(retrieve) : ~Accepts(r, a + 1)
  /\ \A r \in 1..(b - 1) : ~Accepts(r, a)

Stop ==
  \/ \E i \in (Len(Prompts[pid]) + 1)..Len(ids) : ids[i] = Eos
  \/ new_token > MaxNewTokens

-----------------------------------------------------------------------------
Init ==
  /\ pc = "attach" /\ sigma_th \in Thresholds /\ pid = 1
  /\ hooks = [topk |-> "upstream", layers |-> 0] /\ saved = Nil
  /\ ids = <<>> /\ root = Nil /\ kv = 0 /\ new_token = 0
  /\ draft = Nil /\ retrieve = <<>> /\ best = 1 /\ accept = 0
  /\ pending = Nil /\ steps = <<>> /\ step_id = 0
  /\ failed = FALSE
  /\ all_steps = <<>> /\ prompt_outputs = <<>> /\ trace = Nil

SharedRecorder == UNCHANGED recorder   \* slip: one Collector for all prompts

FreshRecorder == pending' = Nil /\ steps' = <<>> /\ step_id' = 0

\* A fresh Collector installs the vendored topK_genrate, keeps handles of it
\* and of the current evaluate_posterior, and wraps both.
Attach ==
  /\ pc = "attach"
  /\ FreshRecorder
  /\ saved' = [topk |-> "vendored", layers |-> hooks.layers]
  /\ hooks' = [topk |-> "gated", layers |-> hooks.layers + 1]
  /\ pc' = "generate"
  /\ UNCHANGED <<sigma_th, pid, loop, failed, result>>

\* Tokenize, enter eagenerate: prefill the KV-cache with the prompt and sample
\* the root of the first tree.
Generate ==
  /\ pc = "generate"
  /\ ids' = Prompts[pid] /\ kv' = Len(Prompts[pid]) /\ new_token' = 0
  /\ root' = Argmax(Prompts[pid])
  /\ pc' = "draft"
  /\ UNCHANGED <<sigma_th, pid, hooks, saved, draft, retrieve, best, accept,
                 recorder, failed, result>>

ContextOfCaller == Len(ids)   \* slip: the root of the tree is not counted

\* topK_genrate is called with the sampled root appended to input_ids.
ContextLength == Len(ids) + 1

\* The wrapped topK_genrate: draft a tree, record what the gate keeps, hand
\* the edited rows to the loop.  The loop then tests its stop conditions.
DraftTree ==
  /\ pc = "draft"
  /\ \E d \in Drafts :
       LET kept == KeptDraft(d, sigma_th)
           edited == EditedRows(d, sigma_th)
       IN  /\ sigma_th # NegInf => Closed(d.rows, kept)
           /\ draft' = d /\ retrieve' = edited
           /\ pending' = [nodes |-> RecordedNodes(d, kept),
                          edited_rows |-> edited,
                          new_index_of |-> NewIndexOf(kept),
                          context_length |-> ContextLength,
                          sample_token_id |-> root]
  /\ pc' = IF Stop THEN "detach" ELSE "verify"
  /\ UNCHANGED <<sigma_th, pid, hooks, saved, ids, root, kv, new_token, best,
                 accept, steps, step_id, failed, result>>

\* The wrapped evaluate_posterior: the unchanged verdict, recorded on the
\* pending tree as one DecodeStep.
Verify ==
  /\ pc = "verify"
  /\ \E b \in 1..Len(retrieve), a \in 0..draft.n :
       /\ Posterior(b, a)
       /\ best' = b /\ accept' = a
       /\ IF pending = Nil THEN UNCHANGED recorder
          ELSE /\ steps' = Append(steps,
                    [step_id |-> step_id, prompt_id |-> pid - 1,
                     context_length |-> pending.context_length,
                     nodes |-> MarkAccepted(pending, b, a),
                     accepted_length |-> a,
                     sample_token_id |-> pending.sample_token_id])
               /\ step_id' = step_id + 1 /\ pending' = Nil
  /\ pc' = "update"
  /\ UNCHANGED <<sigma_th, pid, hooks, saved, ids, root, kv, new_token, draft,
                 retrieve, failed, result>>

CommitAccepts == accept   \* slip: the root is not committed with the accepts

\* The root and the accepted tokens are committed together.
Committed == accept + 1

\* update_inference_inputs: commit, advance the KV-cache, sample the next root.
UpdateInputs ==
  /\ pc = "update"
  /\ ids' = ids \o [j \in 1..Committed |-> CandidateToken(retrieve[best][j])]
  /\ kv' = kv + Committed /\ new_token' = new_token + Committed
  /\ root' = TargetAt(retrieve[best][accept + 1])
  /\ pc' = "draft"
  /\ UNCHANGED <<sigma_th, pid, hooks, saved, draft, retrieve, best, accept,
                 recorder, failed, result>>

\* Any call inside collect's `try` may raise: the tokenizer, the model (out of
\* memory), the wrapper's assertion, invalidate_paths.
Raise ==
  /\ pc \in {"generate", "draft", "verify", "update"}
  /\ failed' = TRUE /\ pc' = "detach"
  /\ UNCHANGED <<sigma_th, pid, hooks, saved, loop, recorder, result>>

RestoreTopkOnly == [hooks EXCEPT !.topk = saved.topk]   \* slip

\* Collector.detach puts back what attach saved.
Restored == saved

RetryPrompt ==   \* slip: the `finally` swallows the exception, the prompt is retried
  IF failed \/ pid < Len(Prompts) THEN "attach" ELSE "finish"

IgnoreFailure ==   \* slip: the exception is swallowed and the loop goes on
  IF pid < Len(Prompts) THEN "attach" ELSE "finish"

AfterDetach ==
  IF failed THEN "aborted"
  ELSE IF pid < Len(Prompts) THEN "attach" ELSE "finish"

LastPromptOnly == steps   \* slip: assigned where the list is extended

Accumulated == all_steps \o steps

\* The `finally` detaches on every path; only a normal return goes on to
\* accumulate the prompt's steps and output.
Detach ==
  /\ pc = "detach"
  /\ hooks' = Restored /\ saved' = Nil
  /\ IF failed THEN UNCHANGED <<pid, ids, prompt_outputs, all_steps>>
     ELSE /\ prompt_outputs' = Append(prompt_outputs,
               SubSeq(ids, Len(Prompts[pid]) + 1, Len(ids)))
          /\ all_steps' = Accumulated
          /\ ids' = <<>> /\ pid' = pid + 1
  /\ pc' = AfterDetach
  /\ UNCHANGED <<sigma_th, root, kv, new_token, draft, retrieve, best, accept,
                 recorder, failed, trace>>

Return ==
  /\ pc = "finish"
  /\ trace' = [steps |-> all_steps, prompt_outputs |-> prompt_outputs,
               gated |-> sigma_th # NegInf]
  /\ pc' = "returned"
  /\ UNCHANGED <<sigma_th, pid, hooks, saved, loop, recorder, failed,
                 all_steps, prompt_outputs>>

Over == pc \in {"returned", "aborted"}

Terminated == Over /\ UNCHANGED vars

Next ==
  \/ Attach \/ Generate \/ DraftTree \/ Verify \/ UpdateInputs
  \/ Raise \/ Detach \/ Return \/ Terminated

Spec == Init /\ [][Next]_vars

\* One thread runs the collection and every call returns or raises.
FairSpec == Spec /\ WF_vars(Next)

-----------------------------------------------------------------------------
TokenNode ==
  [depth : Nat, token_id : Vocab, log_prob : Int, cumulative_log_prob : Int,
   parent_idx : Nat \cup {-1}, accepted : BOOLEAN, layer_idx : Nat]

DecodeStep ==
  [step_id : Nat, prompt_id : Nat, context_length : Nat, nodes : Seq(TokenNode),
   accepted_length : Nat, sample_token_id : Vocab]

\* Type correctness of the collection's state.
TypeOK ==
  /\ pc \in {"attach", "generate", "draft", "verify", "update", "detach",
             "finish", "returned", "aborted"}
  /\ sigma_th \in Thresholds /\ pid \in 1..(Len(Prompts) + 1)
  /\ hooks.topk \in {"upstream", "vendored", "gated"} /\ hooks.layers \in Nat
  /\ ids \in Seq(Vocab) /\ root \in Vocab \cup {Nil}
  /\ kv \in Nat /\ new_token \in Nat
  /\ draft \in Drafts \cup {Nil} /\ best \in Nat /\ accept \in Nat
  /\ steps \in Seq(DecodeStep) /\ all_steps \in Seq(DecodeStep)
  /\ step_id \in Nat /\ failed \in BOOLEAN
  /\ prompt_outputs \in Seq(Seq(Vocab))

\* The continuation of the current prompt.
Generated ==
  IF pid > Len(Prompts) THEN <<>>
  ELSE SubSeq(ids, Len(Prompts[pid]) + 1, Len(ids))

Text == INSTANCE Greedy WITH gen <- Generated, delivered <- prompt_outputs

\* Whatever trees are drafted and whatever the gate cuts, the run implements
\* plain greedy decoding of each prompt (collect: "the in-loop gate is
\* provably exact there").
RefinesGreedy == Text!Spec

\* The tokens committed once step s is done: its context and its accepts.
EndOf(s) == s.context_length + s.accepted_length

\* The steps ss of one prompt tile the positions from + 1 .. to of its text.
Tiles(ss, from, to) ==
  /\ \A i \in 1..Len(ss) :
       /\ ss[i].step_id = i - 1
       /\ ss[i].context_length = 1 + (IF i = 1 THEN from ELSE EndOf(ss[i - 1]))
  /\ to = IF ss = <<>> THEN from ELSE EndOf(ss[Len(ss)])

\* How many accumulated steps belong to the prompts before p.
StepsBefore(p) ==
  Cardinality({i \in 1..Len(all_steps) : all_steps[i].prompt_id < p - 1})

\* Where the steps of prompt p lie in the trace.
StepsOf(p) == SubSeq(all_steps, StepsBefore(p) + 1, StepsBefore(p + 1))

\* The contexts recorded at the start of the steps are the lengths the text
\* really had: each step starts where the accepts of the previous one end, the
\* first at the prompt, the last ends the text.  The replay drivers charge
\* attention by these lengths.
StepsTileText ==
  pc \in {"draft", "verify"} => Tiles(steps, Len(Prompts[pid]), Len(ids))

\* The same of the accumulated steps and the delivered outputs: the trace lists
\* the finished prompts in order, and no step of one is lost, duplicated or
\* credited to another prompt.
TraceTilesOutput ==
  \A p \in 1..Len(prompt_outputs) :
    /\ \A i \in 1..Len(StepsOf(p)) : StepsOf(p)[i].prompt_id = p - 1
    /\ Tiles(StepsOf(p), Len(Prompts[p]), Len(Prompts[p]) + Len(prompt_outputs[p]))

\* Step s tells the truth about the text: its root and its flagged nodes are
\* one chain from the root, as long as accepted_length says, and spell the
\* tokens that follow the context.
SpellsAccepts(s, text) ==
  LET flagged == {k \in DOMAIN s.nodes : s.nodes[k].accepted}
  IN  /\ s.sample_token_id = text[s.context_length]
      /\ Cardinality(flagged) = s.accepted_length
      /\ \A k \in flagged :
           LET node == s.nodes[k]
           IN  /\ node.token_id = text[s.context_length + node.depth + 1]
               /\ IF node.depth = 0 THEN node.parent_idx = -1
                  ELSE /\ node.parent_idx + 1 \in flagged
                       /\ s.nodes[node.parent_idx + 1].depth = node.depth - 1

\* Every recorded step's accepted flags agree with the text it led to.
AcceptsSpellOutput ==
  /\ pc \in {"draft", "verify"} =>
       \A i \in 1..Len(steps) : SpellsAccepts(steps[i], ids)
  /\ \A p \in 1..Len(prompt_outputs) : \A i \in 1..Len(StepsOf(p)) :
       SpellsAccepts(StepsOf(p)[i], Prompts[p] \o prompt_outputs[p])

\* The recorded tree is exactly what the verifier could still accept: a node
\* is recorded iff some edited row reaches it, its score clears the gate, and
\* parents precede their children with a score at least as high.
RecordedIffVerifiable ==
  pending # Nil =>
    /\ DOMAIN pending.new_index_of = NodesOf(pending.edited_rows)
    /\ pending.edited_rows = retrieve
    /\ \A k \in DOMAIN pending.nodes :
         LET node == pending.nodes[k]
         IN  /\ sigma_th # NegInf => node.cumulative_log_prob >= sigma_th
             /\ node.log_prob <= 0
             /\ node.parent_idx + 1 < k
             /\ node.parent_idx = -1 <=> node.depth = 0
             /\ node.parent_idx # -1 =>
                  pending.nodes[node.parent_idx + 1].depth = node.depth - 1

\* A tree is verified against the text it was drafted for, by the Collector
\* of its own prompt: the tree left pending by the last draft of a prompt is
\* never flushed into the next prompt's steps.
PendingIsCurrent ==
  pc = "verify" =>
    /\ pending # Nil /\ pending.context_length = Len(ids) + 1
    /\ pending.sample_token_id = root /\ step_id = Len(steps)
    /\ \A i \in 1..Len(steps) : steps[i].prompt_id = pid - 1

\* Exactly one recording layer is around the verifier while a prompt is
\* generated and none between prompts, on the failing paths too; the vendored
\* topK_genrate stays installed below it.
WrappedOnce ==
  IF pc \in {"attach", "finish", "returned", "aborted"}
  THEN hooks.layers = 0 /\ hooks.topk # "gated"
  ELSE hooks = [topk |-> "gated", layers |-> 1]

\* Each verified step commits at least its root, so a prompt takes at most
\* MaxNewTokens + 1 steps, even when the gate prunes every tree to nothing.
BoundedSteps == Len(steps) <= MaxNewTokens + 1

\* A trace is returned only when every prompt was collected without an error.
TraceComplete ==
  trace # Nil => ~failed /\ Len(trace.prompt_outputs) = Len(Prompts)

\* The collection ends, with a trace or with the exception.
Termination == <>Over

\* schema.py:63: "tokens the target accepted (>= 1: the bonus token)".
AcceptedAtLeastOne ==
  \A i \in 1..Len(steps) : steps[i].accepted_length >= 1

\* schema.py:61: "context_length: tokens in the KV-cache at step start".
ContextIsKvLength ==
  pc = "verify" => pending.context_length = kv
=============================================================================
