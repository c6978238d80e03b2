------------------------------ MODULE CostPlane ------------------------------
(***************************************************************************)
(* The cost plane, common/model.py, common/devices/ and common/system.py:  *)
(* typed layers, the device each is routed to, and the two composers that  *)
(* turn them into a step's latency and energy, one layer per action.       *)
(*                                                                         *)
(* The cost of one operator, a float, is an opaque charge that names the   *)
(* operator and where it ran; a time or an energy is the bag of the        *)
(* charges added into it.  Two equal bags are equal whatever the devices'  *)
(* rates.  Charges: a kernel on a device; a kernel split over both; the    *)
(* gather of PIM's slice after a split; a transfer of some bytes.          *)
(***************************************************************************)
EXTENDS CapimDriver, Bags, SequencesExt

CONSTANT Jobs   \* the drive() steps costed, see Passes

Devices == {"NPU", "PIM"}
NONLINEAR == {"SOFTMAX", "ACT", "NORM"}
LayerTypes == {"FC", "MATMUL"} \cup NONLINEAR

Positive == Nat \ {0}

\* A model's attention heads share its width.
IsModel(model) ==
  /\ model.n_layers \in Positive /\ model.d_model \in Positive
  /\ model.n_heads \in 1..model.d_model /\ model.intermediate_size \in Positive
  /\ model.vocab_size \in Positive /\ model.bytes_per_param \in Positive

\* A job is a step of a trace with what its driver needs to know, or all the
\* steps of a trace, for the prefill.
IsJob(j) ==
  /\ IsModel(j.model) /\ j.driver \in {"ar", "capim", "lp_spec", "prefill"}
  /\ j.driver # "prefill" =>
       j.step.context_length \in Positive /\ j.step.accepted_length \in Nat
  /\ j.driver = "capim" =>
       /\ IsFiniteSet(DOMAIN j.step.nodes)
       /\ \A k \in DOMAIN j.step.nodes : j.step.nodes[k].depth \in Nat
       /\ j.cfg.all_npu \in BOOLEAN /\ j.cfg.concurrent_verify \in BOOLEAN
  /\ j.driver = "lp_spec" => j.m \in Positive /\ j.medusa_num_heads \in Positive
  /\ j.driver = "prefill" =>
       /\ IsFiniteSet(DOMAIN j.steps)
       /\ \A s \in DOMAIN j.steps : j.steps[s].context_length \in Positive

ASSUME CostAssumption == \A job \in Jobs : IsJob(job)

VARIABLES
  job, passes,     \* the step, and the passes its driver orders
  p,               \* the pass being costed
  part, i,         \* "block" or "head", and its next layer
  prev,            \* the device of the layer before, or "none"
  out,             \* the Composed being built
  lanes,           \* compose_concurrent's t_compute, t_comm and t_nl
  total,           \* cost_forward_pass's Composed
  record           \* the StepRecord so far

vars == <<job, passes, p, part, i, prev, out, lanes, total, record>>

-----------------------------------------------------------------------------
\* Layers, before a router has placed them.
Layer(name, type, m, n, k, numOp) ==
  [name |-> name, type |-> type, m |-> m, n |-> n, k |-> k, numOp |-> numOp]

head_dim(model) == model.d_model \div model.n_heads

build_decoder_layer(model, m, ctx, eagle_draft) ==
  LET d == model.d_model   h == model.n_heads
      dh == head_dim(model)   ff == model.intermediate_size
  IN  << Layer("qkv", "FC", m, 3 * d, d, 1),
         Layer("score", "MATMUL", m, ctx, dh, h),
         Layer("softmax", "SOFTMAX", m, ctx, 1, h),
         Layer("context", "MATMUL", m, dh, ctx, h),
         Layer("proj", "FC", m, d, d, 1),
         Layer("norm1", "NORM", m, d, 1, 1),
         Layer("ff1", "FC", m, ff, d, 1),
         Layer("ff2", "FC", m, ff, d, 1),
         Layer("glu", "ACT", m, ff, 1, 1),
         Layer("ff3", "FC", m, d, ff, 1) >>
      \o IF eagle_draft THEN <<>> ELSE <<Layer("norm2", "NORM", m, d, 1, 1)>>

build_lm_head(model, m) == Layer("lm_head", "FC", m, model.vocab_size, model.d_model, 1)

build_eagle_draft_step(model, width, ctx) ==
  <<Layer("fusion_fc", "FC", width, model.d_model, 2 * model.d_model, 1)>>
    \o build_decoder_layer(model, width, ctx, TRUE)
    \o <<build_lm_head(model, width),
         Layer("sample_softmax", "SOFTMAX", width, model.vocab_size, 1, 1)>>

\* The heads: a residual block, its activation and a projection each.
build_medusa_draft(model, medusa_num_heads) ==
  LET head == <<Layer("resblock", "FC", 1, model.d_model, model.d_model, 1),
                Layer("silu", "ACT", 1, model.d_model, 1, 1),
                Layer("lmhead", "FC", 1, model.vocab_size, model.d_model, 1)>>
  IN  [j \in 1..(3 * medusa_num_heads) |-> head[((j - 1) % 3) + 1]]
        \o <<Layer("medusa_softmax", "SOFTMAX", 1, model.vocab_size, 1, medusa_num_heads)>>

\* get_size's first operand, in bytes.
In1(layer, model) ==
  layer.numOp * layer.m * model.bytes_per_param
    * IF layer.type \in {"FC", "MATMUL"} THEN layer.k ELSE layer.n

\* Routers: the device of each layer type.
RouterAllNpu == [t \in LayerTypes |-> "NPU"]
RouterEagleDraft == [t \in LayerTypes |-> IF t \in {"FC", "MATMUL"} THEN "PIM" ELSE "NPU"]

RouterAttentionOnly(fc_device) ==   \* slip: the glue follows the FC device
  [t \in LayerTypes |-> IF t = "MATMUL" THEN "PIM" ELSE fc_device]

RouterCapimVerify(fc_device) ==
  [t \in LayerTypes |->
     CASE t = "FC" -> fc_device [] t = "MATMUL" -> "PIM" [] t \in NONLINEAR -> "NPU"]

Tag(layers, router) ==
  [j \in DOMAIN layers |->
     [name |-> layers[j].name, type |-> layers[j].type, m |-> layers[j].m,
      n |-> layers[j].n, k |-> layers[j].k, numOp |-> layers[j].numOp,
      device |-> router[layers[j].type]]]

-----------------------------------------------------------------------------
\* The passes: compose_* on a list, or cost_forward_pass on a block and a head.
ListPass(layers, exec_model) ==
  [forward |-> FALSE, block |-> layers, head |-> <<>>,
   exec_model |-> exec_model, split_attention |-> TRUE]

ForwardPass(block, head, exec_model, split_attention) ==
  [forward |-> TRUE, block |-> block, head |-> head,
   exec_model |-> exec_model, split_attention |-> split_attention]

Forward(model, m, ctx, head_m, router, plan) ==
  ForwardPass(Tag(build_decoder_layer(model, m, ctx, FALSE), router),
              Tag(<<build_lm_head(model, head_m)>>, router),
              plan.exec_model, plan.split_attention)

OnNpu == [exec_model |-> "SEQUENTIAL", split_attention |-> FALSE]

\* AR: one forward per token.
ArPasses(model, step) ==
  [j \in 1..(step.accepted_length + 1) |->
     Forward(model, 1, step.context_length + j - 1, 1, RouterAllNpu, OnNpu)]

InOrder(S) ==
  CHOOSE s \in [1..Cardinality(S) -> S] : \A a, b \in DOMAIN s : a < b => s[a] < s[b]

\* CAPIM: the drafted depths in order, then the verify (Drive's DraftCost and
\* Verify say which).
CapimPasses(model, step, cfg) ==
  LET gen == DraftCost(step, cfg.sigma_th, DraftOnNpu(cfg))
      depths == InOrder(DOMAIN gen)
      router == IF DraftOnNpu(cfg) THEN RouterAllNpu ELSE RouterEagleDraft
      v == Verify(step, cfg)
  IN  [j \in DOMAIN depths |->
         ListPass(Tag(build_eagle_draft_step(model, gen[depths[j]].width, gen[depths[j]].ctx),
                      router), "SEQUENTIAL")]
      \o <<Forward(model, v.m, v.ctx, v.m,
                   IF cfg.all_npu THEN RouterAllNpu ELSE RouterCapimVerify(v.plan.fc_device),
                   v.plan)>>

\* LP-Spec: the heads and the verify of m kept nodes, both split.
LpSpecPasses(model, step, m, medusa_num_heads) ==
  << ListPass(Tag(build_medusa_draft(model, medusa_num_heads), RouterAllNpu), "CONCURRENT"),
     Forward(model, m, step.context_length, m, RouterAllNpu,
             [exec_model |-> "CONCURRENT", split_attention |-> TRUE]) >>

\* prefill_means: one pass over each prompt, as long as its shortest context.
PrefillPasses(model, steps) ==
  LET prompts == SetToSeq({steps[s].prompt_id : s \in DOMAIN steps})
      len(q) == LET cs == {steps[s].context_length : s \in {s \in DOMAIN steps :
                                                     steps[s].prompt_id = q}}
                IN  CHOOSE c \in cs : \A c2 \in cs : c <= c2
  IN  [j \in DOMAIN prompts |->
         Forward(model, len(prompts[j]), len(prompts[j]), 1, RouterAllNpu, OnNpu)]

Passes(j) ==
  CASE j.driver = "ar" -> ArPasses(j.model, j.step)
    [] j.driver = "capim" -> CapimPasses(j.model, j.step, j.cfg)
    [] j.driver = "lp_spec" -> LpSpecPasses(j.model, j.step, j.m, j.medusa_num_heads)
    [] j.driver = "prefill" -> PrefillPasses(j.model, j.steps)

-----------------------------------------------------------------------------
\* Charges, with the bus side of a crossing and of a gather.
NpuCost(layer) == [on |-> "NPU", layer |-> layer]
PimCost(layer) == [on |-> "PIM", layer |-> layer]
Kernel(layer, dev) == IF dev = "PIM" THEN PimCost(layer) ELSE NpuCost(layer)
Split(layer) == [on |-> "BOTH", layer |-> layer]
Gather(layer) == [on |-> "GATHER", layer |-> layer]
Transfer(bytes) == [on |-> "BUS", bytes |-> bytes]

Zero ==
  [time_s |-> EmptyBag, energy_j |-> EmptyBag,
   time_by_device |-> [d \in Devices |-> EmptyBag],
   time_by_type |-> [t \in LayerTypes \cup {"COMM"} |-> EmptyBag],
   crossings |-> 0, split_t_npu_bound |-> EmptyBag, split_t_pim_bound |-> EmptyBag]

NoLanes == [compute |-> EmptyBag, comm |-> EmptyBag, nl |-> EmptyBag]

One(charge) == SetToBag({charge})

Times(bag, n) == [c \in IF n = 0 THEN {} ELSE DOMAIN bag |-> n * bag[c]]

ScaleLatency(c, n) ==   \* slip: the breakdowns stay those of one block
  [c EXCEPT !.time_s = Times(@, n), !.energy_j = Times(@, n)]

\* The block's cost, as often as the network has the block.
Scale(c, n) ==
  [time_s |-> Times(c.time_s, n), energy_j |-> Times(c.energy_j, n),
   time_by_device |-> [d \in Devices |-> Times(c.time_by_device[d], n)],
   time_by_type |-> [t \in DOMAIN c.time_by_type |-> Times(c.time_by_type[t], n)],
   crossings |-> c.crossings * n,
   split_t_npu_bound |-> Times(c.split_t_npu_bound, n),
   split_t_pim_bound |-> Times(c.split_t_pim_bound, n)]

Merge(a, b) ==
  [time_s |-> a.time_s (+) b.time_s, energy_j |-> a.energy_j (+) b.energy_j,
   time_by_device |-> [d \in Devices |-> a.time_by_device[d] (+) b.time_by_device[d]],
   time_by_type |-> [t \in DOMAIN a.time_by_type |-> a.time_by_type[t] (+) b.time_by_type[t]],
   crossings |-> a.crossings + b.crossings,
   split_t_npu_bound |-> a.split_t_npu_bound (+) b.split_t_npu_bound,
   split_t_pim_bound |-> a.split_t_pim_bound (+) b.split_t_pim_bound]

\* A charge entered n times under its device and type, and in the energy.
Enter(c, charge, n, dev, type) ==
  LET entry == Times(One(charge), n)
  IN  [c EXCEPT !.energy_j = @ (+) entry,
                !.time_by_device[dev] = @ (+) entry,
                !.time_by_type[type] = @ (+) entry]

\* The same, in the latency too.
Add(c, charge, n, dev, type) ==
  [Enter(c, charge, n, dev, type) EXCEPT !.time_s = @ (+) Times(One(charge), n)]

\* A layer of compose_sequential, after a crossing when the device changes.
Sequential(c, before, layer, model) ==
  LET bytes == IF In1(layer, model) < 1 THEN 1 ELSE In1(layer, model)
      crossed ==
        IF before \in Devices /\ layer.device # before
        THEN [Add(c, Transfer(bytes), 1, "PIM", "COMM") EXCEPT !.crossings = @ + 1]
        ELSE c
  IN  Add(crossed, Kernel(layer, layer.device), 1, layer.device, layer.type)

SplitsEverything(layer, split_attention) == FALSE   \* slip

\* compose_concurrent leaves attention in the bank unless told to split it.
Pinned(layer, split_attention) == layer.type = "MATMUL" /\ ~split_attention

\* A kernel split over both devices, and the gather of PIM's slice.  No layer
\* is empty, so both devices take time and the slice is not empty either.
SplitKernel(c, layer) ==
  LET kernel == [Enter(c, Split(layer), 1, "NPU", layer.type) EXCEPT
                   !.time_by_device["PIM"] = @ (+) One(Split(layer)),
                   !.split_t_npu_bound = @ (+) One(Kernel(layer, "NPU")),
                   !.split_t_pim_bound = @ (+) One(Kernel(layer, "PIM"))]
  IN  [Enter(kernel, Gather(layer), 1, "PIM", "COMM") EXCEPT !.crossings = @ + 1]

HopRepsEvery(model) == model.n_layers   \* slip: one after the last block too

HopReps(model) == model.n_layers - 1

\* The hops between blocks, when the ends of a block are on different devices.
InterlayerHops(c, block, model) ==
  LET last == block[Len(block)]
      bytes == last.m * last.n * model.bytes_per_param
      reps == HopReps(model)
  IN  IF block[1].device # last.device
      THEN [Add(c, Transfer(bytes), reps, "PIM", "COMM") EXCEPT !.crossings = @ + reps]
      ELSE c

-----------------------------------------------------------------------------
Pass == passes[p]
List == IF part = "head" THEN Pass.head ELSE Pass.block
Cur == List[i]

Costing == p <= Len(passes)
Composing(exec_model) == Costing /\ i <= Len(List) /\ Pass.exec_model = exec_model
ListDone == Costing /\ i > Len(List)

\* A composer starts on an empty ledger, with no device before.
Fresh == out' = Zero /\ lanes' = NoLanes /\ prev' = "none" /\ i' = 1

Init ==
  /\ job \in Jobs /\ passes = Passes(job)
  /\ p = 1 /\ part = "block" /\ i = 1
  /\ prev = "none" /\ out = Zero /\ lanes = NoLanes /\ total = Zero /\ record = Zero

Place(new) == out' = new /\ i' = i + 1 /\ UNCHANGED <<job, passes, p, part, total, record>>

SequentialLayer ==
  /\ Composing("SEQUENTIAL")
  /\ Place(Sequential(out, prev, Cur, job.model))
  /\ prev' = Cur.device
  /\ UNCHANGED lanes

PinnedLayer ==
  /\ Composing("CONCURRENT") /\ Pinned(Cur, Pass.split_attention)
  /\ Place([Enter(out, Kernel(Cur, "PIM"), 1, "PIM", Cur.type) EXCEPT
              !.split_t_pim_bound = @ (+) One(Kernel(Cur, "PIM"))])
  /\ lanes' = [lanes EXCEPT !.compute = @ (+) One(Kernel(Cur, "PIM"))]
  /\ UNCHANGED prev

SplitLayer ==
  /\ Composing("CONCURRENT") /\ ~Pinned(Cur, Pass.split_attention)
  /\ Cur.type \in {"FC", "MATMUL"}
  /\ Place(SplitKernel(out, Cur))
  /\ lanes' = [lanes EXCEPT !.compute = @ (+) One(Split(Cur)), !.comm = @ (+) One(Gather(Cur))]
  /\ UNCHANGED prev

GlueLayer ==
  /\ Composing("CONCURRENT") /\ Cur.type \in NONLINEAR
  /\ Place(Enter(out, Kernel(Cur, "NPU"), 1, "NPU", Cur.type))
  /\ lanes' = [lanes EXCEPT !.nl = @ (+) One(Kernel(Cur, "NPU"))]
  /\ UNCHANGED prev

\* What the composer returns; compose_concurrent adds its lanes up last.
Returned ==
  IF Pass.exec_model = "CONCURRENT"
  THEN [out EXCEPT !.time_s = lanes.compute (+) lanes.comm (+) lanes.nl]
  ELSE out

\* cost_forward_pass scales the block, adds the hops and turns to the head.
EndBlock ==
  /\ ListDone /\ Pass.forward /\ part = "block"
  /\ LET scaled == Scale(Returned, job.model.n_layers)
     IN  total' = IF Pass.exec_model = "SEQUENTIAL"
                  THEN InterlayerHops(scaled, Pass.block, job.model) ELSE scaled
  /\ part' = "head"
  /\ Fresh /\ UNCHANGED <<job, passes, p, record>>

\* The pass is costed; its cost goes into the step's.
EndPass ==
  /\ ListDone /\ (part = "head" \/ ~Pass.forward)
  /\ record' = Merge(record, IF Pass.forward THEN Merge(total, Returned) ELSE Returned)
  /\ total' = Zero /\ part' = "block" /\ p' = p + 1
  /\ Fresh /\ UNCHANGED <<job, passes>>

\* The step is recorded.
Recorded == ~Costing /\ UNCHANGED vars

Compose ==
  \/ SequentialLayer \/ PinnedLayer \/ SplitLayer \/ GlueLayer
  \/ EndBlock \/ EndPass

Next == Compose \/ Recorded

Spec == Init /\ [][Next]_vars

-----------------------------------------------------------------------------
BetweenPasses == part = "block" /\ i = 1

\* The network a pass stands for, layer by layer: the block as often as the
\* forward repeats it; then the head, which is composed on its own.
Depth(q) == IF passes[q].forward THEN job.model.n_layers ELSE 1
Block(q, j) == passes[q].block[((j - 1) % Len(passes[q].block)) + 1]
Unrolled(q) ==
  [j \in 1..(Depth(q) * Len(passes[q].block)) |-> Block(q, j)] \o passes[q].head

InSequence(q) == passes[q].exec_model = "SEQUENTIAL"

\* How one layer of the network is charged.
Runs(q, layer) ==
  CASE InSequence(q) -> Kernel(layer, layer.device)
    [] ~InSequence(q) /\ layer.type \in NONLINEAR -> Kernel(layer, "NPU")
    [] ~InSequence(q) /\ layer.type = "MATMUL" /\ ~passes[q].split_attention ->
         Kernel(layer, "PIM")
    [] OTHER -> Split(layer)

Tally(S, Key(_)) == [c \in {Key(x) : x \in S} |-> Cardinality({x \in S : Key(x) = c})]

\* cost_forward_pass costs one block, scales it and patches the boundaries in:
\* that is what composing the n_layers blocks one after the other would cost,
\* every kernel once, a transfer of the consumer's input at every device
\* switch inside the stack, a gather after every split kernel.
ChargesTheUnrolledNetwork ==
  BetweenPasses =>
    LET done == 1..(p - 1)
        ops == UNION {{<<q, j>> : j \in DOMAIN Unrolled(q)} : q \in done}
        At(x) == Unrolled(x[1])[x[2]]
        Runs2(x) == Runs(x[1], At(x))
        switches == {x \in ops :
          /\ InSequence(x[1]) /\ x[2] \in 2..(Depth(x[1]) * Len(passes[x[1]].block))
          /\ At(x).device # At(<<x[1], x[2] - 1>>).device}
        Moved(x) == Transfer(In1(At(x), job.model))
        Collected(x) == Gather(At(x))
    IN  record.time_s = Tally(ops, Runs2) (+) Tally(switches, Moved)
                          (+) Tally({x \in ops : Runs2(x).on = "BOTH"}, Collected)

TypeOf(c) == IF c.on \in {"BUS", "GATHER"} THEN "COMM" ELSE c.layer.type
BusyDuring(c) ==
  CASE c.on \in Devices -> {c.on} [] c.on = "BOTH" -> Devices [] OTHER -> {"PIM"}

Part(bag, Of(_)) == [c \in {c \in DOMAIN bag : Of(c)} |-> bag[c]]

\* The breakdowns are views of the wall clock (report.py:181): time_by_type
\* partitions it; a device is charged what kept it busy, so the two devices
\* overlap in the split kernels and nowhere else; no charge is in the latency
\* and not in the energy; a crossing is counted per charge on the bus; the
\* all-NPU bound covers the split kernels.
LedgersAreViews ==
  BetweenPasses =>
    LET wall == record.time_s
        OnBus(c) == c.on \in {"BUS", "GATHER"}
        IsSplit(c) == c.on = "BOTH"
        AsNpu(c) == Kernel(c.layer, "NPU")
    IN  /\ record.energy_j = wall
        /\ \A t \in DOMAIN record.time_by_type :
             LET OfType(c) == TypeOf(c) = t IN record.time_by_type[t] = Part(wall, OfType)
        /\ \A d \in Devices :
             LET Busy(c) == d \in BusyDuring(c)
             IN  record.time_by_device[d] = Part(wall, Busy)
        /\ record.crossings = SumFunction(Part(wall, OnBus))
        /\ record.split_t_npu_bound =
             [k \in {AsNpu(c) : c \in DOMAIN Part(wall, IsSplit)} |-> wall[Split(k.layer)]]

\* No driver's routing trips the devices' assertions: nonlinear glue is never
\* costed on the PIM (pim.py:74), a transfer never on the NPU (npu.py:49).
DispatchIsLegal ==
  /\ \A c \in DOMAIN out.energy_j \cup DOMAIN out.split_t_pim_bound :
       c.on \in {"PIM", "BOTH"} => c.layer.type \in {"FC", "MATMUL"}
  /\ \A c \in DOMAIN out.time_by_device["NPU"] : c.on \in {"NPU", "BOTH"}

\* CAPIM keeps attention where the KV cache is: neither a verify, however it
\* is routed, nor a draft on the PIM runs an attention matmul elsewhere, splits
\* it or gathers a slice of it (system.py:18).
KvStaysInBank ==
  Costing /\ job.driver = "capim" /\ ~job.cfg.all_npu
          /\ (Pass.forward \/ job.cfg.draft_device = "pim") =>
    \A c \in DOMAIN out.energy_j :
      c.on # "BUS" => (c.layer.type = "MATMUL" => c.on = "PIM")
=============================================================================
