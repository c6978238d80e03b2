----------------------------- MODULE CostProofs -----------------------------
(***************************************************************************)
(* The cost plane and the report, for every network, trace, configuration  *)
(* and rates: the ledgers' breakdowns are views of one wall clock, no      *)
(* kernel is costed where it cannot run, CAPIM's attention stays in the    *)
(* bank, a step is charged as its network unrolled, and what is reported   *)
(* of a call is one picture of it.                                         *)
(*                                                                         *)
(* The layers the builders list and where the routers put them are typed   *)
(* first (PassesTyped).  CostInv then says of every ledger, also of one    *)
(* half composed, how often each charge is in each breakdown (Views), and  *)
(* that the latency is what the energy is charged for once the lanes of    *)
(* compose_concurrent are added up.  LpInv adds that an LP-Spec ledger has *)
(* every matmul split and in both bounds.  CallInv adds the call around    *)
(* it: each record is that of its step.  Amounts, means and totals are     *)
(* sums over these (SumProofs).  Billed says what every ledger holds at    *)
(* every point, charge by charge: what the layers costed so far are due in *)
(* the network unrolled, so that one block scaled and patched is the stack *)
(* (StackBill) and the record of a step its passes, layer by layer.        *)
(***************************************************************************)
EXTENDS SumProofs, SequenceTheorems, Report

-----------------------------------------------------------------------------
(* The layers a builder lists, and where a router puts them.               *)

Names ==
  {"qkv", "score", "softmax", "context", "proj", "norm1", "ff1", "ff2", "glu", "ff3", "norm2",
   "lm_head", "fusion_fc", "sample_softmax", "resblock", "silu", "lmhead", "medusa_softmax"}

Layers ==
  [name : Names, type : LayerTypes, m : Positive, n : Positive, k : Positive,
   numOp : Positive]

\* A placed layer, wherever the glue is not on the PIM.
PlacedLayers ==
  {l \in [name : Names, type : LayerTypes, m : Positive, n : Positive, k : Positive,
          numOp : Positive, device : Devices] :
     l.device = "PIM" => l.type \in {"FC", "MATMUL"}}

Routers ==
  {r \in [LayerTypes -> Devices] : \A t \in LayerTypes : r[t] = "PIM" => t \in {"FC", "MATMUL"}}

\* Two sequences, one after the other.
LEMMA Joined ==
  ASSUME NEW S, NEW s \in Seq(S), NEW t \in Seq(S)
  PROVE  /\ s \o t \in Seq(S) /\ Len(s) \in Nat /\ Len(t) \in Nat
         /\ Len(s \o t) = Len(s) + Len(t)
         /\ \A j \in 1..Len(s) : (s \o t)[j] = s[j]
         /\ \A j \in 1..Len(t) : (s \o t)[Len(s) + j] = t[j]
<1>1. /\ s \o t \in Seq(S) /\ Len(s) \in Nat /\ Len(t) \in Nat
      /\ Len(s \o t) = Len(s) + Len(t)
  BY ConcatProperties, LenProperties
<1>2. \A j \in 1..Len(s) : (s \o t)[j] = s[j]
  BY <1>1, ConcatProperties
<1>3. \A j \in 1..Len(t) : (s \o t)[Len(s) + j] = t[j]
  <2>. TAKE j \in 1..Len(t)
  <2>1. Len(s) + j \in 1..(Len(s) + Len(t)) /\ ~(Len(s) + j <= Len(s))
        /\ (Len(s) + j) - Len(s) = j
    BY <1>1
  <2>2. (s \o t)[Len(s) + j] = t[(Len(s) + j) - Len(s)]
    BY <2>1, ConcatProperties
  <2>. QED  BY <2>1, <2>2
<1>. QED  BY <1>1, <1>2, <1>3

\* A layer of positive dimensions.
LEMMA LayerTyped ==
  ASSUME NEW name \in Names, NEW type \in LayerTypes, NEW m \in Positive, NEW n \in Positive,
         NEW k \in Positive, NEW numOp \in Positive
  PROVE  /\ Layer(name, type, m, n, k, numOp) \in Layers
         /\ Layer(name, type, m, n, k, numOp).type = type
BY DEF Layer, Layers

\* No router of the drivers puts the nonlinear glue on the PIM.
LEMMA RoutersLegal ==
  /\ RouterAllNpu \in Routers /\ RouterEagleDraft \in Routers
  /\ \A fc \in Devices : RouterCapimVerify(fc) \in Routers /\ RouterCapimVerify(fc)["MATMUL"] = "PIM"
  /\ RouterEagleDraft["MATMUL"] = "PIM"
<1>1. RouterAllNpu \in Routers
  BY DEF RouterAllNpu, Routers, Devices, LayerTypes
<1>2. RouterEagleDraft \in Routers /\ RouterEagleDraft["MATMUL"] = "PIM"
  BY DEF RouterEagleDraft, Routers, Devices, LayerTypes
<1>3. ASSUME NEW fc \in Devices
      PROVE  RouterCapimVerify(fc) \in Routers /\ RouterCapimVerify(fc)["MATMUL"] = "PIM"
  BY DEF RouterCapimVerify, Routers, Devices, LayerTypes, NONLINEAR
<1>. QED  BY <1>1, <1>2, <1>3

\* Tagged layers are placed where the router says.
LEMMA TagPlaces ==
  ASSUME NEW list \in Seq(Layers), NEW router \in Routers
  PROVE  /\ Tag(list, router) \in Seq(PlacedLayers) /\ Len(Tag(list, router)) = Len(list)
         /\ \A j \in 1..Len(list) :
              /\ Tag(list, router)[j].device = router[list[j].type]
              /\ Tag(list, router)[j].type = list[j].type
              /\ Tag(list, router)[j].m = list[j].m /\ Tag(list, router)[j].n = list[j].n
              /\ Tag(list, router)[j].k = list[j].k
              /\ Tag(list, router)[j].numOp = list[j].numOp
<1>1. DOMAIN list = 1..Len(list) /\ Len(list) \in Nat /\ \A j \in 1..Len(list) : list[j] \in Layers
  OBVIOUS
<1>. DEFINE At(j) ==
     [name |-> list[j].name, type |-> list[j].type, m |-> list[j].m,
      n |-> list[j].n, k |-> list[j].k, numOp |-> list[j].numOp,
      device |-> router[list[j].type]]
<1>2. \A j \in 1..Len(list) : At(j) \in PlacedLayers
  BY <1>1 DEF Layers, PlacedLayers, Routers
<1>3. Tag(list, router) = [j \in 1..Len(list) |-> At(j)]
  BY <1>1 DEF Tag
<1>. QED
  <2>1. \A j \in 1..Len(list) : Tag(list, router)[j] = At(j)
    BY <1>3
  <2>2. Tag(list, router) \in Seq(PlacedLayers) /\ Len(Tag(list, router)) = Len(list)
    <3>. HIDE DEF At
    <3>. QED  BY <1>1, <1>2, <1>3
  <2>3. \A j \in 1..Len(list) :
          /\ At(j).device = router[list[j].type] /\ At(j).type = list[j].type
          /\ At(j).m = list[j].m /\ At(j).n = list[j].n
          /\ At(j).k = list[j].k /\ At(j).numOp = list[j].numOp
    OBVIOUS
  <2>. HIDE DEF At
  <2>. QED  BY <2>1, <2>2, <2>3

\* A block, as long as the builder makes it: the first layer consumes m rows of
\* the model's width, and a forward's last one produces them.
IsBlock(b, model, m, eagle_draft) ==
  /\ b \in Seq(Layers) /\ Len(b) >= 10
  /\ b[1].type = "FC" /\ b[1].m = m /\ b[1].k = model.d_model /\ b[1].numOp = 1
  /\ b[2].type = "MATMUL"
  /\ eagle_draft = FALSE => b[Len(b)].m = m /\ b[Len(b)].n = model.d_model

\* The layers of a block.
LEMMA DecoderLayers ==
  ASSUME NEW model, IsModel(model), NEW m \in Positive, NEW ctx \in Positive,
         NEW eagle_draft \in BOOLEAN
  PROVE  IsBlock(build_decoder_layer(model, m, ctx, eagle_draft), model, m, eagle_draft)
<1>. DEFINE d == model.d_model  h == model.n_heads
            dh == head_dim(model)  ff == model.intermediate_size
            body ==
            << Layer("qkv", "FC", m, 3 * d, d, 1),
               Layer("score", "MATMUL", m, ctx, dh, h),
               Layer("softmax", "SOFTMAX", m, ctx, 1, h),
               Layer("context", "MATMUL", m, dh, ctx, h),
               Layer("proj", "FC", m, d, d, 1),
               Layer("norm1", "NORM", m, d, 1, 1),
               Layer("ff1", "FC", m, ff, d, 1),
               Layer("ff2", "FC", m, ff, d, 1),
               Layer("glu", "ACT", m, ff, 1, 1),
               Layer("ff3", "FC", m, d, ff, 1) >>
            end == IF eagle_draft THEN <<>> ELSE <<Layer("norm2", "NORM", m, d, 1, 1)>>
<1>1. /\ d \in Positive /\ 3 * d \in Positive /\ h \in Positive /\ ff \in Positive
      /\ 1 \in Positive
  BY DEF IsModel, Positive
<1>2. dh \in Positive
  <2>1. d \in Nat /\ h \in Nat /\ h >= 1 /\ h <= d
    BY DEF IsModel, Positive
  <2>. QED  BY <2>1 DEF head_dim, Positive
<1>0. /\ "FC" \in LayerTypes /\ "MATMUL" \in LayerTypes /\ "SOFTMAX" \in LayerTypes
      /\ "NORM" \in LayerTypes /\ "ACT" \in LayerTypes
      /\ "qkv" \in Names /\ "score" \in Names /\ "softmax" \in Names
      /\ "context" \in Names /\ "proj" \in Names /\ "norm1" \in Names /\ "ff1" \in Names
      /\ "ff2" \in Names /\ "glu" \in Names /\ "ff3" \in Names /\ "norm2" \in Names
  BY DEF LayerTypes, NONLINEAR, Names
<1>3. body \in Seq(Layers) /\ Len(body) = 10
  <2>. HIDE DEF d, h, dh, ff
  <2>1. \A j \in 1..10 : body[j] \in Layers
    <3>. DEFINE d3 == 3 * d
    <3>0. d3 \in Positive
      BY <1>1
    <3>. HIDE DEF d3
    <3>2. /\ Layer("qkv", "FC", m, d3, d, 1) \in Layers
          /\ Layer("score", "MATMUL", m, ctx, dh, h) \in Layers
          /\ Layer("softmax", "SOFTMAX", m, ctx, 1, h) \in Layers
          /\ Layer("context", "MATMUL", m, dh, ctx, h) \in Layers
          /\ Layer("proj", "FC", m, d, d, 1) \in Layers
      BY <3>0, <1>0, <1>1, <1>2 DEF Layer, Layers
    <3>3. /\ Layer("norm1", "NORM", m, d, 1, 1) \in Layers
          /\ Layer("ff1", "FC", m, ff, d, 1) \in Layers
          /\ Layer("ff2", "FC", m, ff, d, 1) \in Layers
          /\ Layer("glu", "ACT", m, ff, 1, 1) \in Layers
          /\ Layer("ff3", "FC", m, d, ff, 1) \in Layers
      BY <1>0, <1>1, <1>2 DEF Layer, Layers
    <3>1. /\ body[1] \in Layers /\ body[2] \in Layers /\ body[3] \in Layers
          /\ body[4] \in Layers /\ body[5] \in Layers /\ body[6] \in Layers
          /\ body[7] \in Layers /\ body[8] \in Layers /\ body[9] \in Layers
          /\ body[10] \in Layers
      BY <3>2, <3>3 DEF d3
    <3>. QED  BY <3>1
  <2>. QED  BY <2>1
<1>4. end \in Seq(Layers)
  <2>. HIDE DEF d
  <2>1. Layer("norm2", "NORM", m, d, 1, 1) \in Layers
    BY <1>0, <1>1 DEF Layer, Layers
  <2>. QED  BY <2>1
<1>5. build_decoder_layer(model, m, ctx, eagle_draft) = body \o end
  BY DEF build_decoder_layer
<1>6. /\ body[1].type = "FC" /\ body[1].m = m /\ body[1].k = d /\ body[1].numOp = 1
      /\ body[2].type = "MATMUL"
  BY DEF Layer
<1>7. eagle_draft = FALSE => Len(end) = 1 /\ end[1].m = m /\ end[1].n = d
  BY DEF Layer
<1>. QED
  <2>. HIDE DEF body, end
  <2>1. /\ body \o end \in Seq(Layers) /\ Len(body \o end) = Len(body) + Len(end)
        /\ Len(end) \in Nat
        /\ \A j \in 1..Len(body) : (body \o end)[j] = body[j]
        /\ \A j \in 1..Len(end) : (body \o end)[Len(body) + j] = end[j]
    <3>1. body \in Seq(Layers) /\ end \in Seq(Layers)
      BY <1>3, <1>4
    <3>. QED  BY ONLY <3>1, Joined, SMTT(30)
  <2>2. /\ Len(body \o end) = 10 + Len(end)
        /\ (body \o end)[1] = body[1] /\ (body \o end)[2] = body[2]
    <3>1. 1 \in 1..Len(body) /\ 2 \in 1..Len(body)
      BY <1>3
    <3>. QED  BY <3>1, <2>1, <1>3
  <2>3. Len(end) = 1 => (body \o end)[11] = end[1]
    <3>1. 10 + 1 = 11 /\ 1 \in 1..1
      OBVIOUS
    <3>. QED  BY <3>1, <2>1, <1>3
  <2>. QED  BY <2>1, <2>2, <2>3, <1>5, <1>6, <1>7 DEF IsBlock

\* A network's head is one layer.
LEMMA HeadLayer ==
  ASSUME NEW model, IsModel(model), NEW m \in Positive
  PROVE  /\ build_lm_head(model, m) \in Layers
         /\ <<build_lm_head(model, m)>> \in Seq(Layers) /\ Len(<<build_lm_head(model, m)>>) = 1
<1>1. build_lm_head(model, m) \in Layers
  <2>1. /\ "lm_head" \in Names /\ "FC" \in LayerTypes /\ model.vocab_size \in Positive
        /\ model.d_model \in Positive /\ 1 \in Positive
    BY DEF Names, LayerTypes, IsModel, Positive
  <2>. QED  BY <2>1, LayerTyped DEF build_lm_head
<1>. QED  BY <1>1

\* A level of the EAGLE head.
LEMMA EagleLayers ==
  ASSUME NEW model, IsModel(model), NEW width \in Positive, NEW ctx \in Positive
  PROVE  /\ build_eagle_draft_step(model, width, ctx) \in Seq(Layers)
         /\ Len(build_eagle_draft_step(model, width, ctx)) > 0
<1>. DEFINE first == <<Layer("fusion_fc", "FC", width, model.d_model, 2 * model.d_model, 1)>>
            body == build_decoder_layer(model, width, ctx, TRUE)
            last == <<build_lm_head(model, width),
                      Layer("sample_softmax", "SOFTMAX", width, model.vocab_size, 1, 1)>>
<1>1. first \in Seq(Layers) /\ Len(first) = 1
  <2>1. /\ "fusion_fc" \in Names /\ "FC" \in LayerTypes /\ model.d_model \in Positive
        /\ 2 * model.d_model \in Positive /\ 1 \in Positive
    BY DEF Names, LayerTypes, IsModel, Positive
  <2>2. Layer("fusion_fc", "FC", width, model.d_model, 2 * model.d_model, 1) \in Layers
    BY <2>1, LayerTyped
  <2>. QED  BY <2>2
<1>2. body \in Seq(Layers) /\ Len(body) >= 10
  BY DecoderLayers DEF IsBlock
<1>3. last \in Seq(Layers)
  <2>1. /\ "sample_softmax" \in Names /\ "SOFTMAX" \in LayerTypes
        /\ model.vocab_size \in Positive /\ 1 \in Positive
    BY DEF Names, LayerTypes, NONLINEAR, IsModel, Positive
  <2>2. Layer("sample_softmax", "SOFTMAX", width, model.vocab_size, 1, 1) \in Layers
    BY <2>1, LayerTyped
  <2>3. build_lm_head(model, width) \in Layers
    BY HeadLayer
  <2>. QED  BY <2>2, <2>3
<1>4. build_eagle_draft_step(model, width, ctx) = (first \o body) \o last
  BY DEF build_eagle_draft_step
<1>. HIDE DEF first, body, last
<1>5. first \o body \in Seq(Layers) /\ Len(first \o body) = Len(first) + Len(body)
  BY ONLY <1>1, <1>2, Joined, SMTT(30)
<1>6. (first \o body) \o last \in Seq(Layers) /\ Len(last) \in Nat
      /\ Len((first \o body) \o last) = Len(first \o body) + Len(last)
  BY ONLY <1>5, <1>3, Joined, SMTT(30)
<1>. QED  BY <1>1, <1>2, <1>4, <1>5, <1>6

\* The Medusa heads.
LEMMA MedusaLayers ==
  ASSUME NEW model, IsModel(model), NEW heads \in Positive
  PROVE  /\ build_medusa_draft(model, heads) \in Seq(Layers)
         /\ Len(build_medusa_draft(model, heads)) > 0
         /\ build_medusa_draft(model, heads)[1].type = "FC"
<1>. DEFINE head == <<Layer("resblock", "FC", 1, model.d_model, model.d_model, 1),
                      Layer("silu", "ACT", 1, model.d_model, 1, 1),
                      Layer("lmhead", "FC", 1, model.vocab_size, model.d_model, 1)>>
            all == [j \in 1..(3 * heads) |-> head[((j - 1) % 3) + 1]]
            last == <<Layer("medusa_softmax", "SOFTMAX", 1, model.vocab_size, 1, heads)>>
<1>1. /\ "FC" \in LayerTypes /\ "ACT" \in LayerTypes /\ "SOFTMAX" \in LayerTypes
      /\ "resblock" \in Names /\ "silu" \in Names /\ "lmhead" \in Names
      /\ "medusa_softmax" \in Names
      /\ model.d_model \in Positive /\ model.vocab_size \in Positive /\ 1 \in Positive
  BY DEF LayerTypes, NONLINEAR, Names, IsModel, Positive
<1>2. head[1] \in Layers /\ head[2] \in Layers /\ head[3] \in Layers
  BY <1>1 DEF Layer, Layers
<1>3. all \in Seq(Layers)
  <2>. HIDE DEF head
  <2>1. \A j \in 1..(3 * heads) : ((j - 1) % 3) + 1 \in {1, 2, 3}
    BY DEF Positive
  <2>2. \A j \in 1..(3 * heads) : all[j] \in Layers
    BY <2>1, <1>2
  <2>3. 3 * heads \in Nat
    BY DEF Positive
  <2>. QED  BY <2>2, <2>3
<1>4. last \in Seq(Layers) /\ Len(last) = 1
  <2>1. Layer("medusa_softmax", "SOFTMAX", 1, model.vocab_size, 1, heads) \in Layers
    BY <1>1, LayerTyped
  <2>. QED  BY <2>1
<1>5. build_medusa_draft(model, heads) = all \o last
  BY DEF build_medusa_draft
<1>7. Len(all) = 3 * heads /\ 1 \in 1..Len(all) /\ all[1].type = "FC"
  <2>1. 3 * heads \in Nat /\ 1 \in 1..(3 * heads) /\ ((1 - 1) % 3) + 1 = 1
    BY DEF Positive
  <2>2. all[1] = head[1]
    BY <2>1
  <2>3. head[1].type = "FC"
    BY DEF Layer
  <2>. QED  BY <2>1, <2>2, <2>3
<1>. HIDE DEF all, last
<1>6. /\ all \o last \in Seq(Layers) /\ Len(all \o last) = Len(all) + Len(last)
      /\ Len(all) \in Nat /\ \A k \in 1..Len(all) : (all \o last)[k] = all[k]
  <2>1. all \in Seq(Layers) /\ last \in Seq(Layers)
    BY <1>3, <1>4
  <2>. QED  BY ONLY <2>1, Joined, SMTT(30)
<1>. QED  BY <1>4, <1>5, <1>6, <1>7

-----------------------------------------------------------------------------
(* The passes a driver orders.                                             *)

PassRecords ==
  [forward : BOOLEAN, block : Seq(PlacedLayers), head : Seq(PlacedLayers),
   exec_model : {"SEQUENTIAL", "CONCURRENT"}, split_attention : BOOLEAN]

\* Composed by q's rules, no attention matmul of the list leaves the PIM.
InBank(q, list) ==
  /\ q.exec_model = "CONCURRENT" => ~q.split_attention
  /\ q.exec_model = "SEQUENTIAL" =>
       \A n \in 1..Len(list) : list[n].type = "MATMUL" => list[n].device = "PIM"

\* The consumer of a block's output is the next block's first layer.
Stacks(q, model) ==
  LET first == q.block[1]   last == q.block[Len(q.block)]
  IN  In1(first, model) = last.m * last.n * model.bytes_per_param

\* Every matmul is split, and there is one.
SplitsAll(q) ==
  q.exec_model = "CONCURRENT" /\ q.split_attention = TRUE /\ q.block[1].type = "FC"

IsPass(q, j) ==
  /\ q \in PassRecords /\ Len(q.block) > 0
  /\ j.driver = "lp_spec" => SplitsAll(q)
  /\ q.forward => Stacks(q, j.model) /\ Len(q.head) = 1
  /\ ~q.forward => q.head = <<>>
  /\ j.driver = "capim" /\ ~j.cfg.all_npu /\ (q.forward \/ j.cfg.draft_device = "pim") =>
       InBank(q, q.block) /\ InBank(q, q.head)

\* compose_* on a list.
LEMMA ListPassTyped ==
  ASSUME NEW list \in Seq(Layers), Len(list) > 0, NEW router \in Routers,
         NEW exec \in {"SEQUENTIAL", "CONCURRENT"}
  PROVE  LET q == ListPass(Tag(list, router), exec)
         IN  /\ q \in PassRecords /\ Len(q.block) > 0 /\ ~q.forward /\ q.head = <<>>
             /\ q.exec_model = exec /\ q.split_attention = TRUE
             /\ q.block[1].type = list[1].type
             /\ exec = "SEQUENTIAL" /\ router["MATMUL"] = "PIM" =>
                  InBank(q, q.block) /\ InBank(q, q.head)
<1>. DEFINE t == Tag(list, router)
<1>1. /\ t \in Seq(PlacedLayers) /\ Len(t) = Len(list)
      /\ \A j \in 1..Len(list) : t[j].device = router[list[j].type] /\ t[j].type = list[j].type
  BY TagPlaces
<1>2. <<>> \in Seq(PlacedLayers) /\ Len(<<>>) = 0
  OBVIOUS
<1>. HIDE DEF t
<1>3. ListPass(t, exec) = [forward |-> FALSE, block |-> t, head |-> <<>>,
                           exec_model |-> exec, split_attention |-> TRUE]
  BY DEF ListPass
<1>4. ListPass(t, exec) \in PassRecords /\ Len(ListPass(t, exec).block) > 0
      /\ ~ListPass(t, exec).forward /\ ListPass(t, exec).head = <<>>
  BY <1>1, <1>2, <1>3 DEF PassRecords
<1>5. ASSUME exec = "SEQUENTIAL", router["MATMUL"] = "PIM"
      PROVE  InBank(ListPass(t, exec), ListPass(t, exec).block)
             /\ InBank(ListPass(t, exec), ListPass(t, exec).head)
  BY <1>1, <1>2, <1>3, <1>5 DEF InBank
<1>6. /\ ListPass(t, exec).exec_model = exec /\ ListPass(t, exec).split_attention = TRUE
      /\ ListPass(t, exec).block[1].type = list[1].type
  <2>1. 1 \in 1..Len(list)
    BY LenProperties
  <2>. QED  BY <2>1, <1>1, <1>3
<1>. QED  BY <1>4, <1>5, <1>6 DEF t

IsPlan(plan) ==
  plan.exec_model \in {"SEQUENTIAL", "CONCURRENT"} /\ plan.split_attention \in BOOLEAN

\* The plan and the router leave attention on the PIM.
Banked(plan, router) == plan.split_attention = FALSE /\ router["MATMUL"] = "PIM"

IsForward(q, model, plan, router) ==
  /\ q \in PassRecords /\ Len(q.block) > 0 /\ q.forward /\ Stacks(q, model)
  /\ Len(q.head) = 1
  /\ q.exec_model = plan.exec_model /\ q.split_attention = plan.split_attention
  /\ q.block[1].type = "FC"
  /\ Banked(plan, router) => InBank(q, q.block) /\ InBank(q, q.head)

\* cost_forward_pass on a block and a head.
LEMMA ForwardTyped ==
  ASSUME NEW model, IsModel(model), NEW m \in Positive, NEW ctx \in Positive,
         NEW head_m \in Positive, NEW router \in Routers,
         NEW plan, IsPlan(plan)
  PROVE  IsForward(Forward(model, m, ctx, head_m, router, plan), model, plan, router)
<1>. DEFINE body == build_decoder_layer(model, m, ctx, FALSE)
            lm == <<build_lm_head(model, head_m)>>
            b == Tag(body, router)
            h == Tag(lm, router)
            q == Forward(model, m, ctx, head_m, router, plan)
<1>1. /\ body \in Seq(Layers) /\ Len(body) >= 10
      /\ body[1].type = "FC" /\ body[1].m = m /\ body[1].k = model.d_model
      /\ body[1].numOp = 1 /\ body[Len(body)].m = m /\ body[Len(body)].n = model.d_model
  <2>1. IsBlock(body, model, m, FALSE)
    BY DecoderLayers
  <2>. HIDE DEF body
  <2>. QED  BY <2>1 DEF IsBlock
<1>2. lm \in Seq(Layers) /\ Len(lm) = 1
  BY HeadLayer
<1>. HIDE DEF body, lm
<1>3. /\ b \in Seq(PlacedLayers) /\ Len(b) = Len(body) /\ Len(body) \in Nat
      /\ \A j \in 1..Len(body) :
           /\ b[j].device = router[body[j].type] /\ b[j].type = body[j].type
           /\ b[j].m = body[j].m /\ b[j].n = body[j].n
           /\ b[j].k = body[j].k /\ b[j].numOp = body[j].numOp
  BY <1>1, TagPlaces
<1>4. /\ h \in Seq(PlacedLayers) /\ Len(h) = Len(lm)
      /\ \A j \in 1..Len(lm) : h[j].device = router[lm[j].type] /\ h[j].type = lm[j].type
  BY <1>2, TagPlaces
<1>5. q = [forward |-> TRUE, block |-> b, head |-> h, exec_model |-> plan.exec_model,
           split_attention |-> plan.split_attention]
  BY DEF Forward, ForwardPass, body, lm
<1>. HIDE DEF b, h, q
<1>6. q \in PassRecords /\ Len(q.block) > 0 /\ q.forward
  BY <1>1, <1>3, <1>4, <1>5 DEF PassRecords, IsPlan
<1>10. Len(q.head) = 1
  BY <1>2, <1>4, <1>5
<1>7. Stacks(q, model)
  <2>. DEFINE d == model.d_model  w == model.bytes_per_param
  <2>1. m \in Nat /\ d \in Nat /\ w \in Nat
    BY DEF IsModel, Positive
  <2>2. 1 \in 1..Len(body) /\ Len(body) \in 1..Len(body)
    BY <1>1, <1>3
  <2>3. In1(b[1], model) = 1 * m * w * d
    BY <2>2, <1>1, <1>3 DEF In1
  <2>4. b[Len(b)].m * b[Len(b)].n * w = m * d * w
    BY <2>2, <1>1, <1>3
  <2>. HIDE DEF d, w
  <2>5. 1 * m * w * d = m * d * w
    BY <2>1
  <2>. QED  BY <2>3, <2>4, <2>5, <1>5 DEF Stacks, w
<1>8. ASSUME Banked(plan, router)
      PROVE  InBank(q, q.block) /\ InBank(q, q.head)
  BY <1>3, <1>4, <1>5, <1>8 DEF InBank, Banked
<1>9. /\ q.exec_model = plan.exec_model /\ q.split_attention = plan.split_attention
      /\ q.block[1].type = "FC"
  <2>1. 1 \in 1..Len(body)
    BY <1>1, <1>3
  <2>. QED  BY <2>1, <1>1, <1>3, <1>5
<1>. QED  BY <1>6, <1>7, <1>8, <1>9, <1>10 DEF q, IsForward

\* A set of naturals can be listed in order.
LEMMA Listed ==
  ASSUME NEW S \in SUBSET Nat, IsFiniteSet(S)
  PROVE  /\ InOrder(S) \in [1..Cardinality(S) -> S] /\ Cardinality(S) \in Nat
         /\ \A a, b \in 1..Cardinality(S) : a < b => InOrder(S)[a] < InOrder(S)[b]
<1>. DEFINE Sorts(s, T) == /\ s \in [1..Cardinality(T) -> T]
                           /\ \A a, b \in 1..Cardinality(T) : a < b => s[a] < s[b]
            Good == {T \in SUBSET S : \E s : Sorts(s, T)}
<1>0. \A T \in SUBSET S : IsFiniteSet(T) /\ Cardinality(T) \in Nat
  BY FS_Subset, FS_CardinalityType
<1>1. {} \in Good
  <2>1. Cardinality({}) = 0
    BY FS_EmptySet
  <2>2. Sorts([a \in 1..0 |-> 0], {})
    BY <2>1
  <2>. QED  BY <2>2
<1>2. ASSUME NEW T \in SUBSET S, \A x \in T : T \ {x} \in Good
      PROVE  T \in Good
  <2>. SUFFICES ASSUME T # {} PROVE \E s : Sorts(s, T)
    BY <1>1
  <2>1. PICK x \in T : \A y \in T : x <= y
    BY LeastNatural
  <2>2. PICK s : Sorts(s, T \ {x})
    BY <1>2
  <2>. DEFINE n == Cardinality(T)
  <2>3. Cardinality(T \ {x}) = n - 1 /\ n \in Nat /\ n - 1 \in Nat
    <3>1. IsFiniteSet(T) /\ IsFiniteSet(T \ {x}) /\ Cardinality(T \ {x}) \in Nat
      BY <1>0
    <3>. QED  BY <3>1, <1>0, FS_RemoveElement
  <2>. HIDE DEF n
  <2>. DEFINE e == [a \in 1..n |-> IF a = 1 THEN x ELSE s[a - 1]]
  <2>4. \A a \in 1..(n - 1) : s[a] \in T \ {x}
    BY <2>2, <2>3
  <2>5. \A a \in 1..n : a # 1 => a - 1 \in 1..(n - 1)
    BY <2>3
  <2>6. e \in [1..n -> T]
    BY <2>4, <2>5
  <2>7. ASSUME NEW a \in 1..n, NEW b \in 1..n, a < b
        PROVE  e[a] < e[b]
    <3>1. b # 1 /\ e[b] = s[b - 1] /\ b - 1 \in 1..(n - 1) /\ s[b - 1] \in T \ {x}
      BY <2>7, <2>3, <2>4, <2>5
    <3>2. CASE a = 1
      <4>1. e[a] = x
        BY <3>2
      <4>2. x <= s[b - 1] /\ x # s[b - 1] /\ x \in Nat /\ s[b - 1] \in Nat
        BY <3>1, <2>1
      <4>. QED  BY <4>1, <4>2, <3>1
    <3>3. CASE a # 1
      <4>1. e[a] = s[a - 1] /\ a - 1 \in 1..(n - 1) /\ a - 1 < b - 1
        BY <3>3, <2>3, <2>5, <2>7
      <4>2. s[a - 1] < s[b - 1]
        BY <4>1, <3>1, <2>2, <2>3
      <4>. QED  BY <4>1, <4>2, <3>1
    <3>. QED  BY <3>2, <3>3
  <2>. HIDE DEF e
  <2>8. Sorts(e, T)
    BY <2>6, <2>7 DEF n
  <2>. QED  BY <2>8
<1>3. S \in Good
  <2>. HIDE DEF Good
  <2>. QED  BY <1>1, <1>2, SetInduction
<1>4. PICK s : Sorts(s, S)
  BY <1>3
<1>5. \E r \in [1..Cardinality(S) -> S] : \A a, b \in DOMAIN r : a < b => r[a] < r[b]
  <2>1. s \in [1..Cardinality(S) -> S] /\ DOMAIN s = 1..Cardinality(S)
    BY <1>4
  <2>. QED  BY <2>1, <1>4
<1>6. /\ InOrder(S) \in [1..Cardinality(S) -> S]
      /\ \A a, b \in DOMAIN InOrder(S) : a < b => InOrder(S)[a] < InOrder(S)[b]
  BY <1>5 DEF InOrder
<1>. QED  BY <1>6, <1>0

\* A finite set can be listed.
LEMMA Enumerated ==
  ASSUME NEW S, IsFiniteSet(S)
  PROVE  SetToSeq(S) \in [1..Cardinality(S) -> S] /\ Cardinality(S) \in Nat
<1>1. Cardinality(S) \in Nat /\ ExistsBijection(1..Cardinality(S), S)
  BY FS_CardinalityType
<1>2. PICK f \in Bijection(1..Cardinality(S), S) : TRUE
  BY <1>1 DEF ExistsBijection
<1>3. f \in [1..Cardinality(S) -> S] /\ IsInjective(f)
  BY <1>2 DEF Bijection, Injection, IsInjective
<1>. QED  BY <1>1, <1>3 DEF SetToSeq

PassesFor(j) == {q \in PassRecords : IsPass(q, j)}

\* A pass on one device after the other, and one on the NPU.
LEMMA PlansTyped ==
  /\ IsPlan(OnNpu)
  /\ \A mu, mu_th : \A concurrent \in BOOLEAN :
       /\ IsPlan(Route(mu, mu_th, concurrent))
       /\ Route(mu, mu_th, concurrent).split_attention = FALSE
       /\ Route(mu, mu_th, concurrent).fc_device \in Devices
BY DEF OnNpu, Route, Devices, IsPlan

\* A forward of a driver that does not promise to keep attention in the bank.
LEMMA ForwardIsPass ==
  ASSUME NEW j, IsModel(j.model), NEW m \in Positive, NEW ctx \in Positive,
         NEW head_m \in Positive, NEW router \in Routers, NEW plan, IsPlan(plan),
         j.driver = "capim" /\ ~j.cfg.all_npu => Banked(plan, router),
         j.driver = "lp_spec" =>
           plan.exec_model = "CONCURRENT" /\ plan.split_attention = TRUE
  PROVE  Forward(j.model, m, ctx, head_m, router, plan) \in PassesFor(j)
<1>. DEFINE q == Forward(j.model, m, ctx, head_m, router, plan)
<1>1. IsForward(q, j.model, plan, router)
  BY ForwardTyped
<1>. HIDE DEF q
<1>2. IsPass(q, j)
  BY <1>1 DEF IsPass, IsForward, SplitsAll
<1>. QED  BY <1>1, <1>2 DEF PassesFor, IsForward, q

\* A draft of a driver that does not promise to keep attention in the bank.
LEMMA ListIsPass ==
  ASSUME NEW j, NEW list \in Seq(Layers), Len(list) > 0, NEW router \in Routers,
         NEW exec \in {"SEQUENTIAL", "CONCURRENT"},
         \/ j.driver # "capim" \/ j.cfg.all_npu \/ j.cfg.draft_device # "pim"
         \/ exec = "SEQUENTIAL" /\ router["MATMUL"] = "PIM",
         j.driver = "lp_spec" => exec = "CONCURRENT" /\ list[1].type = "FC"
  PROVE  ListPass(Tag(list, router), exec) \in PassesFor(j)
<1>. DEFINE q == ListPass(Tag(list, router), exec)
<1>1. /\ q \in PassRecords /\ Len(q.block) > 0 /\ ~q.forward /\ q.head = <<>>
      /\ q.exec_model = exec /\ q.split_attention = TRUE
      /\ q.block[1].type = list[1].type
      /\ exec = "SEQUENTIAL" /\ router["MATMUL"] = "PIM" =>
           InBank(q, q.block) /\ InBank(q, q.head)
  BY ListPassTyped
<1>. HIDE DEF q
<1>2. IsPass(q, j)
  BY <1>1 DEF IsPass, SplitsAll
<1>. QED  BY <1>1, <1>2 DEF PassesFor, q

\* Every forward of the autoregressive baseline is a pass.
LEMMA ArTyped ==
  ASSUME NEW j, IsJob(j), j.driver = "ar"
  PROVE  ArPasses(j.model, j.step) \in Seq(PassesFor(j))
<1>. DEFINE n == j.step.accepted_length + 1
            F(k) == Forward(j.model, 1, j.step.context_length + k - 1, 1, RouterAllNpu, OnNpu)
<1>1. IsModel(j.model) /\ j.step.context_length \in Positive /\ n \in Nat /\ 1 \in Positive
  BY DEF IsJob, Positive
<1>2. ASSUME NEW k \in 1..n
      PROVE  F(k) \in PassesFor(j)
  <2>. DEFINE c == j.step.context_length
  <2>1. c \in Nat /\ c # 0 /\ k \in Nat /\ k >= 1
    BY <1>1 DEF Positive
  <2>. HIDE DEF n, c
  <2>2. c + k - 1 \in Positive
    BY <2>1 DEF Positive
  <2>. USE DEF c
  <2>. QED  BY <2>2, <1>1, ForwardIsPass, PlansTyped, RoutersLegal
<1>3. ArPasses(j.model, j.step) = [k \in 1..n |-> F(k)]
  BY DEF ArPasses
<1>. HIDE DEF F, n
<1>. QED  BY <1>1, <1>2, <1>3

\* So are the two of an LP-Spec step.
LEMMA LpSpecTyped ==
  ASSUME NEW j, IsJob(j), j.driver = "lp_spec"
  PROVE  LpSpecPasses(j.model, j.step, j.m, j.medusa_num_heads) \in Seq(PassesFor(j))
<1>. DEFINE draft == build_medusa_draft(j.model, j.medusa_num_heads)
            split == [exec_model |-> "CONCURRENT", split_attention |-> TRUE]
<1>1. /\ IsModel(j.model) /\ j.step.context_length \in Positive /\ j.m \in Positive
      /\ j.medusa_num_heads \in Positive
  BY DEF IsJob
<1>2. draft \in Seq(Layers) /\ Len(draft) > 0 /\ draft[1].type = "FC"
  BY <1>1, MedusaLayers
<1>. HIDE DEF draft
<1>3. ListPass(Tag(draft, RouterAllNpu), "CONCURRENT") \in PassesFor(j)
  BY <1>2, RoutersLegal, ListIsPass
<1>4. IsPlan(split) /\ split.exec_model = "CONCURRENT" /\ split.split_attention = TRUE
  BY DEF IsPlan
<1>. HIDE DEF split
<1>5. Forward(j.model, j.m, j.step.context_length, j.m, RouterAllNpu, split) \in PassesFor(j)
  BY <1>1, <1>4, RoutersLegal, ForwardIsPass
<1>. QED  BY <1>3, <1>5 DEF LpSpecPasses, draft, split

\* So is every prompt's prefill.
LEMMA PrefillTyped ==
  ASSUME NEW j, IsJob(j), j.driver = "prefill"
  PROVE  PrefillPasses(j.model, j.steps) \in Seq(PassesFor(j))
<1>. DEFINE Q == {j.steps[s].prompt_id : s \in DOMAIN j.steps}
            prompts == SetToSeq(Q)
            cs(q) == {j.steps[s].context_length :
                        s \in {s \in DOMAIN j.steps : j.steps[s].prompt_id = q}}
            len(q) == CHOOSE c \in cs(q) : \A c2 \in cs(q) : c <= c2
            F(k) == Forward(j.model, len(prompts[k]), len(prompts[k]), 1, RouterAllNpu, OnNpu)
<1>1. /\ IsModel(j.model) /\ IsFiniteSet(DOMAIN j.steps) /\ 1 \in Positive
      /\ \A s \in DOMAIN j.steps : j.steps[s].context_length \in Positive
  BY DEF IsJob, Positive
<1>2. IsFiniteSet(Q)
  <2>. DEFINE f == [s \in DOMAIN j.steps |-> j.steps[s].prompt_id]
  <2>1. f \in Surjection(DOMAIN j.steps, Q)
    BY DEF Surjection
  <2>. QED  BY <2>1, <1>1, FS_Surjection
<1>3. prompts \in [1..Cardinality(Q) -> Q] /\ Cardinality(Q) \in Nat
  <2>. HIDE DEF Q
  <2>. QED  BY <1>2, Enumerated
<1>4. ASSUME NEW q \in Q
      PROVE  len(q) \in Positive
  <2>1. cs(q) # {} /\ cs(q) \subseteq Positive /\ cs(q) \in SUBSET Nat
    BY <1>1 DEF Positive
  <2>. HIDE DEF cs
  <2>2. \E c \in cs(q) : \A c2 \in cs(q) : c <= c2
    BY <2>1, LeastNatural
  <2>3. len(q) \in cs(q)
    BY <2>2
  <2>. QED  BY <2>1, <2>3
<1>5. PrefillPasses(j.model, j.steps) = [k \in DOMAIN prompts |-> F(k)]
  BY DEF PrefillPasses
<1>. HIDE DEF Q, len, prompts
<1>6. ASSUME NEW k \in 1..Cardinality(Q)
      PROVE  F(k) \in PassesFor(j)
  <2>1. len(prompts[k]) \in Positive
    BY <1>3, <1>4
  <2>. QED  BY <2>1, <1>1, ForwardIsPass, PlansTyped, RoutersLegal
<1>7. DOMAIN prompts = 1..Cardinality(Q)
  BY <1>3
<1>. HIDE DEF F
<1>. QED  BY <1>3, <1>5, <1>6, <1>7

\* So are the drafted depths and the verify of a CAPIM step.
LEMMA CapimTyped ==
  ASSUME NEW j, IsJob(j), j.driver = "capim"
  PROVE  CapimPasses(j.model, j.step, j.cfg) \in Seq(PassesFor(j))
<1>. DEFINE sigma == j.cfg.sigma_th
            npu == DraftOnNpu(j.cfg)
            G == Generated(j.step, sigma)
            depth(k) == j.step.nodes[k].depth
            D == {depth(k) : k \in G}
            gen == DraftCost(j.step, sigma, npu)
            depths == InOrder(D)
            router == IF npu THEN RouterAllNpu ELSE RouterEagleDraft
            draft(k) == build_eagle_draft_step(j.model, gen[depths[k]].width, gen[depths[k]].ctx)
            v == Verify(j.step, j.cfg)
            F == Forward(j.model, v.m, v.ctx, v.m,
                         IF j.cfg.all_npu THEN RouterAllNpu ELSE RouterCapimVerify(v.plan.fc_device),
                         v.plan)
<1>1. /\ IsModel(j.model) /\ j.step.context_length \in Positive
      /\ IsFiniteSet(DOMAIN j.step.nodes)
      /\ \A k \in DOMAIN j.step.nodes : depth(k) \in Nat
      /\ j.cfg.all_npu \in BOOLEAN /\ j.cfg.concurrent_verify \in BOOLEAN
  BY DEF IsJob
<1>2. G \subseteq DOMAIN j.step.nodes /\ IsFiniteSet(G)
  <2>1. G \subseteq DOMAIN j.step.nodes
    BY DEF Generated
  <2>. QED  BY <2>1, <1>1, FS_Subset
<1>3. D \in SUBSET Nat /\ IsFiniteSet(D)
  <2>. DEFINE f == [k \in G |-> depth(k)]
  <2>. HIDE DEF G, depth
  <2>1. f \in Surjection(G, D)
    BY DEF Surjection
  <2>2. IsFiniteSet(D)
    <3>. HIDE DEF D, f
    <3>. QED  BY <2>1, <1>2, FS_Surjection
  <2>. QED  BY <2>2, <1>1, <1>2
<1>4. /\ gen = [d \in D |->
         [width |-> Cardinality({k \in G : depth(k) = d}), ctx |-> j.step.context_length + d,
          fc |-> IF npu THEN "NPU" ELSE "PIM"]]
  BY DEF DraftCost, GeneratedByDepth
<1>5. ASSUME NEW d \in D
      PROVE  gen[d].width \in Positive /\ gen[d].ctx \in Positive
  <2>. DEFINE W == {k \in G : depth(k) = d}
  <2>1. W # {} /\ W \subseteq G
    OBVIOUS
  <2>. HIDE DEF gen, W
  <2>2. IsFiniteSet(W) /\ Cardinality(W) \in Nat
    BY <2>1, <1>2, FS_Subset, FS_CardinalityType
  <2>3. Cardinality(W) # 0
    BY <2>1, <2>2, FS_EmptySet
  <2>4. gen[d].width = Cardinality(W) /\ gen[d].ctx = j.step.context_length + d
    <3>. HIDE DEF G, depth, D
    <3>. QED  BY <1>4 DEF W
  <2>5. d \in Nat
    BY <1>3
  <2>. QED  BY <2>2, <2>3, <2>4, <2>5, <1>1 DEF Positive
<1>6. depths \in [1..Cardinality(D) -> D] /\ Cardinality(D) \in Nat
  <2>. HIDE DEF D
  <2>. QED  BY <1>3, Listed
<1>7. npu \in BOOLEAN /\ (~j.cfg.all_npu /\ j.cfg.draft_device = "pim" => npu = FALSE)
  BY <1>1 DEF DraftOnNpu
<1>8. router \in Routers /\ (npu = FALSE => router["MATMUL"] = "PIM")
  BY <1>7, RoutersLegal
<1>. DEFINE L == [k \in 1..Cardinality(D) |-> ListPass(Tag(draft(k), router), "SEQUENTIAL")]
<1>9. ASSUME NEW k \in 1..Cardinality(D)
      PROVE  ListPass(Tag(draft(k), router), "SEQUENTIAL") \in PassesFor(j)
  <2>1. gen[depths[k]].width \in Positive /\ gen[depths[k]].ctx \in Positive
    <3>. HIDE DEF D, depths, gen
    <3>. QED  BY <1>5, <1>6
  <2>. HIDE DEF D, depths, gen, router
  <2>2. draft(k) \in Seq(Layers) /\ Len(draft(k)) > 0
    BY <2>1, <1>1, EagleLayers
  <2>. HIDE DEF draft, npu
  <2>. QED  BY <2>2, <1>7, <1>8, ListIsPass
<1>10. L \in Seq(PassesFor(j))
  <2>. HIDE DEF D, draft, router
  <2>. QED  BY <1>6, <1>9
<1>11. F \in PassesFor(j)
  <2>. DEFINE mu == Mu(j.step, sigma)
              place == IF j.cfg.all_npu THEN RouterAllNpu ELSE RouterCapimVerify(v.plan.fc_device)
  <2>1. mu \in Positive
    <3>1. PruneTree(j.step, sigma) \subseteq DOMAIN j.step.nodes
      BY DEF PruneTree
    <3>2. Cardinality(PruneTree(j.step, sigma)) \in Nat
      BY <3>1, <1>1, FS_Subset, FS_CardinalityType
    <3>. QED  BY <3>2 DEF Mu, AtLeastOne, Positive
  <2>2. /\ v.m = mu /\ v.ctx = j.step.context_length
        /\ v.plan = IF j.cfg.all_npu
              THEN [exec_model |-> "SEQUENTIAL", fc_device |-> "NPU", split_attention |-> FALSE]
              ELSE Route(mu, j.cfg.mu_th, j.cfg.concurrent_verify)
    BY DEF Verify
  <2>. HIDE DEF v, mu
  <2>3. IsPlan(v.plan) /\ v.plan.split_attention = FALSE /\ v.plan.fc_device \in Devices
    <3>1. CASE j.cfg.all_npu
      <4>1. v.plan = [exec_model |-> "SEQUENTIAL", fc_device |-> "NPU", split_attention |-> FALSE]
        BY <3>1, <2>2
      <4>. QED  BY <4>1 DEF Devices, IsPlan
    <3>2. CASE ~j.cfg.all_npu
      <4>1. v.plan = Route(mu, j.cfg.mu_th, j.cfg.concurrent_verify)
        BY <3>2, <2>2
      <4>. QED  BY <4>1, <1>1, PlansTyped
    <3>. QED  BY <3>1, <3>2
  <2>4. place \in Routers /\ (~j.cfg.all_npu => place["MATMUL"] = "PIM")
    BY <2>3, RoutersLegal
  <2>6. j.driver = "capim" /\ ~j.cfg.all_npu => Banked(v.plan, place)
    BY <2>3, <2>4 DEF Banked
  <2>. HIDE DEF place
  <2>5. Forward(j.model, v.m, v.ctx, v.m, place, v.plan) \in PassesFor(j)
    BY <2>1, <2>2, <2>3, <2>4, <2>6, <1>1, ForwardIsPass
  <2>. QED  BY <2>5 DEF place
<1>12. CapimPasses(j.model, j.step, j.cfg) = L \o <<F>>
  <2>1. DOMAIN gen = D /\ DOMAIN depths = 1..Cardinality(D)
    <3>. HIDE DEF D, depths, gen
    <3>. QED  BY <1>4, <1>6
  <2>2. CapimPasses(j.model, j.step, j.cfg) =
          [k \in DOMAIN InOrder(DOMAIN gen) |->
             ListPass(Tag(build_eagle_draft_step(j.model, gen[InOrder(DOMAIN gen)[k]].width,
                                                 gen[InOrder(DOMAIN gen)[k]].ctx), router),
                      "SEQUENTIAL")] \o <<F>>
    BY DEF CapimPasses
  <2>. HIDE DEF D, gen, router, F
  <2>. QED  BY <2>1, <2>2
<1>13. <<F>> \in Seq(PassesFor(j))
  BY <1>11
<1>. HIDE DEF F, L
<1>. QED  BY <1>10, <1>12, <1>13, ConcatProperties

\* Every driver orders passes that are well placed.
LEMMA PassesTyped ==
  ASSUME NEW j, IsJob(j)
  PROVE  Passes(j) \in Seq(PassesFor(j))
<1>1. j.driver \in {"ar", "capim", "lp_spec", "prefill"}
  BY DEF IsJob
<1>2. CASE j.driver = "ar"
  BY <1>2, ArTyped DEF Passes
<1>3. CASE j.driver = "capim"
  BY <1>3, CapimTyped DEF Passes
<1>4. CASE j.driver = "lp_spec"
  BY <1>4, LpSpecTyped DEF Passes
<1>5. CASE j.driver = "prefill"
  BY <1>5, PrefillTyped DEF Passes
<1>. QED  BY <1>1, <1>2, <1>3, <1>4, <1>5

-----------------------------------------------------------------------------
(* Charges and ledgers.                                                    *)

\* A charge the devices accept.
Charges ==
  {x \in [on : {"NPU", "PIM", "BOTH", "GATHER"}, layer : PlacedLayers] :
     x.on # "NPU" => x.layer.type \in {"FC", "MATMUL"}}
    \cup [on : {"BUS"}, bytes : Nat]

Kinds == LayerTypes \cup {"COMM"}

\* What a charge is, and where it keeps a device busy.
IsCharge(x, on, devices, type) ==
  /\ x \in Charges /\ x.on = on /\ BusyDuring(x) = devices /\ TypeOf(x) = type
  /\ devices \subseteq Devices /\ type \in Kinds

\* The charges of a placed layer.
LEMMA KernelIs ==
  ASSUME NEW l \in PlacedLayers
  PROVE  /\ IsCharge(Kernel(l, "NPU"), "NPU", {"NPU"}, l.type)
         /\ IsCharge(Kernel(l, l.device), l.device, {l.device}, l.type)
         /\ l.device \in Devices /\ l.type \in LayerTypes
         /\ l.type \in {"FC", "MATMUL"} =>
              /\ IsCharge(Kernel(l, "PIM"), "PIM", {"PIM"}, l.type)
              /\ IsCharge(Split(l), "BOTH", Devices, l.type)
              /\ IsCharge(Gather(l), "GATHER", {"PIM"}, "COMM")
<1>1. /\ l.type \in LayerTypes /\ l.device \in Devices
      /\ l.device = "PIM" => l.type \in {"FC", "MATMUL"}
  BY DEF PlacedLayers
<1>2. \A dev \in Devices : (dev = "PIM" => l.type \in {"FC", "MATMUL"}) =>
        IsCharge(Kernel(l, dev), dev, {dev}, l.type)
  BY <1>1 DEF IsCharge, Kernel, NpuCost, PimCost, Charges, Kinds, TypeOf, BusyDuring, Devices
<1>3. l.type \in {"FC", "MATMUL"} => IsCharge(Split(l), "BOTH", Devices, l.type)
  BY <1>1 DEF IsCharge, Split, Charges, Kinds, TypeOf, BusyDuring, Devices
<1>4. l.type \in {"FC", "MATMUL"} => IsCharge(Gather(l), "GATHER", {"PIM"}, "COMM")
  BY <1>1 DEF IsCharge, Gather, Charges, Kinds, TypeOf, BusyDuring, Devices
<1>. QED  BY <1>1, <1>2, <1>3, <1>4 DEF Devices

\* The charge of a transfer.
LEMMA TransferIs ==
  ASSUME NEW bytes \in Nat
  PROVE  IsCharge(Transfer(bytes), "BUS", {"PIM"}, "COMM")
BY DEF IsCharge, Transfer, Charges, Kinds, TypeOf, BusyDuring, Devices

\* Every charge is one of these.
LEMMA ChargeTyped ==
  ASSUME NEW x \in Charges
  PROVE  /\ x.on \in {"NPU", "PIM", "BOTH", "GATHER", "BUS"} /\ TypeOf(x) \in Kinds
         /\ BusyDuring(x) \subseteq Devices
         /\ x.on # "BUS" => x.layer \in PlacedLayers
         /\ x.on \in {"NPU", "PIM", "BOTH"} => TypeOf(x) \in LayerTypes /\ TypeOf(x) = x.layer.type
         /\ x.on \in {"PIM", "BOTH"} => x.layer.type \in {"FC", "MATMUL"}
         /\ x.on \in {"BUS", "GATHER"} => TypeOf(x) = "COMM"
<1>1. CASE x \in [on : {"BUS"}, bytes : Nat]
  BY <1>1 DEF TypeOf, BusyDuring, Devices, Kinds
<1>2. CASE x \in [on : {"NPU", "PIM", "BOTH", "GATHER"}, layer : PlacedLayers]
  <2>1. x.on \in {"NPU", "PIM", "BOTH", "GATHER"} /\ x.layer \in PlacedLayers
        /\ (x.on # "NPU" => x.layer.type \in {"FC", "MATMUL"})
    BY <1>2 DEF Charges
  <2>2. x.layer.type \in LayerTypes
    BY <2>1 DEF PlacedLayers
  <2>. QED  BY <2>1, <2>2 DEF TypeOf, BusyDuring, Devices, Kinds
<1>. QED  BY <1>1, <1>2 DEF Charges

Money == BagsOf(Charges)

Ledgers ==
  [time_s : Money, energy_j : Money, time_by_device : [Devices -> Money],
   time_by_type : [Kinds -> Money], crossings : Nat,
   split_t_npu_bound : Money, split_t_pim_bound : Money]

\* A bag scaled.
LEMMA TimesBag ==
  ASSUME NEW b \in Money, NEW n \in Nat
  PROVE  Times(b, n) \in Money /\ \A y : Copies(Times(b, n), y) = n * Copies(b, y)
<1>. DEFINE D == IF n = 0 THEN {} ELSE DOMAIN b
            s == [c \in D |-> n * b[c]]
<1>1. Times(b, n) = s
  BY DEF Times
<1>2. D \subseteq Charges /\ IsFiniteSet(D) /\ \A y \in D : n # 0 /\ b[y] \in Nat \ {0}
  BY BagTyped, FS_EmptySet DEF Money
<1>3. \A y \in D : n * b[y] \in Nat \ {0}
  <2>1. \A k \in Nat \ {0} : n # 0 => n * k \in Nat \ {0}
    OBVIOUS
  <2>. HIDE DEF D
  <2>. QED  BY <1>2, <2>1
<1>4. s \in Money
  <2>1. DOMAIN s = D /\ s = [y \in DOMAIN s |-> s[y]] /\ \A y \in D : s[y] = n * b[y]
    OBVIOUS
  <2>. HIDE DEF D, s
  <2>. QED  BY <2>1, <1>2, <1>3, BagIs DEF Money
<1>5. \A y : Copies(s, y) = n * Copies(b, y)
  <2>. TAKE y
  <2>1. CASE y \in D
    BY <2>1, <1>2 DEF Copies
  <2>2. CASE y \notin D
    <3>1. Copies(s, y) = 0
      BY <2>2 DEF Copies
    <3>2. n = 0 \/ Copies(b, y) = 0
      BY <2>2 DEF Copies
    <3>3. Copies(b, y) \in Nat
      BY BagTyped DEF Money
    <3>. QED  BY <3>1, <3>2, <3>3
  <2>. QED  BY <2>1, <2>2
<1>. QED  BY <1>1, <1>4, <1>5

\* n copies of a charge.
LEMMA EntryBag ==
  ASSUME NEW x \in Charges, NEW n \in Nat
  PROVE  /\ Times(One(x), n) \in Money
         /\ \A y : Copies(Times(One(x), n), y) = IF y = x THEN n ELSE 0
<1>1. One(x) \in Money /\ \A y : Copies(One(x), y) = IF y = x THEN 1 ELSE 0
  BY BagOne DEF One, Money
<1>. QED  BY <1>1, TimesBag

\* Two bags of charges, added.
LEMMA MoneyPlus ==
  ASSUME NEW a \in Money, NEW b \in Money
  PROVE  a (+) b \in Money /\ \A y : Copies(a (+) b, y) = Copies(a, y) + Copies(b, y)
BY BagPlus DEF Money

\* A bag of charges with some more of one.
LEMMA MoreCopies ==
  ASSUME NEW b \in Money, NEW x \in Charges, NEW n \in Nat
  PROVE  \A y : /\ Copies(b (+) Times(One(x), n), y) = Copies(b, y) + (IF y = x THEN n ELSE 0)
               /\ Copies(b, y) \in Nat
BY EntryBag, MoneyPlus, BagTyped DEF Money

\* s is c with n charges x more, under the device and the type they belong to.
Entry(s, c, x, n) ==
  /\ s \in Ledgers
  /\ \A y : Copies(s.energy_j, y) = Copies(c.energy_j, y) + (IF y = x THEN n ELSE 0)
  /\ \A y : \A d \in Devices :
       Copies(s.time_by_device[d], y) =
         Copies(c.time_by_device[d], y) + (IF y = x /\ d \in BusyDuring(x) THEN n ELSE 0)
  /\ \A y : \A t \in Kinds :
       Copies(s.time_by_type[t], y) =
         Copies(c.time_by_type[t], y) + (IF y = x /\ t = TypeOf(x) THEN n ELSE 0)
  /\ s.crossings = c.crossings + (IF x.on \in {"BUS", "GATHER"} THEN n ELSE 0)
  /\ \A y : Copies(s.split_t_npu_bound, y) =
       Copies(c.split_t_npu_bound, y)
         + (IF x.on = "BOTH" /\ y = Kernel(x.layer, "NPU") THEN n ELSE 0)

\* The fields of a ledger a charge is entered in.
LEMMA EnterFields ==
  ASSUME NEW c \in Ledgers, NEW x \in Charges, NEW n \in Nat, NEW dev \in Devices,
         NEW type \in Kinds
  PROVE  LET e == Enter(c, x, n, dev, type)
             entry == Times(One(x), n)
         IN  /\ e \in Ledgers
             /\ e.time_s = c.time_s /\ e.energy_j = c.energy_j (+) entry
             /\ \A d \in Devices : e.time_by_device[d] =
                  IF d = dev THEN c.time_by_device[d] (+) entry ELSE c.time_by_device[d]
             /\ \A t \in Kinds : e.time_by_type[t] =
                  IF t = type THEN c.time_by_type[t] (+) entry ELSE c.time_by_type[t]
             /\ e.crossings = c.crossings
             /\ e.split_t_npu_bound = c.split_t_npu_bound
             /\ e.split_t_pim_bound = c.split_t_pim_bound
<1>. DEFINE entry == Times(One(x), n)
            byDevice == [c.time_by_device EXCEPT ![dev] = @ (+) entry]
            byType == [c.time_by_type EXCEPT ![type] = @ (+) entry]
            energy == c.energy_j (+) entry
            e == [c EXCEPT !.energy_j = energy, !.time_by_device = byDevice,
                           !.time_by_type = byType]
<1>1. /\ c.time_by_device \in [Devices -> Money] /\ c.time_by_type \in [Kinds -> Money]
      /\ c.energy_j \in Money
  BY DEF Ledgers
<1>2. entry \in Money
  BY EntryBag
<1>. HIDE DEF entry
<1>3. \A b \in Money : b (+) entry \in Money
  BY <1>2, MoneyPlus
<1>4. byDevice \in [Devices -> Money] /\ \A d \in Devices : byDevice[d] =
        IF d = dev THEN c.time_by_device[d] (+) entry ELSE c.time_by_device[d]
  BY <1>1, <1>3
<1>5. byType \in [Kinds -> Money] /\ \A t \in Kinds : byType[t] =
        IF t = type THEN c.time_by_type[t] (+) entry ELSE c.time_by_type[t]
  BY <1>1, <1>3
<1>6. energy \in Money
  BY <1>1, <1>3
<1>7. Enter(c, x, n, dev, type) = e
  BY DEF Enter, entry, Ledgers
<1>. HIDE DEF byDevice, byType, energy
<1>8. /\ e \in Ledgers /\ e.time_s = c.time_s /\ e.energy_j = energy
      /\ e.time_by_device = byDevice /\ e.time_by_type = byType /\ e.crossings = c.crossings
      /\ e.split_t_npu_bound = c.split_t_npu_bound
      /\ e.split_t_pim_bound = c.split_t_pim_bound
  BY <1>4, <1>5, <1>6 DEF Ledgers
<1>. HIDE DEF e
<1>. QED  BY <1>4, <1>5, <1>7, <1>8 DEF entry, energy

\* What Enter does to the copies of every charge in every breakdown.
LEMMA EnterTyped ==
  ASSUME NEW c \in Ledgers, NEW x \in Charges, NEW n \in Nat, NEW dev \in Devices,
         NEW type \in Kinds, BusyDuring(x) = {dev}, type = TypeOf(x), x.on \in Devices
  PROVE  Entry(Enter(c, x, n, dev, type), c, x, n)
<1>. DEFINE entry == Times(One(x), n)
            e == Enter(c, x, n, dev, type)
<1>1. /\ e \in Ledgers /\ e.energy_j = c.energy_j (+) entry
      /\ \A d \in Devices : e.time_by_device[d] =
           IF d = dev THEN c.time_by_device[d] (+) entry ELSE c.time_by_device[d]
      /\ \A t \in Kinds : e.time_by_type[t] =
           IF t = type THEN c.time_by_type[t] (+) entry ELSE c.time_by_type[t]
      /\ e.crossings = c.crossings /\ e.split_t_npu_bound = c.split_t_npu_bound
  BY EnterFields
<1>2. entry \in Money /\ \A y : Copies(entry, y) = IF y = x THEN n ELSE 0
  BY EntryBag
<1>3. /\ c.energy_j \in Money /\ c.crossings \in Nat
      /\ c.split_t_npu_bound \in Money
      /\ \A d \in Devices : c.time_by_device[d] \in Money
      /\ \A t \in Kinds : c.time_by_type[t] \in Money
  BY DEF Ledgers
<1>. HIDE DEF entry, e
<1>4. \A b \in Money : \A y : /\ Copies(b (+) entry, y) = Copies(b, y) + (IF y = x THEN n ELSE 0)
                              /\ Copies(b, y) \in Nat
  BY <1>2, MoneyPlus, BagTyped DEF Money
<1>5. \A y : Copies(e.energy_j, y) = Copies(c.energy_j, y) + (IF y = x THEN n ELSE 0)
  BY <1>1, <1>3, <1>4
<1>6. \A y : \A d \in Devices :
        Copies(e.time_by_device[d], y) =
          Copies(c.time_by_device[d], y) + (IF y = x /\ d \in BusyDuring(x) THEN n ELSE 0)
  <2>. TAKE y
  <2>. TAKE d \in Devices
  <2>1. Copies(c.time_by_device[d], y) \in Nat
    BY <1>3, <1>4
  <2>2. CASE d = dev
    BY <2>2, <1>1, <1>3, <1>4
  <2>3. CASE d # dev
    BY <2>1, <2>3, <1>1
  <2>. QED  BY <2>2, <2>3
<1>7. \A y : \A t \in Kinds :
        Copies(e.time_by_type[t], y) =
          Copies(c.time_by_type[t], y) + (IF y = x /\ t = TypeOf(x) THEN n ELSE 0)
  <2>. TAKE y
  <2>. TAKE t \in Kinds
  <2>1. Copies(c.time_by_type[t], y) \in Nat
    BY <1>3, <1>4
  <2>2. CASE t = type
    BY <2>2, <1>1, <1>3, <1>4
  <2>3. CASE t # type
    BY <2>1, <2>3, <1>1
  <2>. QED  BY <2>2, <2>3
<1>8. x.on \notin {"BUS", "GATHER"} /\ x.on # "BOTH"
  BY DEF Devices
<1>. QED  BY <1>1, <1>3, <1>4, <1>5, <1>6, <1>7, <1>8 DEF Entry, e

BusWeight == [x \in Charges |-> IF x.on \in {"BUS", "GATHER"} THEN 1 ELSE 0]

\* The breakdowns of a ledger are views of its energy.
Views(c) ==
  /\ \A y \in Charges : \A d \in Devices :
       Copies(c.time_by_device[d], y) = IF d \in BusyDuring(y) THEN Copies(c.energy_j, y) ELSE 0
  /\ \A y \in Charges : \A t \in Kinds :
       Copies(c.time_by_type[t], y) = IF t = TypeOf(y) THEN Copies(c.energy_j, y) ELSE 0
  /\ c.crossings = Weigh(c.energy_j, BusWeight)
  /\ \A y \in Charges :
       Copies(c.split_t_npu_bound, y) =
         IF y.on = "NPU" THEN Copies(c.energy_j, Split(y.layer)) ELSE 0

Sound(c) == c \in Ledgers /\ Views(c)

\* The fields of a ledger.
LEMMA LedgerTyped ==
  ASSUME NEW c \in Ledgers
  PROVE  /\ c.time_s \in Money /\ c.energy_j \in Money /\ c.crossings \in Nat
         /\ c.split_t_npu_bound \in Money /\ c.split_t_pim_bound \in Money
         /\ \A d \in Devices : c.time_by_device[d] \in Money
         /\ \A t \in Kinds : c.time_by_type[t] \in Money
BY DEF Ledgers

\* A crossing is counted per charge on the bus.
LEMMA BusWeightTyped == BusWeight \in [Charges -> Int]
BY DEF BusWeight

\* An entry keeps the breakdowns views.
LEMMA EntrySound ==
  ASSUME NEW c, Sound(c), NEW x \in Charges, NEW n \in Nat, NEW s, Entry(s, c, x, n)
  PROVE  Sound(s)
<1>1. c \in Ledgers /\ s \in Ledgers
  BY DEF Sound, Entry
<1>2. /\ c.energy_j \in Money /\ s.energy_j \in Money
      /\ \A y : Copies(c.energy_j, y) \in Nat /\ Copies(s.energy_j, y) \in Nat
  BY <1>1, LedgerTyped, BagTyped DEF Money
<1>3. \A y : Copies(s.energy_j, y) = Copies(c.energy_j, y) + (IF y = x THEN n ELSE 0)
  BY DEF Entry
<1>4. \A y \in Charges : \A d \in Devices :
        Copies(s.time_by_device[d], y) = IF d \in BusyDuring(y) THEN Copies(s.energy_j, y) ELSE 0
  <2>. TAKE y \in Charges
  <2>. TAKE d \in Devices
  <2>1. Copies(s.time_by_device[d], y) =
          Copies(c.time_by_device[d], y) + (IF y = x /\ d \in BusyDuring(x) THEN n ELSE 0)
    BY DEF Entry
  <2>2. Copies(c.time_by_device[d], y) = IF d \in BusyDuring(y) THEN Copies(c.energy_j, y) ELSE 0
    BY DEF Sound, Views
  <2>. QED  BY <2>1, <2>2, <1>2, <1>3
<1>5. \A y \in Charges : \A t \in Kinds :
        Copies(s.time_by_type[t], y) = IF t = TypeOf(y) THEN Copies(s.energy_j, y) ELSE 0
  <2>. TAKE y \in Charges
  <2>. TAKE t \in Kinds
  <2>1. Copies(s.time_by_type[t], y) =
          Copies(c.time_by_type[t], y) + (IF y = x /\ t = TypeOf(x) THEN n ELSE 0)
    BY DEF Entry
  <2>2. Copies(c.time_by_type[t], y) = IF t = TypeOf(y) THEN Copies(c.energy_j, y) ELSE 0
    BY DEF Sound, Views
  <2>. QED  BY <2>1, <2>2, <1>2, <1>3
<1>6. s.crossings = Weigh(s.energy_j, BusWeight)
  <2>. DEFINE e == Times(One(x), n)
  <2>1. e \in Money /\ \A y : Copies(e, y) = IF y = x THEN n ELSE 0
    BY EntryBag
  <2>. HIDE DEF e
  <2>2. Weigh(e, BusWeight) = n * BusWeight[x]
    BY <2>1, BusWeightTyped, WeighOne DEF Money
  <2>3. Weigh(s.energy_j, BusWeight) = Weigh(c.energy_j, BusWeight) + Weigh(e, BusWeight)
    <3>1. \A y \in Charges : Copies(s.energy_j, y) = Copies(c.energy_j, y) + Copies(e, y)
      BY <1>3, <2>1
    <3>. QED  BY <3>1, <1>2, <2>1, BusWeightTyped, WeighPlus DEF Money
  <2>4. n * BusWeight[x] = IF x.on \in {"BUS", "GATHER"} THEN n ELSE 0
    BY DEF BusWeight
  <2>5. s.crossings = c.crossings + (IF x.on \in {"BUS", "GATHER"} THEN n ELSE 0)
    BY DEF Entry
  <2>6. c.crossings = Weigh(c.energy_j, BusWeight)
    BY DEF Sound, Views
  <2>. QED  BY <2>2, <2>3, <2>4, <2>5, <2>6
<1>7. \A y \in Charges :
        Copies(s.split_t_npu_bound, y) =
          IF y.on = "NPU" THEN Copies(s.energy_j, Split(y.layer)) ELSE 0
  <2>. TAKE y \in Charges
  <2>. DEFINE old == Copies(c.split_t_npu_bound, y)
              more == IF x.on = "BOTH" /\ y = Kernel(x.layer, "NPU") THEN n ELSE 0
  <2>1. Copies(s.split_t_npu_bound, y) = old + more
    BY DEF Entry
  <2>2. old = IF y.on = "NPU" THEN Copies(c.energy_j, Split(y.layer)) ELSE 0
    BY DEF Sound, Views
  <2>3. CASE y.on # "NPU"
    <3>1. y # Kernel(x.layer, "NPU")
      BY <2>3 DEF Kernel, NpuCost, PimCost
    <3>. QED  BY <3>1, <2>1, <2>2, <2>3
  <2>4. CASE y.on = "NPU"
    <3>1. x.on = "BOTH" /\ y = Kernel(x.layer, "NPU") <=> x = Split(y.layer)
      <4>1. y = [on |-> y.on, layer |-> y.layer]
        BY <2>4 DEF Charges
      <4>2. x.on = "BOTH" => x = [on |-> x.on, layer |-> x.layer]
        BY DEF Charges
      <4>. QED  BY <4>1, <4>2, <2>4 DEF Kernel, NpuCost, PimCost, Split
    <3>2. Copies(s.energy_j, Split(y.layer)) =
            Copies(c.energy_j, Split(y.layer)) + (IF Split(y.layer) = x THEN n ELSE 0)
      BY <1>3
    <3>. QED  BY <3>1, <3>2, <2>1, <2>2, <2>4
  <2>. QED  BY <2>3, <2>4
<1>. QED  BY <1>1, <1>4, <1>5, <1>6, <1>7 DEF Sound, Views

\* Nothing costs nothing.
LEMMA ZeroSound == Sound(Zero) /\ Zero.time_s = Zero.energy_j /\ Zero.energy_j = EmptyBag
<1>1. EmptyBag \in Money /\ \A y : Copies(EmptyBag, y) = 0
  BY BagEmpty DEF Money
<1>. DEFINE byDevice == [d \in Devices |-> EmptyBag]
            byType == [t \in Kinds |-> EmptyBag]
<1>2. byDevice \in [Devices -> Money] /\ byType \in [Kinds -> Money]
  BY <1>1
<1>3. /\ Zero.time_s = EmptyBag /\ Zero.energy_j = EmptyBag
      /\ Zero.time_by_device = byDevice /\ Zero.time_by_type = byType
      /\ Zero.crossings = 0 /\ Zero.split_t_npu_bound = EmptyBag
  BY DEF Zero, Kinds
<1>4. Zero \in Ledgers
  <2>1. Zero = [time_s |-> EmptyBag, energy_j |-> EmptyBag, time_by_device |-> byDevice,
                time_by_type |-> byType, crossings |-> 0, split_t_npu_bound |-> EmptyBag,
                split_t_pim_bound |-> EmptyBag]
    BY DEF Zero, Kinds
  <2>. HIDE DEF byDevice, byType
  <2>. QED  BY <1>1, <1>2, <2>1 DEF Ledgers
<1>5. /\ \A d \in Devices : Zero.time_by_device[d] = EmptyBag
      /\ \A t \in Kinds : Zero.time_by_type[t] = EmptyBag
  BY <1>3
<1>6. Views(Zero)
  BY <1>1, <1>3, <1>5, WeighEmpty DEF Views
<1>. QED  BY <1>3, <1>4, <1>6 DEF Sound

\* Ledgers are added up field by field.
LEMMA MergeSound ==
  ASSUME NEW a, Sound(a), NEW b, Sound(b)
  PROVE  /\ Sound(Merge(a, b))
         /\ Merge(a, b).time_s = a.time_s (+) b.time_s
         /\ Merge(a, b).energy_j = a.energy_j (+) b.energy_j
<1>. DEFINE s == Merge(a, b)
            byDevice == [d \in Devices |-> a.time_by_device[d] (+) b.time_by_device[d]]
            byType == [t \in Kinds |-> a.time_by_type[t] (+) b.time_by_type[t]]
<1>1. a \in Ledgers /\ b \in Ledgers
  BY DEF Sound
<1>2. /\ \A m \in Money : \A y : Copies(m, y) \in Nat
      /\ \A m, k \in Money : /\ m (+) k \in Money
                             /\ \A y : Copies(m (+) k, y) = Copies(m, y) + Copies(k, y)
  BY MoneyPlus, BagTyped DEF Money
<1>3. byDevice \in [Devices -> Money] /\ byType \in [Kinds -> Money]
  BY <1>1, <1>2, LedgerTyped
<1>4. s = [time_s |-> a.time_s (+) b.time_s, energy_j |-> a.energy_j (+) b.energy_j,
           time_by_device |-> byDevice, time_by_type |-> byType,
           crossings |-> a.crossings + b.crossings,
           split_t_npu_bound |-> a.split_t_npu_bound (+) b.split_t_npu_bound,
           split_t_pim_bound |-> a.split_t_pim_bound (+) b.split_t_pim_bound]
  <2>1. DOMAIN a.time_by_type = Kinds
    BY <1>1 DEF Ledgers
  <2>. QED  BY <2>1 DEF Merge
<1>. HIDE DEF byDevice, byType, s
<1>5. s \in Ledgers
  BY <1>1, <1>2, <1>3, <1>4, LedgerTyped DEF Ledgers
<1>6. \A y : Copies(s.energy_j, y) = Copies(a.energy_j, y) + Copies(b.energy_j, y)
  BY <1>1, <1>2, <1>4, LedgerTyped
<1>7. \A y \in Charges : \A d \in Devices :
        Copies(s.time_by_device[d], y) = IF d \in BusyDuring(y) THEN Copies(s.energy_j, y) ELSE 0
  <2>. TAKE y \in Charges
  <2>. TAKE d \in Devices
  <2>1. Copies(s.time_by_device[d], y) =
          Copies(a.time_by_device[d], y) + Copies(b.time_by_device[d], y)
    BY <1>1, <1>2, <1>4, LedgerTyped DEF byDevice
  <2>2. /\ Copies(a.time_by_device[d], y) =
             IF d \in BusyDuring(y) THEN Copies(a.energy_j, y) ELSE 0
        /\ Copies(b.time_by_device[d], y) =
             IF d \in BusyDuring(y) THEN Copies(b.energy_j, y) ELSE 0
    BY DEF Sound, Views
  <2>. QED  BY <2>1, <2>2, <1>6
<1>8. \A y \in Charges : \A t \in Kinds :
        Copies(s.time_by_type[t], y) = IF t = TypeOf(y) THEN Copies(s.energy_j, y) ELSE 0
  <2>. TAKE y \in Charges
  <2>. TAKE t \in Kinds
  <2>1. Copies(s.time_by_type[t], y) =
          Copies(a.time_by_type[t], y) + Copies(b.time_by_type[t], y)
    BY <1>1, <1>2, <1>4, LedgerTyped DEF byType
  <2>2. /\ Copies(a.time_by_type[t], y) = IF t = TypeOf(y) THEN Copies(a.energy_j, y) ELSE 0
        /\ Copies(b.time_by_type[t], y) = IF t = TypeOf(y) THEN Copies(b.energy_j, y) ELSE 0
    BY DEF Sound, Views
  <2>. QED  BY <2>1, <2>2, <1>6
<1>9. s.crossings = Weigh(s.energy_j, BusWeight)
  <2>1. Weigh(s.energy_j, BusWeight) = Weigh(a.energy_j, BusWeight) + Weigh(b.energy_j, BusWeight)
    BY <1>1, <1>5, <1>6, LedgerTyped, BusWeightTyped, WeighPlus DEF Money
  <2>2. /\ a.crossings = Weigh(a.energy_j, BusWeight)
        /\ b.crossings = Weigh(b.energy_j, BusWeight)
    BY DEF Sound, Views
  <2>. QED  BY <2>1, <2>2, <1>4
<1>10. \A y \in Charges :
         Copies(s.split_t_npu_bound, y) =
           IF y.on = "NPU" THEN Copies(s.energy_j, Split(y.layer)) ELSE 0
  <2>. TAKE y \in Charges
  <2>1. Copies(s.split_t_npu_bound, y) =
          Copies(a.split_t_npu_bound, y) + Copies(b.split_t_npu_bound, y)
    BY <1>1, <1>2, <1>4, LedgerTyped
  <2>2. /\ Copies(a.split_t_npu_bound, y) =
             IF y.on = "NPU" THEN Copies(a.energy_j, Split(y.layer)) ELSE 0
        /\ Copies(b.split_t_npu_bound, y) =
             IF y.on = "NPU" THEN Copies(b.energy_j, Split(y.layer)) ELSE 0
    BY DEF Sound, Views
  <2>. QED  BY <2>1, <2>2, <1>6
<1>. QED  BY <1>4, <1>5, <1>7, <1>8, <1>9, <1>10 DEF Sound, Views, s

\* A ledger is scaled field by field.
LEMMA ScaleSound ==
  ASSUME NEW a, Sound(a), NEW n \in Nat
  PROVE  /\ Sound(Scale(a, n))
         /\ Scale(a, n).time_s = Times(a.time_s, n)
         /\ Scale(a, n).energy_j = Times(a.energy_j, n)
<1>. DEFINE s == Scale(a, n)
            byDevice == [d \in Devices |-> Times(a.time_by_device[d], n)]
            byType == [t \in Kinds |-> Times(a.time_by_type[t], n)]
<1>1. a \in Ledgers
  BY DEF Sound
<1>2. /\ \A m \in Money : \A y : Copies(m, y) \in Nat
      /\ \A m \in Money : /\ Times(m, n) \in Money
                          /\ \A y : Copies(Times(m, n), y) = n * Copies(m, y)
  BY TimesBag, BagTyped DEF Money
<1>3. byDevice \in [Devices -> Money] /\ byType \in [Kinds -> Money]
  BY <1>1, <1>2, LedgerTyped
<1>4. s = [time_s |-> Times(a.time_s, n), energy_j |-> Times(a.energy_j, n),
           time_by_device |-> byDevice, time_by_type |-> byType,
           crossings |-> a.crossings * n,
           split_t_npu_bound |-> Times(a.split_t_npu_bound, n),
           split_t_pim_bound |-> Times(a.split_t_pim_bound, n)]
  <2>1. DOMAIN a.time_by_type = Kinds
    BY <1>1 DEF Ledgers
  <2>. QED  BY <2>1 DEF Scale
<1>. HIDE DEF byDevice, byType, s
<1>5. s \in Ledgers
  <2>1. a.crossings * n \in Nat
    BY <1>1, LedgerTyped
  <2>. QED  BY <2>1, <1>1, <1>2, <1>3, <1>4, LedgerTyped DEF Ledgers
<1>6. \A y : Copies(s.energy_j, y) = n * Copies(a.energy_j, y)
  BY <1>1, <1>2, <1>4, LedgerTyped
<1>0. n * 0 = 0
  OBVIOUS
<1>7. \A y \in Charges : \A d \in Devices :
        Copies(s.time_by_device[d], y) = IF d \in BusyDuring(y) THEN Copies(s.energy_j, y) ELSE 0
  <2>. TAKE y \in Charges
  <2>. TAKE d \in Devices
  <2>1. Copies(s.time_by_device[d], y) = n * Copies(a.time_by_device[d], y)
    BY <1>1, <1>2, <1>4, LedgerTyped DEF byDevice
  <2>2. Copies(a.time_by_device[d], y) =
          IF d \in BusyDuring(y) THEN Copies(a.energy_j, y) ELSE 0
    BY DEF Sound, Views
  <2>. QED  BY <2>1, <2>2, <1>0, <1>6
<1>8. \A y \in Charges : \A t \in Kinds :
        Copies(s.time_by_type[t], y) = IF t = TypeOf(y) THEN Copies(s.energy_j, y) ELSE 0
  <2>. TAKE y \in Charges
  <2>. TAKE t \in Kinds
  <2>1. Copies(s.time_by_type[t], y) = n * Copies(a.time_by_type[t], y)
    BY <1>1, <1>2, <1>4, LedgerTyped DEF byType
  <2>2. Copies(a.time_by_type[t], y) = IF t = TypeOf(y) THEN Copies(a.energy_j, y) ELSE 0
    BY DEF Sound, Views
  <2>. QED  BY <2>1, <2>2, <1>0, <1>6
<1>9. s.crossings = Weigh(s.energy_j, BusWeight)
  <2>1. Weigh(s.energy_j, BusWeight) = n * Weigh(a.energy_j, BusWeight)
    BY <1>1, <1>5, <1>6, LedgerTyped, BusWeightTyped, WeighTimes DEF Money
  <2>2. a.crossings = Weigh(a.energy_j, BusWeight) /\ a.crossings \in Nat
    BY <1>1, LedgerTyped DEF Sound, Views
  <2>. QED  BY <2>1, <2>2, <1>4
<1>10. \A y \in Charges :
         Copies(s.split_t_npu_bound, y) =
           IF y.on = "NPU" THEN Copies(s.energy_j, Split(y.layer)) ELSE 0
  <2>. TAKE y \in Charges
  <2>1. Copies(s.split_t_npu_bound, y) = n * Copies(a.split_t_npu_bound, y)
    BY <1>1, <1>2, <1>4, LedgerTyped
  <2>2. Copies(a.split_t_npu_bound, y) =
          IF y.on = "NPU" THEN Copies(a.energy_j, Split(y.layer)) ELSE 0
    BY DEF Sound, Views
  <2>. QED  BY <2>1, <2>2, <1>0, <1>6
<1>. QED  BY <1>4, <1>5, <1>7, <1>8, <1>9, <1>10 DEF Sound, Views, s

\* The latency and the all-PIM bound are not among the views.
LEMMA SoundBut ==
  ASSUME NEW c, Sound(c), NEW s \in Ledgers,
         s.energy_j = c.energy_j, s.time_by_device = c.time_by_device,
         s.time_by_type = c.time_by_type, s.crossings = c.crossings,
         s.split_t_npu_bound = c.split_t_npu_bound
  PROVE  Sound(s)
BY DEF Sound, Views

\* A kernel, a nonlinear one or one of a composed-in-sequence list.
LEMMA AddSound ==
  ASSUME NEW c, Sound(c), NEW x, NEW dev \in Devices, NEW type, IsCharge(x, dev, {dev}, type)
  PROVE  /\ Sound(Enter(c, x, 1, dev, type)) /\ Sound(Add(c, x, 1, dev, type))
         /\ Enter(c, x, 1, dev, type).time_s = c.time_s
         /\ Enter(c, x, 1, dev, type).energy_j = c.energy_j (+) Times(One(x), 1)
         /\ Add(c, x, 1, dev, type).time_s = c.time_s (+) Times(One(x), 1)
         /\ Add(c, x, 1, dev, type).energy_j = c.energy_j (+) Times(One(x), 1)
<1>. DEFINE e == Enter(c, x, 1, dev, type)
            t == e.time_s (+) Times(One(x), 1)
            s == [e EXCEPT !.time_s = t]
<1>1. /\ c \in Ledgers /\ x \in Charges /\ x.on = dev /\ BusyDuring(x) = {dev}
      /\ TypeOf(x) = type /\ type \in Kinds /\ 1 \in Nat
  BY DEF Sound, IsCharge
<1>2. Entry(e, c, x, 1)
  BY <1>1, EnterTyped
<1>3. e.time_s = c.time_s /\ e.energy_j = c.energy_j (+) Times(One(x), 1) /\ e \in Ledgers
  BY <1>1, EnterFields
<1>4. Sound(e)
  BY <1>1, <1>2, EntrySound
<1>5. t \in Money
  BY <1>1, <1>3, LedgerTyped, EntryBag, MoneyPlus
<1>6. Add(c, x, 1, dev, type) = s
  BY <1>3 DEF Add, Ledgers
<1>. HIDE DEF e, t
<1>7. /\ s \in Ledgers /\ s.time_s = t /\ s.energy_j = e.energy_j
      /\ s.time_by_device = e.time_by_device /\ s.time_by_type = e.time_by_type
      /\ s.crossings = e.crossings /\ s.split_t_npu_bound = e.split_t_npu_bound
  BY <1>3, <1>5 DEF Ledgers
<1>. HIDE DEF s
<1>8. Sound(s)
  BY <1>4, <1>7, SoundBut
<1>. QED  BY <1>3, <1>4, <1>6, <1>7, <1>8 DEF e, t

\* n transfers, each a crossing.
Cross(c, x, n) == [Add(c, x, n, "PIM", "COMM") EXCEPT !.crossings = @ + n]

\* A crossing keeps the breakdowns views.
LEMMA CrossSound ==
  ASSUME NEW c, Sound(c), NEW x, IsCharge(x, "BUS", {"PIM"}, "COMM"), NEW n \in Nat
  PROVE  /\ Sound(Cross(c, x, n))
         /\ Cross(c, x, n).time_s = c.time_s (+) Times(One(x), n)
         /\ Cross(c, x, n).energy_j = c.energy_j (+) Times(One(x), n)
<1>. DEFINE e == Enter(c, x, n, "PIM", "COMM")
            t == e.time_s (+) Times(One(x), n)
            k == e.crossings + n
            a == [e EXCEPT !.time_s = t]
            s == [a EXCEPT !.crossings = k]
<1>1. /\ c \in Ledgers /\ x \in Charges /\ x.on = "BUS" /\ BusyDuring(x) = {"PIM"}
      /\ TypeOf(x) = "COMM" /\ "COMM" \in Kinds /\ "PIM" \in Devices
  BY DEF Sound, IsCharge, Devices
<1>2. /\ e \in Ledgers /\ e.time_s = c.time_s
      /\ e.energy_j = c.energy_j (+) Times(One(x), n)
      /\ \A d \in Devices : e.time_by_device[d] =
           IF d = "PIM" THEN c.time_by_device[d] (+) Times(One(x), n) ELSE c.time_by_device[d]
      /\ \A d \in Kinds : e.time_by_type[d] =
           IF d = "COMM" THEN c.time_by_type[d] (+) Times(One(x), n) ELSE c.time_by_type[d]
      /\ e.crossings = c.crossings /\ e.split_t_npu_bound = c.split_t_npu_bound
  BY <1>1, EnterFields
<1>3. t \in Money
  BY <1>1, <1>2, LedgerTyped, EntryBag, MoneyPlus
<1>4. k \in Nat /\ k = c.crossings + n
  BY <1>1, <1>2, LedgerTyped
<1>5. Cross(c, x, n) = s
  BY <1>2 DEF Cross, Add, Ledgers
<1>. HIDE DEF e, t, k
<1>6. /\ a \in Ledgers /\ a.time_s = t /\ a.energy_j = e.energy_j
      /\ a.time_by_device = e.time_by_device /\ a.time_by_type = e.time_by_type
      /\ a.crossings = e.crossings /\ a.split_t_npu_bound = e.split_t_npu_bound
  BY <1>2, <1>3 DEF Ledgers
<1>. HIDE DEF a
<1>7. /\ s \in Ledgers /\ s.time_s = t /\ s.energy_j = e.energy_j
      /\ s.time_by_device = e.time_by_device /\ s.time_by_type = e.time_by_type
      /\ s.crossings = k /\ s.split_t_npu_bound = e.split_t_npu_bound
  BY <1>4, <1>6 DEF Ledgers
<1>. HIDE DEF s
<1>8. Entry(s, c, x, n)
  <2>1. \A b \in Money : \A y :
          /\ Copies(b (+) Times(One(x), n), y) = Copies(b, y) + (IF y = x THEN n ELSE 0)
          /\ Copies(b, y) \in Nat
    BY <1>1, EntryBag, MoneyPlus, BagTyped DEF Money
  <2>2. \A y : \A d \in Devices :
          Copies(s.time_by_device[d], y) =
            Copies(c.time_by_device[d], y) + (IF y = x /\ d \in BusyDuring(x) THEN n ELSE 0)
    <3>. TAKE y
    <3>. TAKE d \in Devices
    <3>1. c.time_by_device[d] \in Money
      BY <1>1, LedgerTyped
    <3>2. Copies(c.time_by_device[d], y) \in Nat
      BY <3>1, <2>1
    <3>3. CASE d = "PIM"
      BY <3>1, <3>3, <1>1, <1>2, <1>7, <2>1
    <3>4. CASE d # "PIM"
      BY <3>2, <3>4, <1>1, <1>2, <1>7
    <3>. QED  BY <3>3, <3>4
  <2>3. \A y : \A d \in Kinds :
          Copies(s.time_by_type[d], y) =
            Copies(c.time_by_type[d], y) + (IF y = x /\ d = TypeOf(x) THEN n ELSE 0)
    <3>. TAKE y
    <3>. TAKE d \in Kinds
    <3>1. c.time_by_type[d] \in Money
      BY <1>1, LedgerTyped
    <3>2. Copies(c.time_by_type[d], y) \in Nat
      BY <3>1, <2>1
    <3>3. CASE d = "COMM"
      BY <3>1, <3>3, <1>1, <1>2, <1>7, <2>1
    <3>4. CASE d # "COMM"
      BY <3>2, <3>4, <1>1, <1>2, <1>7
    <3>. QED  BY <3>3, <3>4
  <2>4. \A y : Copies(s.energy_j, y) = Copies(c.energy_j, y) + (IF y = x THEN n ELSE 0)
    BY <1>1, <1>2, <1>7, <2>1, LedgerTyped
  <2>5. \A y : Copies(s.split_t_npu_bound, y) = Copies(c.split_t_npu_bound, y) + 0
    BY <1>1, <1>2, <1>7, <2>1, LedgerTyped
  <2>. QED  BY <1>1, <1>4, <1>7, <2>2, <2>3, <2>4, <2>5 DEF Entry
<1>9. Sound(s)
  BY <1>1, <1>8, EntrySound
<1>. QED  BY <1>2, <1>5, <1>7, <1>9 DEF t

\* n = 1 in Times.
LEMMA OnceIs ==
  ASSUME NEW x \in Charges
  PROVE  One(x) \in Money /\ Times(One(x), 1) = One(x)
<1>1. One(x) \in Money
  BY BagOne DEF One, Money
<1>2. Times(One(x), 1) \in Money /\ \A y : Copies(Times(One(x), 1), y) = 1 * Copies(One(x), y)
  BY <1>1, TimesBag
<1>3. \A y : Copies(One(x), y) \in Nat
  BY <1>1, BagTyped DEF Money
<1>4. \A y \in Charges : Copies(Times(One(x), 1), y) = Copies(One(x), y)
  BY <1>2, <1>3
<1>. QED  BY <1>1, <1>2, <1>4, BagSame DEF Money

\* A pinned kernel is on the all-PIM bound too.
LEMMA PinnedSound ==
  ASSUME NEW c, Sound(c), NEW x, NEW type, IsCharge(x, "PIM", {"PIM"}, type)
  PROVE  LET s == [Enter(c, x, 1, "PIM", type) EXCEPT !.split_t_pim_bound = @ (+) One(x)]
         IN  /\ Sound(s) /\ s.time_s = c.time_s
             /\ s.energy_j = c.energy_j (+) Times(One(x), 1)
<1>. DEFINE e == Enter(c, x, 1, "PIM", type)
            b == e.split_t_pim_bound (+) One(x)
            s == [e EXCEPT !.split_t_pim_bound = b]
<1>1. /\ Sound(e) /\ e.time_s = c.time_s /\ e.energy_j = c.energy_j (+) Times(One(x), 1)
  BY AddSound DEF Devices
<1>2. e \in Ledgers /\ x \in Charges
  BY <1>1 DEF Sound, IsCharge
<1>3. b \in Money
  BY <1>2, LedgerTyped, OnceIs, MoneyPlus
<1>4. [Enter(c, x, 1, "PIM", type) EXCEPT !.split_t_pim_bound = @ (+) One(x)] = s
  BY <1>2 DEF Ledgers
<1>. HIDE DEF e, b
<1>5. /\ s \in Ledgers /\ s.time_s = e.time_s /\ s.energy_j = e.energy_j
      /\ s.time_by_device = e.time_by_device /\ s.time_by_type = e.time_by_type
      /\ s.crossings = e.crossings /\ s.split_t_npu_bound = e.split_t_npu_bound
  BY <1>2, <1>3 DEF Ledgers
<1>. HIDE DEF s
<1>6. Sound(s)
  BY <1>1, <1>5, SoundBut
<1>. QED  BY <1>1, <1>4, <1>5, <1>6

\* A split kernel keeps both devices busy and is on both bounds; its gather is
\* a crossing.
LEMMA SplitSound ==
  ASSUME NEW c, Sound(c), NEW l \in PlacedLayers, l.type \in {"FC", "MATMUL"}
  PROVE  /\ Sound(SplitKernel(c, l)) /\ SplitKernel(c, l).time_s = c.time_s
         /\ SplitKernel(c, l).energy_j =
              (c.energy_j (+) Times(One(Split(l)), 1)) (+) Times(One(Gather(l)), 1)
         /\ SplitKernel(c, l).split_t_pim_bound = c.split_t_pim_bound (+) One(Kernel(l, "PIM"))
<1>. DEFINE x == Split(l)
            y == Gather(l)
            kn == Kernel(l, "NPU")
            kp == Kernel(l, "PIM")
            type == l.type
            e == Enter(c, x, 1, "NPU", type)
            byDevice == [e.time_by_device EXCEPT !["PIM"] = @ (+) One(x)]
            bn == e.split_t_npu_bound (+) One(kn)
            bp == e.split_t_pim_bound (+) One(kp)
            k == [e EXCEPT !.time_by_device = byDevice, !.split_t_npu_bound = bn,
                           !.split_t_pim_bound = bp]
            g == Enter(k, y, 1, "PIM", "COMM")
            n == g.crossings + 1
            s == [g EXCEPT !.crossings = n]
<1>1. /\ IsCharge(x, "BOTH", Devices, type) /\ IsCharge(y, "GATHER", {"PIM"}, "COMM")
      /\ IsCharge(kn, "NPU", {"NPU"}, type) /\ IsCharge(kp, "PIM", {"PIM"}, type)
  BY KernelIs
<1>2. /\ x \in Charges /\ x.on = "BOTH" /\ BusyDuring(x) = Devices /\ TypeOf(x) = type
      /\ y \in Charges /\ y.on = "GATHER" /\ BusyDuring(y) = {"PIM"} /\ TypeOf(y) = "COMM"
      /\ kn \in Charges /\ kp \in Charges /\ type \in Kinds /\ "COMM" \in Kinds
      /\ c \in Ledgers /\ "PIM" \in Devices /\ "NPU" \in Devices /\ 1 \in Nat
  BY <1>1 DEF IsCharge, Sound, Devices
<1>3. x.layer = l
  BY DEF Split
<1>. HIDE DEF type, x, y, kn, kp
<1>4. /\ e \in Ledgers /\ e.time_s = c.time_s /\ e.energy_j = c.energy_j (+) Times(One(x), 1)
      /\ \A d \in Devices : e.time_by_device[d] =
           IF d = "NPU" THEN c.time_by_device[d] (+) Times(One(x), 1) ELSE c.time_by_device[d]
      /\ \A t \in Kinds : e.time_by_type[t] =
           IF t = type THEN c.time_by_type[t] (+) Times(One(x), 1) ELSE c.time_by_type[t]
      /\ e.crossings = c.crossings /\ e.split_t_npu_bound = c.split_t_npu_bound
      /\ e.split_t_pim_bound = c.split_t_pim_bound
  BY <1>2, EnterFields
<1>. HIDE DEF e
<1>5. /\ e.time_by_device \in [Devices -> Money] /\ One(x) \in Money /\ One(kn) \in Money
      /\ One(kp) \in Money /\ Times(One(x), 1) = One(x)
  BY <1>2, <1>4, OnceIs DEF Ledgers
<1>6. bn \in Money /\ bp \in Money
  BY <1>4, <1>5, LedgerTyped, MoneyPlus
<1>7. byDevice \in [Devices -> Money]
      /\ \A d \in Devices : byDevice[d] = c.time_by_device[d] (+) Times(One(x), 1)
  <2>1. \A b \in Money : b (+) One(x) \in Money
    BY <1>5, MoneyPlus
  <2>2. byDevice \in [Devices -> Money]
    BY <1>5, <2>1
  <2>3. \A d \in Devices : byDevice[d] =
          IF d = "PIM" THEN e.time_by_device[d] (+) One(x) ELSE e.time_by_device[d]
    BY <1>5
  <2>4. Devices = {"NPU", "PIM"}
    BY DEF Devices
  <2>. HIDE DEF byDevice
  <2>. QED  BY <2>2, <2>3, <2>4, <1>4, <1>5
<1>. HIDE DEF byDevice, bn, bp
<1>8. /\ k \in Ledgers /\ k.time_s = e.time_s /\ k.energy_j = e.energy_j
      /\ k.time_by_device = byDevice /\ k.time_by_type = e.time_by_type
      /\ k.crossings = e.crossings /\ k.split_t_npu_bound = bn /\ k.split_t_pim_bound = bp
  BY <1>4, <1>6, <1>7 DEF Ledgers
<1>9. [Enter(c, x, 1, "NPU", type) EXCEPT
         !.time_by_device["PIM"] = @ (+) One(x), !.split_t_npu_bound = @ (+) One(kn),
         !.split_t_pim_bound = @ (+) One(kp)] = k
  BY <1>4 DEF e, byDevice, bn, bp, Ledgers
<1>. HIDE DEF k
<1>10. Entry(k, c, x, 1)
  <2>1. \A b \in Money : \A z : \A w \in Charges :
          /\ Copies(b (+) Times(One(w), 1), z) = Copies(b, z) + (IF z = w THEN 1 ELSE 0)
          /\ Copies(b, z) \in Nat
    BY <1>2, MoreCopies
  <2>2. \A z : \A d \in Devices :
          Copies(k.time_by_device[d], z) =
            Copies(c.time_by_device[d], z) + (IF z = x /\ d \in BusyDuring(x) THEN 1 ELSE 0)
    <3>. TAKE z
    <3>. TAKE d \in Devices
    <3>1. c.time_by_device[d] \in Money
      BY <1>2, LedgerTyped
    <3>. QED  BY <3>1, <1>2, <1>7, <1>8, <2>1
  <2>3. \A z : \A t \in Kinds :
          Copies(k.time_by_type[t], z) =
            Copies(c.time_by_type[t], z) + (IF z = x /\ t = TypeOf(x) THEN 1 ELSE 0)
    <3>. TAKE z
    <3>. TAKE t \in Kinds
    <3>1. c.time_by_type[t] \in Money
      BY <1>2, LedgerTyped
    <3>2. Copies(c.time_by_type[t], z) \in Nat
      BY <3>1, <1>2, <2>1
    <3>3. CASE t = type
      BY <3>1, <3>3, <1>2, <1>4, <1>8, <2>1
    <3>4. CASE t # type
      BY <3>2, <3>4, <1>2, <1>4, <1>8
    <3>. QED  BY <3>3, <3>4
  <2>4. \A z : Copies(k.energy_j, z) = Copies(c.energy_j, z) + (IF z = x THEN 1 ELSE 0)
    BY <1>2, <1>4, <1>8, <2>1, LedgerTyped
  <2>5. \A z : Copies(k.split_t_npu_bound, z) =
                 Copies(c.split_t_npu_bound, z) + (IF z = kn THEN 1 ELSE 0)
    <3>1. bn = c.split_t_npu_bound (+) Times(One(kn), 1) /\ c.split_t_npu_bound \in Money
      BY <1>2, <1>4, OnceIs, LedgerTyped DEF bn
    <3>. QED  BY <3>1, <1>2, <1>8, <2>1
  <2>6. k.crossings = c.crossings + 0
    BY <1>2, <1>4, <1>8, LedgerTyped
  <2>7. kn = Kernel(x.layer, "NPU")
    BY <1>3 DEF kn
  <2>. QED  BY <1>2, <1>8, <2>2, <2>3, <2>4, <2>5, <2>6, <2>7 DEF Entry
<1>11. Sound(k)
  BY <1>2, <1>10, EntrySound
<1>12. /\ g \in Ledgers /\ g.time_s = k.time_s /\ g.energy_j = k.energy_j (+) Times(One(y), 1)
       /\ \A d \in Devices : g.time_by_device[d] =
            IF d = "PIM" THEN k.time_by_device[d] (+) Times(One(y), 1) ELSE k.time_by_device[d]
       /\ \A t \in Kinds : g.time_by_type[t] =
            IF t = "COMM" THEN k.time_by_type[t] (+) Times(One(y), 1) ELSE k.time_by_type[t]
       /\ g.crossings = k.crossings /\ g.split_t_npu_bound = k.split_t_npu_bound
       /\ g.split_t_pim_bound = k.split_t_pim_bound
  <2>1. k \in Ledgers /\ y \in Charges /\ "PIM" \in Devices /\ "COMM" \in Kinds /\ 1 \in Nat
    BY <1>2, <1>8
  <2>. QED  BY ONLY <2>1, EnterFields
<1>. HIDE DEF g
<1>13. n \in Nat /\ n = k.crossings + 1
  BY <1>12, LedgerTyped
<1>. HIDE DEF n
<1>14. /\ s \in Ledgers /\ s.time_s = g.time_s /\ s.energy_j = g.energy_j
       /\ s.time_by_device = g.time_by_device /\ s.time_by_type = g.time_by_type
       /\ s.crossings = n /\ s.split_t_npu_bound = g.split_t_npu_bound
       /\ s.split_t_pim_bound = g.split_t_pim_bound
  BY <1>12, <1>13 DEF Ledgers
<1>15. SplitKernel(c, l) = s
  <2>1. SplitKernel(c, l) = [g EXCEPT !.crossings = @ + 1]
    BY <1>9 DEF SplitKernel, g, x, y, kn, kp, type
  <2>. QED  BY <2>1, <1>12 DEF n, Ledgers
<1>. HIDE DEF s
<1>16. Entry(s, k, y, 1)
  <2>1. \A b \in Money : \A z :
          /\ Copies(b (+) Times(One(y), 1), z) = Copies(b, z) + (IF z = y THEN 1 ELSE 0)
          /\ Copies(b, z) \in Nat
    BY <1>2, MoreCopies
  <2>2. \A z : \A d \in Devices :
          Copies(s.time_by_device[d], z) =
            Copies(k.time_by_device[d], z) + (IF z = y /\ d \in BusyDuring(y) THEN 1 ELSE 0)
    <3>. TAKE z
    <3>. TAKE d \in Devices
    <3>1. k.time_by_device[d] \in Money
      BY <1>8, LedgerTyped
    <3>2. Copies(k.time_by_device[d], z) \in Nat
      BY <3>1, <2>1
    <3>3. CASE d = "PIM"
      BY <3>1, <3>3, <1>2, <1>12, <1>14, <2>1
    <3>4. CASE d # "PIM"
      BY <3>2, <3>4, <1>2, <1>12, <1>14
    <3>. QED  BY <3>3, <3>4
  <2>3. \A z : \A t \in Kinds :
          Copies(s.time_by_type[t], z) =
            Copies(k.time_by_type[t], z) + (IF z = y /\ t = TypeOf(y) THEN 1 ELSE 0)
    <3>. TAKE z
    <3>. TAKE t \in Kinds
    <3>1. k.time_by_type[t] \in Money
      BY <1>8, LedgerTyped
    <3>2. Copies(k.time_by_type[t], z) \in Nat
      BY <3>1, <2>1
    <3>3. CASE t = "COMM"
      BY <3>1, <3>3, <1>2, <1>12, <1>14, <2>1
    <3>4. CASE t # "COMM"
      BY <3>2, <3>4, <1>2, <1>12, <1>14
    <3>. QED  BY <3>3, <3>4
  <2>4. \A z : Copies(s.energy_j, z) = Copies(k.energy_j, z) + (IF z = y THEN 1 ELSE 0)
    BY <1>8, <1>12, <1>14, <2>1, LedgerTyped
  <2>5. \A z : Copies(s.split_t_npu_bound, z) = Copies(k.split_t_npu_bound, z) + 0
    BY <1>8, <1>12, <1>14, <2>1, LedgerTyped
  <2>. QED  BY <1>2, <1>13, <1>14, <2>2, <2>3, <2>4, <2>5 DEF Entry
<1>17. Sound(s)
  BY <1>2, <1>11, <1>16, EntrySound
<1>. QED  BY <1>4, <1>8, <1>12, <1>14, <1>15, <1>17 DEF x, y, bp, kp

-----------------------------------------------------------------------------
(* The composers.                                                          *)

\* No attention in the bag is anywhere but on the PIM.
BankedBag(b) ==
  \A c \in DOMAIN b : c.on # "BUS" => (c.layer.type = "MATMUL" => c.on = "PIM")

\* A charge that keeps attention in the bank.
LEMMA BankedMore ==
  ASSUME NEW b \in Money, NEW x \in Charges, NEW n \in Nat, BankedBag(b),
         x.on # "BUS" => (x.layer.type = "MATMUL" => x.on = "PIM")
  PROVE  BankedBag(b (+) Times(One(x), n))
<1>1. /\ b (+) Times(One(x), n) \in Money
      /\ \A y : Copies(b (+) Times(One(x), n), y) = Copies(b, y) + (IF y = x THEN n ELSE 0)
  BY EntryBag, MoneyPlus, MoreCopies
<1>2. \A y \in DOMAIN (b (+) Times(One(x), n)) : y = x \/ y \in DOMAIN b
  <2>. TAKE y \in DOMAIN (b (+) Times(One(x), n))
  <2>1. Copies(b (+) Times(One(x), n), y) > 0
    BY <1>1, BagTyped DEF Money
  <2>2. Copies(b, y) \in Nat /\ (Copies(b, y) > 0 <=> y \in DOMAIN b)
    BY BagTyped DEF Money
  <2>. QED  BY <2>1, <2>2, <1>1
<1>. QED  BY <1>2 DEF BankedBag

\* An operand has at least one byte.
LEMMA In1Typed ==
  ASSUME NEW l \in PlacedLayers, NEW model, IsModel(model)
  PROVE  In1(l, model) \in Nat \ {0}
<1>. DEFINE a == l.numOp  b == l.m  w == model.bytes_per_param
            d == IF l.type \in {"FC", "MATMUL"} THEN l.k ELSE l.n
<1>1. a \in Nat \ {0} /\ b \in Nat \ {0} /\ w \in Nat \ {0} /\ d \in Nat \ {0}
  BY DEF PlacedLayers, IsModel, Positive
<1>2. In1(l, model) = a * b * w * d
  BY DEF In1
<1>. HIDE DEF a, b, w, d
<1>3. \A u, v \in Nat \ {0} : u * v \in Nat \ {0}
  OBVIOUS
<1>4. a * b \in Nat \ {0}
  BY <1>1, <1>3
<1>5. (a * b) * w \in Nat \ {0}
  BY <1>1, <1>3, <1>4
<1>6. ((a * b) * w) * d \in Nat \ {0}
  BY <1>1, <1>3, <1>5
<1>. QED  BY <1>2, <1>6

\* A layer of compose_sequential.
LEMMA SequentialSound ==
  ASSUME NEW c, Sound(c), c.time_s = c.energy_j, NEW before \in Devices \cup {"none"},
         NEW l \in PlacedLayers, NEW model, IsModel(model)
  PROVE  LET s == Sequential(c, before, l, model)
         IN  /\ Sound(s) /\ s.time_s = s.energy_j
             /\ BankedBag(c.energy_j) /\ (l.type = "MATMUL" => l.device = "PIM") =>
                  BankedBag(s.energy_j)
<1>. DEFINE bytes == IF In1(l, model) < 1 THEN 1 ELSE In1(l, model)
            x == Transfer(bytes)
            y == Kernel(l, l.device)
            cross == Cross(c, x, 1)
            mid == IF before \in Devices /\ l.device # before THEN cross ELSE c
            s == Add(mid, y, 1, l.device, l.type)
<1>1. Sequential(c, before, l, model) = s
  BY DEF Sequential, Cross
<1>2. bytes \in Nat
  BY In1Typed
<1>. HIDE DEF bytes
<1>3. IsCharge(x, "BUS", {"PIM"}, "COMM")
  BY <1>2, TransferIs
<1>4. IsCharge(y, l.device, {l.device}, l.type) /\ l.device \in Devices
  BY KernelIs
<1>5. x \in Charges /\ x.on = "BUS" /\ y \in Charges /\ 1 \in Nat
      /\ y.on = l.device /\ y.layer = l
  BY <1>3, <1>4 DEF IsCharge, Kernel, NpuCost, PimCost
<1>. HIDE DEF x, y
<1>6. /\ Sound(cross) /\ cross.time_s = c.time_s (+) Times(One(x), 1)
      /\ cross.energy_j = c.energy_j (+) Times(One(x), 1)
  BY <1>3, <1>5, CrossSound
<1>. HIDE DEF cross
<1>7. /\ Sound(mid) /\ mid.time_s = mid.energy_j
      /\ BankedBag(c.energy_j) => BankedBag(mid.energy_j)
  <2>1. BankedBag(c.energy_j) => BankedBag(cross.energy_j)
    BY <1>5, <1>6, BankedMore, LedgerTyped DEF Sound
  <2>. QED  BY <2>1, <1>6
<1>. HIDE DEF mid
<1>8. /\ Sound(s) /\ s.time_s = mid.time_s (+) Times(One(y), 1)
      /\ s.energy_j = mid.energy_j (+) Times(One(y), 1)
  BY <1>4, <1>7, AddSound
<1>9. ASSUME BankedBag(mid.energy_j), l.type = "MATMUL" => l.device = "PIM"
      PROVE  BankedBag(s.energy_j)
  BY <1>5, <1>7, <1>8, <1>9, BankedMore, LedgerTyped DEF Sound
<1>. HIDE DEF s
<1>. QED  BY <1>1, <1>7, <1>8, <1>9

\* The hops between blocks.
LEMMA HopsSound ==
  ASSUME NEW c, Sound(c), c.time_s = c.energy_j, NEW block \in Seq(PlacedLayers),
         Len(block) > 0, NEW model, IsModel(model)
  PROVE  LET s == InterlayerHops(c, block, model)
         IN  Sound(s) /\ s.time_s = s.energy_j
<1>. DEFINE last == block[Len(block)]
            bytes == last.m * last.n * model.bytes_per_param
            reps == HopReps(model)
            x == Transfer(bytes)
            cross == Cross(c, x, reps)
<1>1. last \in PlacedLayers
  BY LenProperties
<1>2. bytes \in Nat
  <2>. DEFINE a == last.m  b == last.n  w == model.bytes_per_param
  <2>1. a \in Nat /\ b \in Nat /\ w \in Nat
    BY <1>1 DEF PlacedLayers, IsModel, Positive
  <2>. HIDE DEF a, b, w
  <2>2. a * b * w \in Nat
    BY <2>1
  <2>. QED  BY <2>2 DEF a, b, w
<1>3. reps \in Nat
  BY DEF HopReps, IsModel, Positive
<1>4. InterlayerHops(c, block, model) = IF block[1].device # last.device THEN cross ELSE c
  BY DEF InterlayerHops, Cross
<1>. HIDE DEF bytes, reps, last
<1>5. IsCharge(x, "BUS", {"PIM"}, "COMM")
  BY <1>2, TransferIs
<1>. HIDE DEF x
<1>6. /\ Sound(cross) /\ cross.time_s = c.time_s (+) Times(One(x), reps)
      /\ cross.energy_j = c.energy_j (+) Times(One(x), reps)
  BY <1>3, <1>5, CrossSound
<1>. HIDE DEF cross
<1>. QED  BY <1>4, <1>6

Lanes == [compute : Money, comm : Money, nl : Money]
LanesSum(l) == l.compute (+) l.comm (+) l.nl

\* A charge in a lane and in the energy keeps the lanes' sum the energy.
LEMMA LanesAdd ==
  ASSUME NEW a \in Money, NEW b \in Money, NEW d \in Money, NEW e \in Money,
         (a (+) b) (+) d = e, NEW x \in Charges, NEW y \in Charges
  PROVE  /\ ((a (+) One(x)) (+) b) (+) d = e (+) Times(One(x), 1)
         /\ (a (+) b) (+) (d (+) One(x)) = e (+) Times(One(x), 1)
         /\ ((a (+) One(x)) (+) (b (+) One(y))) (+) d =
              (e (+) Times(One(x), 1)) (+) Times(One(y), 1)
<1>1. /\ One(x) \in Money /\ One(y) \in Money
      /\ Times(One(x), 1) = One(x) /\ Times(One(y), 1) = One(y)
  BY OnceIs
<1>2. /\ \A m \in Money : \A z : Copies(m, z) \in Nat
      /\ \A m, k \in Money : /\ m (+) k \in Money
                             /\ \A z : Copies(m (+) k, z) = Copies(m, z) + Copies(k, z)
  BY MoneyPlus, BagTyped DEF Money
<1>3. \A m, k \in Money : (\A z \in Charges : Copies(m, z) = Copies(k, z)) => m = k
  BY BagSame DEF Money
<1>. DEFINE u == One(x)  v == One(y)
<1>. HIDE DEF u, v
<1>4. u \in Money /\ v \in Money
  BY <1>1 DEF u, v
<1>5. /\ a (+) u \in Money /\ b (+) v \in Money /\ d (+) u \in Money /\ a (+) b \in Money
      /\ (a (+) u) (+) b \in Money /\ (a (+) u) (+) (b (+) v) \in Money
      /\ e (+) u \in Money /\ (e (+) u) (+) v \in Money
      /\ ((a (+) u) (+) b) (+) d \in Money /\ (a (+) b) (+) (d (+) u) \in Money
      /\ ((a (+) u) (+) (b (+) v)) (+) d \in Money
  <2>1. a (+) u \in Money /\ b (+) v \in Money /\ d (+) u \in Money /\ a (+) b \in Money
        /\ e (+) u \in Money
    BY <1>2, <1>4
  <2>2. (a (+) u) (+) b \in Money /\ (a (+) u) (+) (b (+) v) \in Money
        /\ (e (+) u) (+) v \in Money /\ (a (+) b) (+) (d (+) u) \in Money
    BY <2>1, <1>2, <1>4
  <2>3. ((a (+) u) (+) b) (+) d \in Money /\ ((a (+) u) (+) (b (+) v)) (+) d \in Money
    BY <2>2, <1>2
  <2>. QED  BY <2>1, <2>2, <2>3
<1>6. \A z : /\ Copies(e, z) = Copies(a, z) + Copies(b, z) + Copies(d, z)
             /\ Copies(e (+) u, z) = Copies(e, z) + Copies(u, z)
             /\ Copies((e (+) u) (+) v, z) = Copies(e, z) + Copies(u, z) + Copies(v, z)
             /\ Copies(a, z) \in Nat /\ Copies(b, z) \in Nat /\ Copies(d, z) \in Nat
             /\ Copies(u, z) \in Nat /\ Copies(v, z) \in Nat
  <2>. TAKE z
  <2>1. Copies((a (+) b) (+) d, z) = Copies(a (+) b, z) + Copies(d, z)
        /\ Copies(a (+) b, z) = Copies(a, z) + Copies(b, z)
    BY <1>2, <1>5
  <2>2. Copies(e (+) u, z) = Copies(e, z) + Copies(u, z)
        /\ Copies((e (+) u) (+) v, z) = Copies(e (+) u, z) + Copies(v, z)
    BY <1>2, <1>4, <1>5
  <2>. QED  BY <2>1, <2>2, <1>2, <1>4
<1>7. \A z : /\ Copies(((a (+) u) (+) b) (+) d, z) = Copies(e (+) u, z)
             /\ Copies((a (+) b) (+) (d (+) u), z) = Copies(e (+) u, z)
             /\ Copies(((a (+) u) (+) (b (+) v)) (+) d, z) = Copies((e (+) u) (+) v, z)
  <2>. TAKE z
  <2>1. Copies(((a (+) u) (+) b) (+) d, z) = Copies(a, z) + Copies(u, z) + Copies(b, z) + Copies(d, z)
    BY <1>2, <1>4, <1>5
  <2>2. Copies((a (+) b) (+) (d (+) u), z) = Copies(a, z) + Copies(b, z) + (Copies(d, z) + Copies(u, z))
    BY <1>2, <1>4, <1>5
  <2>3. Copies(((a (+) u) (+) (b (+) v)) (+) d, z) =
          Copies(a, z) + Copies(u, z) + (Copies(b, z) + Copies(v, z)) + Copies(d, z)
    BY <1>2, <1>4, <1>5
  <2>. QED  BY <2>1, <2>2, <2>3, <1>6
<1>8. /\ ((a (+) u) (+) b) (+) d = e (+) u
      /\ (a (+) b) (+) (d (+) u) = e (+) u
      /\ ((a (+) u) (+) (b (+) v)) (+) d = (e (+) u) (+) v
  BY <1>3, <1>5, <1>7
<1>. QED  BY <1>1, <1>8 DEF u, v

-----------------------------------------------------------------------------
(* The step being costed.                                                  *)

Typed ==
  /\ IsJob(job) /\ passes \in Seq(PassesFor(job))
  /\ p \in Nat \ {0} /\ i \in Nat \ {0}
  /\ part \in {"block", "head"} /\ prev \in Devices \cup {"none"} /\ lanes \in Lanes
  /\ part = "head" => Costing /\ Pass.forward

\* What the ledgers hold: the breakdowns are views, and the latency is what the
\* energy is charged for, once compose_concurrent's lanes are added up.
Books ==
  /\ Sound(out) /\ Sound(total) /\ Sound(record)
  /\ total.time_s = total.energy_j /\ record.time_s = record.energy_j
  /\ IF Costing /\ Pass.exec_model = "CONCURRENT"
     THEN LanesSum(lanes) = out.energy_j ELSE out.time_s = out.energy_j

CostInv == Typed /\ Books /\ KvStaysInBank

\* The pass being costed.
LEMMA PassIs ==
  ASSUME Typed, Costing
  PROVE  /\ Pass \in PassRecords /\ IsPass(Pass, job)
         /\ Pass.forward \in BOOLEAN /\ Pass.block \in Seq(PlacedLayers)
         /\ Pass.head \in Seq(PlacedLayers) /\ Len(Pass.block) > 0
         /\ List \in Seq(PlacedLayers)
         /\ Pass.exec_model \in {"SEQUENTIAL", "CONCURRENT"} /\ Pass.split_attention \in BOOLEAN
<1>1. Pass \in PassesFor(job)
  BY LenProperties DEF Typed, Pass, Costing
<1>2. Pass \in PassRecords /\ IsPass(Pass, job)
  BY <1>1 DEF PassesFor
<1>. QED  BY <1>2 DEF PassRecords, IsPass, List

\* The layer being costed, in the bank when its pass is.
LEMMA CurIs ==
  ASSUME Typed, Costing, i <= Len(List)
  PROVE  /\ Cur \in PlacedLayers
         /\ job.driver = "capim" /\ ~job.cfg.all_npu
              /\ (Pass.forward \/ job.cfg.draft_device = "pim") =>
              /\ Pass.exec_model = "CONCURRENT" => Pass.split_attention = FALSE
              /\ Pass.exec_model = "SEQUENTIAL" => (Cur.type = "MATMUL" => Cur.device = "PIM")
<1>1. List \in Seq(PlacedLayers) /\ IsPass(Pass, job) /\ Pass.split_attention \in BOOLEAN
  BY PassIs
<1>2. i \in 1..Len(List)
  BY <1>1 DEF Typed
<1>3. Cur \in PlacedLayers
  BY <1>1, <1>2 DEF Cur
<1>4. ASSUME job.driver = "capim", ~job.cfg.all_npu,
             Pass.forward \/ job.cfg.draft_device = "pim"
      PROVE  InBank(Pass, List)
  BY <1>1, <1>4 DEF IsPass, List
<1>. QED  BY <1>1, <1>2, <1>3, <1>4 DEF InBank, Cur

\* What KvStaysInBank says while a list is composed.
InBankPass ==
  job.driver = "capim" /\ ~job.cfg.all_npu /\ (Pass.forward \/ job.cfg.draft_device = "pim")

\* What KvStaysInBank says of the ledger.
LEMMA KvIs ==
  Costing => (KvStaysInBank <=> (InBankPass => BankedBag(out.energy_j)))
BY DEF KvStaysInBank, BankedBag, InBankPass

\* A layer is placed.
LEMMA PlaceStep ==
  ASSUME CostInv, Costing, UNCHANGED <<job, passes, p, part, total, record>>, i' = i + 1,
         prev' \in Devices \cup {"none"}, lanes' \in Lanes, Sound(out'),
         Pass.exec_model = "CONCURRENT" => LanesSum(lanes') = out'.energy_j,
         Pass.exec_model = "SEQUENTIAL" => out'.time_s = out'.energy_j,
         InBankPass => BankedBag(out'.energy_j)
  PROVE  CostInv'
<1>1. Typed /\ Books
  BY DEF CostInv
<1>2. Pass' = Pass /\ Costing' /\ (InBankPass' <=> InBankPass)
  BY DEF Pass, Costing, InBankPass
<1>3. Typed'
  BY <1>1, <1>2 DEF Typed
<1>4. Books'
  <2>1. Pass.exec_model \in {"SEQUENTIAL", "CONCURRENT"}
    BY <1>1, PassIs
  <2>2. Sound(total)' /\ Sound(record)'
    BY <1>1 DEF Books
  <2>. QED  BY <1>1, <1>2, <2>1, <2>2 DEF Books
<1>5. KvStaysInBank'
  BY <1>2 DEF KvStaysInBank, BankedBag, InBankPass
<1>. QED  BY <1>3, <1>4, <1>5 DEF CostInv

\* A layer of compose_sequential keeps the invariant.
LEMMA SequentialStep == CostInv /\ SequentialLayer => CostInv'
<1>. SUFFICES ASSUME CostInv, SequentialLayer
              PROVE  CostInv'
  OBVIOUS
<1>1. /\ Costing /\ i <= Len(List) /\ Pass.exec_model = "SEQUENTIAL"
      /\ out' = Sequential(out, prev, Cur, job.model) /\ i' = i + 1
      /\ UNCHANGED <<job, passes, p, part, total, record>>
      /\ prev' = Cur.device /\ UNCHANGED lanes
  BY DEF SequentialLayer, Composing, Place
<1>2. Typed /\ Books /\ IsModel(job.model) /\ prev \in Devices \cup {"none"} /\ lanes \in Lanes
  BY DEF CostInv, Typed, IsJob
<1>3. Sound(out) /\ out.time_s = out.energy_j
  BY <1>1, <1>2 DEF Books
<1>4. /\ Cur \in PlacedLayers /\ Cur.device \in Devices
      /\ InBankPass => (Cur.type = "MATMUL" => Cur.device = "PIM")
  BY <1>1, <1>2, CurIs DEF InBankPass, PlacedLayers
<1>5. /\ Sound(out') /\ out'.time_s = out'.energy_j
      /\ BankedBag(out.energy_j) /\ (Cur.type = "MATMUL" => Cur.device = "PIM") =>
           BankedBag(out'.energy_j)
  BY <1>1, <1>2, <1>3, <1>4, SequentialSound
<1>6. InBankPass => BankedBag(out'.energy_j)
  BY <1>1, <1>4, <1>5, KvIs DEF CostInv
<1>7. prev' \in Devices \cup {"none"} /\ lanes' \in Lanes
  BY <1>1, <1>2, <1>4
<1>8. Pass.exec_model = "CONCURRENT" => LanesSum(lanes') = out'.energy_j
  BY <1>1
<1>. QED  BY <1>1, <1>5, <1>6, <1>7, <1>8, PlaceStep

\* What compose_concurrent's lanes are while it runs.
LEMMA LanesAre ==
  ASSUME CostInv, Costing, Pass.exec_model = "CONCURRENT"
  PROVE  /\ lanes.compute \in Money /\ lanes.comm \in Money /\ lanes.nl \in Money
         /\ lanes = [compute |-> lanes.compute, comm |-> lanes.comm, nl |-> lanes.nl]
         /\ (lanes.compute (+) lanes.comm) (+) lanes.nl = out.energy_j
         /\ Sound(out) /\ out.energy_j \in Money
<1>1. lanes \in Lanes /\ Sound(out) /\ LanesSum(lanes) = out.energy_j
  BY DEF CostInv, Books, Typed
<1>2. lanes.compute \in Money /\ lanes.comm \in Money /\ lanes.nl \in Money
      /\ lanes = [compute |-> lanes.compute, comm |-> lanes.comm, nl |-> lanes.nl]
  BY <1>1 DEF Lanes
<1>. QED  BY <1>1, <1>2, LedgerTyped DEF LanesSum, Sound

\* So does attention left in the bank by compose_concurrent,
LEMMA PinnedStep == CostInv /\ PinnedLayer => CostInv'
<1>. SUFFICES ASSUME CostInv, PinnedLayer
              PROVE  CostInv'
  OBVIOUS
<1>. DEFINE x == Kernel(Cur, "PIM")
            pinned == [Enter(out, x, 1, "PIM", Cur.type) EXCEPT !.split_t_pim_bound = @ (+) One(x)]
<1>1. /\ Costing /\ i <= Len(List) /\ Pass.exec_model = "CONCURRENT"
      /\ out' = pinned /\ i' = i + 1
      /\ UNCHANGED <<job, passes, p, part, total, record>> /\ UNCHANGED prev
      /\ lanes' = [lanes EXCEPT !.compute = @ (+) One(x)]
      /\ Cur.type = "MATMUL"
  BY DEF PinnedLayer, Composing, Place, Pinned
<1>2. Typed /\ prev \in Devices \cup {"none"} /\ Cur \in PlacedLayers
  BY <1>1, CurIs DEF CostInv, Typed
<1>3. IsCharge(x, "PIM", {"PIM"}, Cur.type)
  BY <1>1, <1>2, KernelIs
<1>4. x \in Charges /\ x.on = "PIM" /\ One(x) \in Money
  BY <1>3, OnceIs DEF IsCharge
<1>5. /\ Sound(out') /\ out'.energy_j = out.energy_j (+) Times(One(x), 1)
  BY <1>1, <1>3, LanesAre, PinnedSound
<1>. HIDE DEF x
<1>6. /\ lanes.compute (+) One(x) \in Money /\ lanes' \in Lanes
      /\ lanes'.compute = lanes.compute (+) One(x)
      /\ lanes'.comm = lanes.comm /\ lanes'.nl = lanes.nl
  <2>1. lanes.compute (+) One(x) \in Money
    BY <1>1, <1>4, LanesAre, MoneyPlus
  <2>. DEFINE t == lanes.compute (+) One(x)
  <2>2. lanes' = [lanes EXCEPT !.compute = t] /\ lanes \in Lanes
    BY <1>1, <1>2 DEF Typed
  <2>3. t \in Money
    BY <2>1
  <2>. HIDE DEF t
  <2>4. lanes' \in Lanes /\ lanes'.compute = t /\ lanes'.comm = lanes.comm /\ lanes'.nl = lanes.nl
    BY <2>2, <2>3 DEF Lanes
  <2>. QED  BY <2>1, <2>4 DEF t
<1>7. LanesSum(lanes') = out'.energy_j
  BY <1>1, <1>4, <1>5, <1>6, LanesAre, LanesAdd DEF LanesSum
<1>8. InBankPass => BankedBag(out'.energy_j)
  BY <1>1, <1>4, <1>5, LanesAre, BankedMore, KvIs DEF CostInv
<1>9. prev' \in Devices \cup {"none"}
  BY <1>1, <1>2
<1>. HIDE DEF pinned
<1>. QED  BY <1>1, <1>5, <1>6, <1>7, <1>8, <1>9, PlaceStep

\* nonlinear glue,
LEMMA GlueStep == CostInv /\ GlueLayer => CostInv'
<1>. SUFFICES ASSUME CostInv, GlueLayer
              PROVE  CostInv'
  OBVIOUS
<1>. DEFINE x == Kernel(Cur, "NPU")
            glue == Enter(out, x, 1, "NPU", Cur.type)
<1>1. /\ Costing /\ i <= Len(List) /\ Pass.exec_model = "CONCURRENT"
      /\ out' = glue /\ i' = i + 1
      /\ UNCHANGED <<job, passes, p, part, total, record>> /\ UNCHANGED prev
      /\ lanes' = [lanes EXCEPT !.nl = @ (+) One(x)]
      /\ Cur.type # "MATMUL"
  BY DEF GlueLayer, Composing, Place, NONLINEAR
<1>2. Typed /\ prev \in Devices \cup {"none"} /\ Cur \in PlacedLayers
  BY <1>1, CurIs DEF CostInv, Typed
<1>3. IsCharge(x, "NPU", {"NPU"}, Cur.type)
  BY <1>2, KernelIs
<1>4. x \in Charges /\ x.layer.type # "MATMUL" /\ One(x) \in Money
  BY <1>1, <1>3, OnceIs DEF IsCharge, Kernel, NpuCost, PimCost
<1>5. /\ Sound(out') /\ out'.energy_j = out.energy_j (+) Times(One(x), 1)
  BY <1>1, <1>3, LanesAre, AddSound DEF Devices
<1>. HIDE DEF x
<1>6. /\ lanes' \in Lanes /\ lanes'.nl = lanes.nl (+) One(x)
      /\ lanes'.compute = lanes.compute /\ lanes'.comm = lanes.comm
  <2>. DEFINE t == lanes.nl (+) One(x)
  <2>1. t \in Money
    BY <1>1, <1>4, LanesAre, MoneyPlus
  <2>2. lanes' = [lanes EXCEPT !.nl = t] /\ lanes \in Lanes
    BY <1>1, <1>2 DEF Typed
  <2>. HIDE DEF t
  <2>4. lanes' \in Lanes /\ lanes'.nl = t /\ lanes'.compute = lanes.compute
        /\ lanes'.comm = lanes.comm
    BY <2>1, <2>2 DEF Lanes
  <2>. QED  BY <2>4 DEF t
<1>7. LanesSum(lanes') = out'.energy_j
  BY <1>1, <1>4, <1>5, <1>6, LanesAre, LanesAdd DEF LanesSum
<1>8. InBankPass => BankedBag(out'.energy_j)
  BY <1>1, <1>4, <1>5, LanesAre, BankedMore, KvIs DEF CostInv
<1>9. prev' \in Devices \cup {"none"}
  BY <1>1, <1>2
<1>. HIDE DEF glue
<1>. QED  BY <1>1, <1>5, <1>6, <1>7, <1>8, <1>9, PlaceStep

\* and a split kernel with its gather.
LEMMA SplitStep == CostInv /\ SplitLayer => CostInv'
<1>. SUFFICES ASSUME CostInv, SplitLayer
              PROVE  CostInv'
  OBVIOUS
<1>. DEFINE x == Split(Cur)
            y == Gather(Cur)
<1>1. /\ Costing /\ i <= Len(List) /\ Pass.exec_model = "CONCURRENT"
      /\ out' = SplitKernel(out, Cur) /\ i' = i + 1
      /\ UNCHANGED <<job, passes, p, part, total, record>> /\ UNCHANGED prev
      /\ lanes' = [lanes EXCEPT !.compute = @ (+) One(x), !.comm = @ (+) One(y)]
      /\ Cur.type \in {"FC", "MATMUL"}
      /\ Pass.split_attention = FALSE => Cur.type # "MATMUL"
  BY DEF SplitLayer, Composing, Place, Pinned
<1>2. /\ Typed /\ prev \in Devices \cup {"none"} /\ Cur \in PlacedLayers
      /\ InBankPass => Pass.split_attention = FALSE
  BY <1>1, CurIs DEF CostInv, Typed, InBankPass
<1>3. IsCharge(x, "BOTH", Devices, Cur.type) /\ IsCharge(y, "GATHER", {"PIM"}, "COMM")
  BY <1>1, <1>2, KernelIs
<1>4. /\ x \in Charges /\ y \in Charges /\ One(x) \in Money /\ One(y) \in Money
      /\ x.layer = Cur /\ y.layer = Cur /\ 1 \in Nat
  BY <1>3, OnceIs DEF IsCharge, Split, Gather
<1>5. /\ Sound(out')
      /\ out'.energy_j = (out.energy_j (+) Times(One(x), 1)) (+) Times(One(y), 1)
  BY <1>1, <1>2, LanesAre, SplitSound
<1>. HIDE DEF x, y
<1>6. /\ lanes' \in Lanes /\ lanes'.compute = lanes.compute (+) One(x)
      /\ lanes'.comm = lanes.comm (+) One(y) /\ lanes'.nl = lanes.nl
  <2>. DEFINE t == lanes.compute (+) One(x)
              u == lanes.comm (+) One(y)
  <2>1. t \in Money /\ u \in Money
    BY <1>1, <1>4, LanesAre, MoneyPlus
  <2>2. lanes' = [lanes EXCEPT !.compute = t, !.comm = u] /\ lanes \in Lanes
    BY <1>1, <1>2 DEF Typed
  <2>. HIDE DEF t, u
  <2>4. lanes' \in Lanes /\ lanes'.compute = t /\ lanes'.comm = u /\ lanes'.nl = lanes.nl
    BY <2>1, <2>2 DEF Lanes
  <2>. QED  BY <2>4 DEF t, u
<1>7. LanesSum(lanes') = out'.energy_j
  BY <1>1, <1>4, <1>5, <1>6, LanesAre, LanesAdd DEF LanesSum
<1>8. InBankPass => BankedBag(out'.energy_j)
  <2>. SUFFICES ASSUME InBankPass PROVE BankedBag(out'.energy_j)
    OBVIOUS
  <2>1. Cur.type # "MATMUL"
    BY <1>1, <1>2
  <2>2. BankedBag(out.energy_j) /\ out.energy_j \in Money
    BY <1>1, LanesAre, KvIs DEF CostInv
  <2>3. BankedBag(out.energy_j (+) Times(One(x), 1))
    BY <2>1, <2>2, <1>4, BankedMore
  <2>4. out.energy_j (+) Times(One(x), 1) \in Money
    BY <2>2, <1>4, EntryBag, MoneyPlus
  <2>5. BankedBag((out.energy_j (+) Times(One(x), 1)) (+) Times(One(y), 1))
    BY <2>1, <2>3, <2>4, <1>4, BankedMore
  <2>. QED  BY <2>5, <1>5
<1>9. prev' \in Devices \cup {"none"}
  BY <1>1, <1>2
<1>. QED  BY <1>1, <1>5, <1>6, <1>7, <1>8, <1>9, PlaceStep

\* What a composer returns costs what it charges.
LEMMA ReturnedSound ==
  ASSUME CostInv, Costing
  PROVE  Sound(Returned) /\ Returned.time_s = Returned.energy_j
<1>1. Typed /\ Books
  BY DEF CostInv
<1>2. Pass.exec_model \in {"SEQUENTIAL", "CONCURRENT"}
  BY <1>1, PassIs
<1>3. CASE Pass.exec_model = "SEQUENTIAL"
  BY <1>1, <1>3 DEF Books, Returned
<1>4. CASE Pass.exec_model = "CONCURRENT"
  <2>. DEFINE t == lanes.compute (+) lanes.comm (+) lanes.nl
              s == [out EXCEPT !.time_s = t]
  <2>1. t = out.energy_j /\ Sound(out) /\ out \in Ledgers /\ t \in Money
    BY <1>4, LanesAre DEF Sound
  <2>2. Returned = s
    BY <1>4 DEF Returned
  <2>. HIDE DEF t
  <2>3. /\ s \in Ledgers /\ s.time_s = t /\ s.energy_j = out.energy_j
        /\ s.time_by_device = out.time_by_device /\ s.time_by_type = out.time_by_type
        /\ s.crossings = out.crossings /\ s.split_t_npu_bound = out.split_t_npu_bound
    BY <2>1 DEF Ledgers
  <2>. HIDE DEF s
  <2>4. Sound(s)
    BY <2>1, <2>3, SoundBut
  <2>. QED  BY <2>1, <2>2, <2>3, <2>4
<1>. QED  BY <1>2, <1>3, <1>4

\* Empty lanes add up to nothing.
LEMMA LanesFresh == NoLanes \in Lanes /\ LanesSum(NoLanes) = EmptyBag
<1>1. EmptyBag \in Money /\ \A y : Copies(EmptyBag, y) = 0
  BY BagEmpty DEF Money
<1>2. /\ EmptyBag (+) EmptyBag \in Money
      /\ \A y : Copies(EmptyBag (+) EmptyBag, y) = 0
  BY <1>1, MoneyPlus
<1>3. EmptyBag (+) EmptyBag = EmptyBag
  BY <1>1, <1>2, BagSame DEF Money
<1>. QED  BY <1>1, <1>3 DEF NoLanes, Lanes, LanesSum

\* A composer starts afresh.
LEMMA FreshStep ==
  ASSUME Typed', out' = Zero, lanes' = NoLanes,
         Sound(total'), Sound(record'),
         total'.time_s = total'.energy_j, record'.time_s = record'.energy_j
  PROVE  CostInv'
<1>1. /\ Sound(out') /\ out'.time_s = out'.energy_j /\ out'.energy_j = EmptyBag
      /\ LanesSum(lanes') = EmptyBag
  BY ZeroSound, LanesFresh
<1>2. Books'
  BY <1>1 DEF Books
<1>3. KvStaysInBank'
  <2>1. DOMAIN out'.energy_j = {}
    BY <1>1 DEF EmptyBag, SetToBag
  <2>. QED  BY <2>1 DEF KvStaysInBank
<1>. QED  BY <1>2, <1>3 DEF CostInv

\* Scaling the block and adding the hops keeps the invariant.
LEMMA BlockStep == CostInv /\ EndBlock => CostInv'
<1>. SUFFICES ASSUME CostInv, EndBlock
              PROVE  CostInv'
  OBVIOUS
<1>. DEFINE scaled == Scale(Returned, job.model.n_layers)
<1>1. /\ Costing /\ Pass.forward /\ part' = "head"
      /\ total' = IF Pass.exec_model = "SEQUENTIAL"
                  THEN InterlayerHops(scaled, Pass.block, job.model) ELSE scaled
      /\ out' = Zero /\ lanes' = NoLanes /\ prev' = "none" /\ i' = 1
      /\ UNCHANGED <<job, passes, p, record>>
  BY DEF EndBlock, ListDone, Fresh
<1>2. Typed /\ Books /\ IsModel(job.model) /\ job.model.n_layers \in Nat
  BY DEF CostInv, Typed, IsJob, IsModel, Positive
<1>3. Pass' = Pass /\ Costing'
  BY <1>1 DEF Pass, Costing
<1>4. Typed'
  BY <1>1, <1>2, <1>3, LanesFresh DEF Typed
<1>5. Sound(Returned) /\ Returned.time_s = Returned.energy_j
  BY <1>1, ReturnedSound
<1>6. Sound(scaled) /\ scaled.time_s = scaled.energy_j
  BY <1>2, <1>5, ScaleSound
<1>. HIDE DEF scaled
<1>7. Sound(total') /\ total'.time_s = total'.energy_j
  <2>1. Pass.block \in Seq(PlacedLayers) /\ Len(Pass.block) > 0
    BY <1>1, <1>2, PassIs
  <2>. QED  BY <2>1, <1>1, <1>2, <1>6, HopsSound
<1>8. Sound(record') /\ record'.time_s = record'.energy_j
  BY <1>1, <1>2 DEF Books
<1>. QED  BY <1>1, <1>4, <1>7, <1>8, FreshStep

\* So does adding a pass to the step.
LEMMA PassStep == CostInv /\ EndPass => CostInv'
<1>. SUFFICES ASSUME CostInv, EndPass
              PROVE  CostInv'
  OBVIOUS
<1>. DEFINE whole == IF Pass.forward THEN Merge(total, Returned) ELSE Returned
<1>1. /\ Costing /\ record' = Merge(record, whole)
      /\ total' = Zero /\ part' = "block" /\ p' = p + 1
      /\ out' = Zero /\ lanes' = NoLanes /\ prev' = "none" /\ i' = 1
      /\ UNCHANGED <<job, passes>>
  BY DEF EndPass, ListDone, Fresh
<1>2. Typed /\ Books
  BY DEF CostInv
<1>3. Typed'
  BY <1>1, <1>2, LanesFresh DEF Typed
<1>4. Sound(Returned) /\ Returned.time_s = Returned.energy_j
  BY <1>1, ReturnedSound
<1>5. /\ Sound(total) /\ total.time_s = total.energy_j
      /\ Sound(record) /\ record.time_s = record.energy_j
  BY <1>2 DEF Books
<1>6. Sound(whole) /\ whole.time_s = whole.energy_j
  BY <1>4, <1>5, MergeSound
<1>. HIDE DEF whole
<1>7. Sound(record') /\ record'.time_s = record'.energy_j
  BY <1>1, <1>5, <1>6, MergeSound
<1>. QED  BY <1>1, <1>3, <1>7, ZeroSound, FreshStep

\* A step starts with empty books.
LEMMA CostInit == Init => CostInv
<1>. SUFFICES ASSUME Init
              PROVE  CostInv
  OBVIOUS
<1>1. IsJob(job)
  BY CostAssumption DEF Init
<1>2. passes \in Seq(PassesFor(job))
  BY <1>1, PassesTyped DEF Init
<1>3. Typed
  BY <1>1, <1>2, LanesFresh DEF Init, Typed
<1>4. /\ out = Zero /\ total = Zero /\ record = Zero /\ lanes = NoLanes
  BY DEF Init
<1>5. Books
  BY <1>4, ZeroSound, LanesFresh DEF Books
<1>6. KvStaysInBank
  <2>1. DOMAIN out.energy_j = {}
    BY <1>4, ZeroSound DEF EmptyBag, SetToBag
  <2>. QED  BY <2>1 DEF KvStaysInBank
<1>. QED  BY <1>3, <1>5, <1>6 DEF CostInv

\* Every action of the composers keeps the invariant.
LEMMA ComposeStep == CostInv /\ Compose => CostInv'
BY SequentialStep, PinnedStep, SplitStep, GlueStep, BlockStep, PassStep DEF Compose

\* The invariant speaks of the variables only.
LEMMA CostStutter == CostInv /\ UNCHANGED vars => CostInv'
BY DEF vars, CostInv, Typed, Books, KvStaysInBank, Costing, Pass, List, Sound, Views, LanesSum


-----------------------------------------------------------------------------
(* What the invariant says of the ledgers.                                 *)

\* The charges of a bag that a predicate holds of, as a bag of its own.
LEMMA PartIs ==
  ASSUME NEW wall \in Money, NEW b \in Money, NEW Sel \in SUBSET DOMAIN wall,
         \A y \in Charges : Copies(b, y) = IF y \in Sel THEN Copies(wall, y) ELSE 0
  PROVE  b = [c \in Sel |-> wall[c]]
<1>. DEFINE a == [c \in Sel |-> wall[c]]
<1>1. /\ DOMAIN wall \subseteq Charges /\ IsFiniteSet(DOMAIN wall)
      /\ \A x \in DOMAIN wall : wall[x] \in Nat \ {0}
  BY BagTyped DEF Money
<1>2. DOMAIN a \subseteq DOMAIN wall
  OBVIOUS
<1>3. IsFiniteSet(DOMAIN a)
  BY <1>1, <1>2, FS_Subset
<1>4. a = [x \in DOMAIN a |-> a[x]] /\ \A x \in DOMAIN a : a[x] = wall[x]
  OBVIOUS
<1>5. DOMAIN a = Sel
  OBVIOUS
<1>. HIDE DEF a
<1>6. a \in Money
  BY <1>1, <1>2, <1>3, <1>4, BagIs DEF Money
<1>7. \A y \in Charges : Copies(b, y) = Copies(a, y)
  BY <1>4, <1>5 DEF Copies
<1>8. b = a
  BY <1>6, <1>7, BagSame DEF Money
<1>. QED  BY <1>8 DEF a

\* A kernel on the PIM or split is a matmul, a transfer is not on the NPU.
LEMMA InvDispatch == CostInv => DispatchIsLegal
<1>. SUFFICES ASSUME CostInv
              PROVE  DispatchIsLegal
  OBVIOUS
<1>1. out \in Ledgers /\ Views(out)
  BY DEF CostInv, Books, Sound
<1>2. /\ out.energy_j \in Money /\ out.split_t_pim_bound \in Money
      /\ out.time_by_device["NPU"] \in Money
  BY <1>1 DEF Ledgers, Devices
<1>3. \A b \in Money : DOMAIN b \subseteq Charges
  BY BagTyped DEF Money
<1>4. \A c \in DOMAIN out.energy_j \cup DOMAIN out.split_t_pim_bound :
        c.on \in {"PIM", "BOTH"} => c.layer.type \in {"FC", "MATMUL"}
  BY <1>2, <1>3, ChargeTyped
<1>5. ASSUME NEW c \in DOMAIN out.time_by_device["NPU"]
      PROVE  c.on \in {"NPU", "BOTH"}
  <2>1. c \in Charges
    BY <1>2, <1>3
  <2>2. Copies(out.time_by_device["NPU"], c) > 0
    BY <1>2, BagTyped DEF Money
  <2>3. "NPU" \in BusyDuring(c)
    BY <1>1, <2>1, <2>2 DEF Views, Devices
  <2>. QED  BY <2>1, <2>3, ChargeTyped DEF BusyDuring, Devices
<1>. QED  BY <1>4, <1>5 DEF DispatchIsLegal

\* A ledger whose latency is what its energy is charged for.
LEMMA SoundViews ==
  ASSUME NEW c, Sound(c), c.time_s = c.energy_j
  PROVE  LET wall == c.time_s
             OnBus(x) == x.on \in {"BUS", "GATHER"}
             IsSplit(x) == x.on = "BOTH"
             AsNpu(x) == Kernel(x.layer, "NPU")
         IN  /\ \A t \in DOMAIN c.time_by_type :
                  LET OfType(x) == TypeOf(x) = t IN c.time_by_type[t] = Part(wall, OfType)
             /\ \A d \in Devices :
                  LET Busy(x) == d \in BusyDuring(x)
                  IN  c.time_by_device[d] = Part(wall, Busy)
             /\ c.crossings = SumFunction(Part(wall, OnBus))
             /\ c.split_t_npu_bound =
                  [k \in {AsNpu(x) : x \in DOMAIN Part(wall, IsSplit)} |-> wall[Split(k.layer)]]
<1>. DEFINE wall == c.time_s
            OnBus(x) == x.on \in {"BUS", "GATHER"}
            IsSplit(x) == x.on = "BOTH"
            AsNpu(x) == Kernel(x.layer, "NPU")
<1>1. /\ c \in Ledgers /\ Views(c) /\ wall \in Money /\ wall = c.energy_j
      /\ c.time_by_device \in [Devices -> Money] /\ c.time_by_type \in [Kinds -> Money]
      /\ c.split_t_npu_bound \in Money /\ c.crossings \in Nat
  BY DEF Sound, Ledgers
<1>2. ASSUME NEW t \in DOMAIN c.time_by_type
      PROVE  LET OfType(x) == TypeOf(x) = t IN c.time_by_type[t] = Part(wall, OfType)
  <2>. DEFINE Sel == {x \in DOMAIN wall : TypeOf(x) = t}
              b == c.time_by_type[t]
  <2>1. t \in Kinds /\ b \in Money
    BY <1>1
  <2>2. \A y \in Charges : Copies(b, y) = IF y \in Sel THEN Copies(wall, y) ELSE 0
    BY <1>1, <2>1 DEF Views, Copies
  <2>4. Sel \in SUBSET DOMAIN wall
    OBVIOUS
  <2>6. wall \in Money
    BY <1>1
  <2>. HIDE DEF Sel, b, wall
  <2>5. b = [x \in Sel |-> wall[x]]
    BY ONLY <2>1, <2>2, <2>4, <2>6, PartIs
  <2>. QED  BY <2>5 DEF Part, b, Sel
<1>3. ASSUME NEW d \in Devices
      PROVE  LET Busy(x) == d \in BusyDuring(x) IN c.time_by_device[d] = Part(wall, Busy)
  <2>. DEFINE Sel == {x \in DOMAIN wall : d \in BusyDuring(x)}
              b == c.time_by_device[d]
  <2>1. b \in Money
    BY <1>1
  <2>2. \A y \in Charges : Copies(b, y) = IF y \in Sel THEN Copies(wall, y) ELSE 0
    BY <1>1, <2>1 DEF Views, Copies
  <2>4. Sel \in SUBSET DOMAIN wall
    OBVIOUS
  <2>6. wall \in Money
    BY <1>1
  <2>. HIDE DEF Sel, b, wall
  <2>5. b = [x \in Sel |-> wall[x]]
    BY ONLY <2>1, <2>2, <2>4, <2>6, PartIs
  <2>. QED  BY <2>5 DEF Part, b, Sel
<1>4. c.crossings = SumFunction(Part(wall, OnBus))
  <2>. DEFINE D == DOMAIN wall
              R == {x \in D : OnBus(x)}
              f == [x \in D |-> wall[x] * BusWeight[x]]
              g == [x \in R |-> wall[x]]
  <2>1. D \subseteq Charges /\ IsFiniteSet(D) /\ \A x \in D : wall[x] \in Nat \ {0}
    BY <1>1, BagTyped DEF Money
  <2>2. \A x \in D : /\ f[x] \in Int
                     /\ x \in R => f[x] = g[x]
                     /\ x \notin R => f[x] = 0
    <3>1. \A x \in D : f[x] = wall[x] * (IF OnBus(x) THEN 1 ELSE 0)
      BY <2>1 DEF BusWeight
    <3>2. \A k \in Nat \ {0} : k * 1 = k /\ k * 0 = 0 /\ k \in Int
      OBVIOUS
    <3>3. \A x \in D : f[x] = IF OnBus(x) THEN wall[x] ELSE 0
      BY <2>1, <3>1, <3>2
    <3>. TAKE x \in D
    <3>4. f[x] = IF OnBus(x) THEN wall[x] ELSE 0
      BY <3>3
    <3>5. x \in R <=> OnBus(x)
      OBVIOUS
    <3>6. x \in R => g[x] = wall[x]
      OBVIOUS
    <3>7. wall[x] \in Int
      BY <2>1
    <3>. HIDE DEF D, R, f, g, wall, OnBus
    <3>. QED  BY <3>4, <3>5, <3>6, <3>7
  <2>3. c.crossings = SumFunctionOnSet(f, D)
    BY <1>1 DEF Views, Weigh
  <2>4. R \subseteq D /\ IsFiniteSet(R) /\ IsFiniteSet(D \ R)
    BY <2>1, FS_Subset
  <2>5. SumFunction(Part(wall, OnBus)) = SumFunctionOnSet(g, R)
    BY DEF Part, SumFunction, SumFunctionOnSet, FoldFunction
  <2>. HIDE DEF D, R, f, g
  <2>6. SumFunctionOnSet(f, D) = SumFunctionOnSet(f, R) + SumFunctionOnSet(f, D \ R)
    BY <2>1, <2>2, <2>4, SumParts
  <2>7. SumFunctionOnSet(f, D \ R) = 0
    BY <2>2, <2>4, SumZero
  <2>8. SumFunctionOnSet(f, R) = SumFunctionOnSet(g, R) /\ SumFunctionOnSet(f, R) \in Int
    <3>1. \A x \in R : f[x] \in Int /\ g[x] \in Int /\ f[x] <= g[x] /\ f[x] = g[x]
      BY <2>2, <2>4
    <3>. QED  BY <3>1, <2>4, SumLess, SumInt
  <2>. QED  BY <2>3, <2>5, <2>6, <2>7, <2>8
<1>5. c.split_t_npu_bound =
        [k \in {AsNpu(x) : x \in DOMAIN Part(wall, IsSplit)} |-> wall[Split(k.layer)]]
  <2>. DEFINE b == c.split_t_npu_bound
              K == {AsNpu(x) : x \in DOMAIN Part(wall, IsSplit)}
  <2>1. DOMAIN wall \subseteq Charges /\ DOMAIN b \subseteq Charges
        /\ b = [x \in DOMAIN b |-> b[x]]
        /\ \A y : /\ Copies(b, y) \in Nat /\ (y \in DOMAIN b <=> Copies(b, y) > 0)
                  /\ Copies(wall, y) \in Nat /\ (y \in DOMAIN wall <=> Copies(wall, y) > 0)
    BY <1>1, BagTyped DEF Money
  <2>2. \A y \in Charges :
          Copies(b, y) = IF y.on = "NPU" THEN Copies(wall, Split(y.layer)) ELSE 0
    BY <1>1 DEF Views
  <2>3. DOMAIN Part(wall, IsSplit) = {x \in DOMAIN wall : x.on = "BOTH"}
    BY DEF Part
  <2>4. \A y \in DOMAIN b : y \in K /\ b[y] = wall[Split(y.layer)]
    <3>. TAKE y \in DOMAIN b
    <3>1. y \in Charges /\ y.on = "NPU" /\ Copies(b, y) = Copies(wall, Split(y.layer))
          /\ Copies(b, y) > 0
      BY <2>1, <2>2
    <3>2. Split(y.layer) \in DOMAIN wall
      BY <3>1, <2>1
    <3>3. Split(y.layer).on = "BOTH" /\ Split(y.layer).layer = y.layer
      BY DEF Split
    <3>4. y = Kernel(y.layer, "NPU")
      BY <3>1 DEF Charges, Kernel, NpuCost, PimCost
    <3>5. b[y] = wall[Split(y.layer)]
      BY <3>1, <3>2 DEF Copies
    <3>6. AsNpu(Split(y.layer)) = y
      BY <3>3, <3>4
    <3>. QED  BY <2>3, <3>2, <3>3, <3>5, <3>6
  <2>5. \A x \in DOMAIN wall : x.on = "BOTH" => AsNpu(x) \in DOMAIN b
    <3>. TAKE x \in DOMAIN wall
    <3>. SUFFICES ASSUME x.on = "BOTH" PROVE AsNpu(x) \in DOMAIN b
      OBVIOUS
    <3>1. x \in Charges /\ x.layer \in PlacedLayers
      BY <2>1, ChargeTyped
    <3>2. x = Split(x.layer)
      BY <3>1 DEF Charges, Split
    <3>3. AsNpu(x) \in Charges /\ AsNpu(x).on = "NPU" /\ AsNpu(x).layer = x.layer
      BY <3>1, KernelIs DEF IsCharge, Kernel, NpuCost, PimCost
    <3>4. Copies(b, AsNpu(x)) = Copies(wall, x) /\ Copies(wall, x) > 0
      BY <2>1, <2>2, <3>2, <3>3
    <3>. QED  BY <2>1, <3>4
  <2>6. K = DOMAIN b
    BY <2>3, <2>4, <2>5
  <2>7. b = [k \in K |-> wall[Split(k.layer)]]
    <3>. HIDE DEF K, b, wall
    <3>. QED  BY <2>1, <2>4, <2>6
  <2>. QED  BY <2>7
<1>. QED  BY <1>2, <1>3, <1>4, <1>5

\* Between two passes the breakdowns are views of the wall clock.
LEMMA InvViews == CostInv => LedgersAreViews
<1>. SUFFICES ASSUME CostInv
              PROVE  LedgersAreViews
  OBVIOUS
<1>1. Sound(record) /\ record.time_s = record.energy_j
  BY DEF CostInv, Books
<1>. QED  BY <1>1, SoundViews DEF LedgersAreViews

-----------------------------------------------------------------------------
(* The amounts of a step's charges.                                        *)

Rates == [Places -> Nat \ {0}]

\* What one copy of a charge amounts to.
Rated(rate) == [x \in Charges |-> rate[<<TypeOf(x), x.on>>]]

\* Every charge has a rate.
LEMMA RatedTyped ==
  ASSUME NEW rate \in Rates
  PROVE  Rated(rate) \in [Charges -> Int] /\ \A x \in Charges : Rated(rate)[x] \in Nat \ {0}
<1>1. ASSUME NEW x \in Charges
      PROVE  <<TypeOf(x), x.on>> \in Places
  <2>1. CASE x.on \in Devices
    BY <2>1, ChargeTyped DEF Places, Devices
  <2>2. CASE x.on = "BOTH"
    BY <2>2, ChargeTyped DEF Places
  <2>3. CASE x.on \in {"BUS", "GATHER"}
    BY <2>3, ChargeTyped DEF Places
  <2>. QED  BY <2>1, <2>2, <2>3, ChargeTyped DEF Devices
<1>. QED  BY <1>1 DEF Rated, Rates

\* An amount, summed over any charges that include the bag's.
LEMMA AmountOver ==
  ASSUME NEW b \in Money, NEW rate \in Rates, NEW U \in SUBSET Charges, IsFiniteSet(U),
         DOMAIN b \subseteq U
  PROVE  /\ Amount(b, rate) = SumFunctionOnSet([x \in U |-> Copies(b, x) * Rated(rate)[x]], U)
         /\ \A x \in U : Copies(b, x) * Rated(rate)[x] \in Nat
<1>. DEFINE f == [x \in DOMAIN b |-> b[x] * rate[<<TypeOf(x), x.on>>]]
            g == [x \in DOMAIN b |-> b[x] * Rated(rate)[x]]
<1>1. DOMAIN b \subseteq Charges
  BY BagTyped DEF Money
<1>2. f = g
  BY <1>1 DEF Rated
<1>3. Amount(b, rate) = SumFunctionOnSet(f, DOMAIN b)
  BY DEF Amount, SumFunction, SumFunctionOnSet, FoldFunction
<1>4. Weigh(b, Rated(rate)) = SumFunctionOnSet(g, DOMAIN b)
  BY DEF Weigh
<1>5. Amount(b, rate) = Weigh(b, Rated(rate))
  BY <1>2, <1>3, <1>4
<1>6. \A x \in U : Copies(b, x) \in Nat /\ Rated(rate)[x] \in Nat
  BY BagTyped, RatedTyped DEF Money
<1>7. \A m, n \in Nat : m * n \in Nat
  OBVIOUS
<1>. QED  BY <1>5, <1>6, <1>7, RatedTyped, WeighOver DEF Money

\* A sum of naturals, zero when they all are.
LEMMA SumNat ==
  ASSUME NEW f, NEW S, IsFiniteSet(S), \A x \in S : f[x] \in Nat
  PROVE  /\ SumFunctionOnSet(f, S) \in Nat
         /\ SumFunctionOnSet(f, S) > 0 <=> \E x \in S : f[x] > 0
<1>. DEFINE z == [x \in S |-> 0]
<1>1. \A x \in S : z[x] \in Int /\ f[x] \in Int /\ z[x] <= f[x] /\ z[x] = 0
  OBVIOUS
<1>. HIDE DEF z
<1>2. SumFunctionOnSet(z, S) = 0
  BY <1>1, SumZero
<1>3. SumFunctionOnSet(f, S) \in Int
  BY <1>1, SumInt
<1>4. /\ 0 <= SumFunctionOnSet(f, S)
      /\ (\E x \in S : 0 < f[x]) => 0 < SumFunctionOnSet(f, S)
  <2>1. /\ SumFunctionOnSet(z, S) <= SumFunctionOnSet(f, S)
        /\ (\E x \in S : z[x] < f[x]) => SumFunctionOnSet(z, S) < SumFunctionOnSet(f, S)
    BY <1>1, SumLess
  <2>. QED  BY <1>1, <1>2, <2>1
<1>5. (\A x \in S : f[x] = 0) => SumFunctionOnSet(f, S) = 0
  BY SumZero
<1>. QED  BY <1>3, <1>4, <1>5

\* An amount is a natural, positive unless nothing was charged.
LEMMA AmountIs ==
  ASSUME NEW b \in Money, NEW rate \in Rates
  PROVE  Amount(b, rate) \in Nat /\ (Amount(b, rate) > 0 <=> DOMAIN b # {})
<1>. DEFINE D == DOMAIN b
            f == [x \in D |-> Copies(b, x) * Rated(rate)[x]]
<1>1. D \subseteq Charges /\ IsFiniteSet(D)
  BY BagTyped DEF Money
<1>2. Amount(b, rate) = SumFunctionOnSet(f, D)
  BY <1>1, AmountOver
<1>3. \A x \in D : Copies(b, x) \in Nat \ {0} /\ Rated(rate)[x] \in Nat \ {0}
  BY <1>1, BagTyped, RatedTyped DEF Money
<1>4. \A m, n \in Nat \ {0} : m * n \in Nat /\ m * n > 0
  OBVIOUS
<1>5. \A x \in D : f[x] \in Nat /\ f[x] > 0
  BY <1>3, <1>4
<1>. HIDE DEF D, f
<1>6. SumFunctionOnSet(f, D) \in Nat /\ (SumFunctionOnSet(f, D) > 0 <=> \E x \in D : f[x] > 0)
  BY <1>1, <1>5, SumNat
<1>. QED  BY <1>2, <1>5, <1>6 DEF D

\* The kinds of charges are finitely many.
LEMMA KindsFinite == IsFiniteSet(Kinds)
<1>1. IsFiniteSet({"FC"}) /\ IsFiniteSet({"MATMUL"}) /\ IsFiniteSet({"COMM"})
      /\ IsFiniteSet({"SOFTMAX"}) /\ IsFiniteSet({"ACT"}) /\ IsFiniteSet({"NORM"})
  BY FS_Singleton
<1>2. IsFiniteSet({"FC"} \cup {"MATMUL"}) /\ IsFiniteSet({"SOFTMAX"} \cup {"ACT"})
      /\ IsFiniteSet({"NORM"} \cup {"COMM"})
  BY <1>1, FS_Union
<1>3. IsFiniteSet(({"FC"} \cup {"MATMUL"}) \cup (({"SOFTMAX"} \cup {"ACT"})
                    \cup ({"NORM"} \cup {"COMM"})))
  BY <1>2, FS_Union
<1>4. Kinds = ({"FC"} \cup {"MATMUL"}) \cup (({"SOFTMAX"} \cup {"ACT"})
                    \cup ({"NORM"} \cup {"COMM"}))
  BY DEF Kinds, LayerTypes, NONLINEAR
<1>. QED  BY <1>3, <1>4

\* The rows a recorded step is printed with, and its time.
Rows(time_s, byDevice, byType, npuBound) ==
  /\ byDevice \in [Devices -> Nat] /\ byType \in [Kinds -> Nat]
  /\ time_s \in Nat /\ npuBound \in Nat
  /\ \A d \in Devices : byDevice[d] <= time_s
  /\ IF npuBound > 0 THEN byDevice["NPU"] + byDevice["PIM"] > time_s
                     ELSE byDevice["NPU"] + byDevice["PIM"] = time_s
  /\ SumFunctionOnSet(byType, Kinds) = time_s

\* The rows of a ledger: the types partition its time, the devices do too but
\* for the split kernels.
LEMMA RowsAdd ==
  ASSUME NEW c, Sound(c), c.time_s = c.energy_j, NEW rate \in Rates
  PROVE  Rows(Amount(c.time_s, rate), Amounts(c.time_by_device, rate),
               Amounts(c.time_by_type, rate), Amount(c.split_t_npu_bound, rate))
<1>. DEFINE wall == c.time_s
            U == DOMAIN wall
            w == Rated(rate)
            g == [x \in U |-> Copies(wall, x) * w[x]]
            fd(d) == [x \in U |-> Copies(c.time_by_device[d], x) * w[x]]
            ft(t) == [x \in U |-> Copies(c.time_by_type[t], x) * w[x]]
            byDevice == Amounts(c.time_by_device, rate)
            byType == Amounts(c.time_by_type, rate)
            bound == Amount(c.split_t_npu_bound, rate)
<1>1. /\ c \in Ledgers /\ Views(c) /\ wall \in Money /\ wall = c.energy_j
      /\ c.time_by_device \in [Devices -> Money] /\ c.time_by_type \in [Kinds -> Money]
      /\ c.split_t_npu_bound \in Money
  BY DEF Sound, Ledgers
<1>2. /\ U \in SUBSET Charges /\ IsFiniteSet(U)
      /\ \A x : Copies(wall, x) \in Nat /\ (x \in U <=> Copies(wall, x) > 0)
  BY <1>1, BagTyped DEF Money
<1>3. /\ \A x \in Charges : \A d \in Devices :
           Copies(c.time_by_device[d], x) = IF d \in BusyDuring(x) THEN Copies(wall, x) ELSE 0
      /\ \A x \in Charges : \A t \in Kinds :
           Copies(c.time_by_type[t], x) = IF t = TypeOf(x) THEN Copies(wall, x) ELSE 0
      /\ \A x \in Charges : Copies(c.split_t_npu_bound, x) =
           IF x.on = "NPU" THEN Copies(wall, Split(x.layer)) ELSE 0
  BY <1>1 DEF Views
<1>4. \A x \in U : w[x] \in Nat \ {0}
  BY <1>2, RatedTyped
<1>5. Amount(wall, rate) = SumFunctionOnSet(g, U) /\ \A x \in U : g[x] \in Nat /\ g[x] > 0
  <2>1. \A m, n \in Nat \ {0} : m * n > 0
    OBVIOUS
  <2>2. \A x \in U : Copies(wall, x) * w[x] > 0
    BY <1>2, <1>4, <2>1
  <2>. QED  BY <1>1, <1>2, <2>2, AmountOver
<1>6. ASSUME NEW d \in Devices
      PROVE  /\ byDevice[d] = SumFunctionOnSet(fd(d), U) /\ byDevice[d] \in Nat
             /\ \A x \in U : fd(d)[x] = IF d \in BusyDuring(x) THEN g[x] ELSE 0
  <2>. DEFINE b == c.time_by_device[d]
  <2>1. b \in Money /\ byDevice[d] = Amount(b, rate)
    BY <1>1 DEF Amounts
  <2>2. DOMAIN b \subseteq U
    <3>1. \A x \in DOMAIN b : x \in Charges /\ Copies(b, x) > 0
      BY <2>1, BagTyped DEF Money
    <3>. QED  BY <3>1, <1>2, <1>3
  <2>3. \A x \in U : fd(d)[x] = IF d \in BusyDuring(x) THEN g[x] ELSE 0
    <3>. TAKE x \in U
    <3>1. Copies(b, x) = IF d \in BusyDuring(x) THEN Copies(wall, x) ELSE 0
      BY <1>2, <1>3
    <3>2. 0 * w[x] = 0
      BY <1>4
    <3>. QED  BY <3>1, <3>2
  <2>4. byDevice[d] = SumFunctionOnSet(fd(d), U) /\ byDevice[d] \in Nat
    BY <2>1, <2>2, <1>2, AmountOver, AmountIs
  <2>. QED  BY <2>3, <2>4
<1>7. ASSUME NEW t \in Kinds
      PROVE  /\ byType[t] \in Nat
             /\ byType[t] = SumFunctionOnSet(g, {x \in U : TypeOf(x) = t})
  <2>. DEFINE b == c.time_by_type[t]
              R == {x \in U : TypeOf(x) = t}
              f == [x \in R |-> Copies(b, x) * w[x]]
  <2>1. b \in Money /\ byType[t] = Amount(b, rate)
    BY <1>1 DEF Amounts
  <2>2. DOMAIN b \subseteq R
    <3>1. \A x \in DOMAIN b : x \in Charges /\ Copies(b, x) > 0
      BY <2>1, BagTyped DEF Money
    <3>. QED  BY <3>1, <1>2, <1>3
  <2>3. R \in SUBSET Charges /\ IsFiniteSet(R) /\ R \subseteq U
    BY <1>2, FS_Subset
  <2>4. byType[t] = SumFunctionOnSet(f, R) /\ byType[t] \in Nat
    BY <2>1, <2>2, <2>3, AmountOver, AmountIs
  <2>5. \A x \in R : f[x] = g[x] /\ f[x] \in Int /\ g[x] \in Int /\ f[x] <= g[x]
    <3>. TAKE x \in R
    <3>1. x \in U /\ TypeOf(x) = t
      OBVIOUS
    <3>2. Copies(b, x) = Copies(wall, x)
      BY <1>2, <1>3, <3>1
    <3>3. f[x] = g[x]
      BY <3>1, <3>2
    <3>. QED  BY <3>1, <3>3, <1>5
  <2>. HIDE DEF f, R, g
  <2>6. SumFunctionOnSet(f, R) = SumFunctionOnSet(g, R)
    BY <2>3, <2>5, SumLess
  <2>. QED  BY <2>4, <2>6 DEF R
<1>8. byDevice \in [Devices -> Nat] /\ byType \in [Kinds -> Nat] /\ bound \in Nat
      /\ Amount(wall, rate) \in Nat
  <2>1. /\ byDevice = [d \in Devices |-> byDevice[d]] /\ byType = [t \in Kinds |-> byType[t]]
    BY <1>1 DEF Amounts
  <2>. HIDE DEF byDevice, byType, bound
  <2>. QED  BY <1>1, <1>6, <1>7, <2>1, AmountIs DEF bound
<1>9. bound > 0 <=> \E x \in U : x.on = "BOTH"
  <2>. DEFINE b == c.split_t_npu_bound
  <2>1. bound > 0 <=> DOMAIN b # {}
    BY <1>1, AmountIs
  <2>2. DOMAIN b \subseteq Charges /\ \A x : x \in DOMAIN b <=> Copies(b, x) > 0
    BY <1>1, BagTyped DEF Money
  <2>3. ASSUME NEW x \in DOMAIN b PROVE \E y \in U : y.on = "BOTH"
    <3>1. Copies(wall, Split(x.layer)) > 0 /\ Split(x.layer).on = "BOTH"
      BY <1>3, <2>2 DEF Split
    <3>. QED  BY <3>1, <1>2
  <2>4. ASSUME NEW y \in U, y.on = "BOTH" PROVE DOMAIN b # {}
    <3>. DEFINE x == Kernel(y.layer, "NPU")
    <3>1. y \in Charges /\ y.layer \in PlacedLayers
      BY <1>2, <2>4, ChargeTyped
    <3>2. y = Split(y.layer)
      BY <3>1, <2>4 DEF Charges, Split
    <3>3. x \in Charges /\ x.on = "NPU" /\ x.layer = y.layer
      BY <3>1, KernelIs DEF IsCharge, Kernel, NpuCost, PimCost
    <3>4. Copies(b, x) = Copies(wall, y)
      BY <1>3, <3>2, <3>3
    <3>. QED  BY <3>4, <2>2, <1>2
  <2>. QED  BY <2>1, <2>3, <2>4
<1>10. ASSUME NEW d \in Devices PROVE byDevice[d] <= Amount(wall, rate)
  <2>1. \A x \in U : fd(d)[x] \in Int /\ g[x] \in Int /\ fd(d)[x] <= g[x]
    <3>1. \A x \in U : fd(d)[x] = IF d \in BusyDuring(x) THEN g[x] ELSE 0
      BY <1>6
    <3>. HIDE DEF g, fd
    <3>. QED  BY <3>1, <1>5
  <2>2. SumFunctionOnSet(fd(d), U) <= SumFunctionOnSet(g, U)
    <3>. HIDE DEF g, fd, U
    <3>. QED  BY <1>2, <2>1, SumLess
  <2>. QED  BY <2>2, <1>5, <1>6
<1>11. IF bound > 0 THEN byDevice["NPU"] + byDevice["PIM"] > Amount(wall, rate)
                    ELSE byDevice["NPU"] + byDevice["PIM"] = Amount(wall, rate)
  <2>. DEFINE a == fd("NPU")
              b == fd("PIM")
              h == [x \in U |-> a[x] + b[x]]
  <2>1. "NPU" \in Devices /\ "PIM" \in Devices
    BY DEF Devices
  <2>2. ASSUME NEW x \in U
        PROVE  /\ a[x] \in Int /\ b[x] \in Int /\ h[x] = a[x] + b[x]
               /\ g[x] \in Int /\ h[x] \in Int
               /\ x.on = "BOTH" => h[x] > g[x]
               /\ x.on # "BOTH" => h[x] = g[x]
    <3>1. /\ a[x] = IF "NPU" \in BusyDuring(x) THEN g[x] ELSE 0
          /\ b[x] = IF "PIM" \in BusyDuring(x) THEN g[x] ELSE 0
      BY <1>6, <2>1
    <3>2. /\ x.on = "BOTH" => "NPU" \in BusyDuring(x) /\ "PIM" \in BusyDuring(x)
          /\ x.on # "BOTH" => ("NPU" \in BusyDuring(x) <=> "PIM" \notin BusyDuring(x))
      BY <1>2, ChargeTyped DEF BusyDuring, Devices
    <3>3. g[x] \in Nat /\ g[x] > 0 /\ h[x] = a[x] + b[x]
      BY <1>5
    <3>. HIDE DEF a, b, g, h
    <3>. QED  BY <3>1, <3>2, <3>3
  <2>. HIDE DEF a, b, g, h, U
  <2>3. SumFunctionOnSet(h, U) = SumFunctionOnSet(a, U) + SumFunctionOnSet(b, U)
    BY <1>2, <2>2, SumPlus
  <2>4. \A x \in U : g[x] \in Int /\ h[x] \in Int /\ g[x] <= h[x]
    BY <2>2
  <2>5. /\ (\E x \in U : x.on = "BOTH") => SumFunctionOnSet(g, U) < SumFunctionOnSet(h, U)
        /\ ~(\E x \in U : x.on = "BOTH") => SumFunctionOnSet(g, U) = SumFunctionOnSet(h, U)
    <3>1. /\ (\E x \in U : g[x] < h[x]) => SumFunctionOnSet(g, U) < SumFunctionOnSet(h, U)
          /\ (\A x \in U : g[x] = h[x]) => SumFunctionOnSet(g, U) = SumFunctionOnSet(h, U)
      BY <1>2, <2>4, SumLess
    <3>. QED  BY <2>2, <2>4, <3>1
  <2>6. byDevice["NPU"] = SumFunctionOnSet(a, U) /\ byDevice["PIM"] = SumFunctionOnSet(b, U)
    BY <1>6, <2>1 DEF a, b
  <2>7. byDevice["NPU"] \in Nat /\ byDevice["PIM"] \in Nat
    BY <1>6, <2>1
  <2>. HIDE DEF byDevice, bound
  <2>. QED  BY <1>5, <1>9, <1>8, <2>3, <2>5, <2>6, <2>7
<1>12. SumFunctionOnSet(byType, Kinds) = Amount(wall, rate)
  <2>. DEFINE key == [x \in U |-> TypeOf(x)]
              group == [t \in Kinds |-> {x \in U : key[x] = t}]
  <2>1. \A x \in U : key[x] \in Kinds /\ key[x] = TypeOf(x)
    BY <1>2, ChargeTyped
  <2>2. IsFiniteSet(Kinds)
    BY KindsFinite
  <2>. HIDE DEF key
  <2>3. \A t \in Kinds : {x \in U : key[x] = t} = {x \in U : TypeOf(x) = t}
    BY <2>1
  <2>4. \A t \in Kinds : group[t] = {x \in U : key[x] = t}
    OBVIOUS
  <2>. HIDE DEF group
  <2>7. \A t \in Kinds : byType[t] = SumFunctionOnSet(g, group[t])
    BY <2>3, <2>4, <1>7
  <2>5. \A x \in U : g[x] \in Int
    BY <1>5
  <2>. HIDE DEF g, U, byType
  <2>6. SumFunctionOnSet(byType, Kinds) = SumFunctionOnSet(g, U)
    <3>1. IsFiniteSet(U) /\ \A x \in U : key[x] \in Kinds
      BY <1>2, <2>1
    <3>. QED  BY ONLY <3>1, <2>2, <2>4, <2>5, <2>7, SumGroups
  <2>. QED  BY <2>6, <1>5
<1>. HIDE DEF byDevice, byType, bound, wall
<1>13. Rows(Amount(wall, rate), byDevice, byType, bound)
  BY <1>8, <1>10, <1>11, <1>12 DEF Rows
<1>. QED  BY <1>13 DEF byDevice, byType, bound, wall

-----------------------------------------------------------------------------
(* LP-Spec splits every kernel it can.                                     *)

\* No FC or attention kernel ran on one device, and what was split is on the
\* all-PIM bound.
AllSplit(c) ==
  /\ \A y \in Charges :
       y.on \in Devices /\ y.layer.type \in {"FC", "MATMUL"} => Copies(c.energy_j, y) = 0
  /\ \A y \in Charges :
       Copies(c.split_t_pim_bound, y) =
         IF y.on = "PIM" THEN Copies(c.energy_j, Split(y.layer)) ELSE 0

HasSplit(c) == \E y \in Charges : y.on = "BOTH" /\ Copies(c.energy_j, y) > 0

\* An empty ledger has nothing on one device only.
LEMMA ZeroSplit == AllSplit(Zero)
BY BagEmpty DEF AllSplit, Zero

\* Two split ledgers, merged.
LEMMA MergeSplit ==
  ASSUME NEW a, Sound(a), AllSplit(a), NEW b, Sound(b), AllSplit(b)
  PROVE  AllSplit(Merge(a, b)) /\ (HasSplit(a) \/ HasSplit(b) => HasSplit(Merge(a, b)))
<1>. DEFINE s == Merge(a, b)
<1>1. /\ s.energy_j = a.energy_j (+) b.energy_j
      /\ s.split_t_pim_bound = a.split_t_pim_bound (+) b.split_t_pim_bound
  BY DEF Merge
<1>2. /\ a.energy_j \in Money /\ b.energy_j \in Money
      /\ a.split_t_pim_bound \in Money /\ b.split_t_pim_bound \in Money
  BY DEF Sound, Ledgers
<1>3. \A y : /\ Copies(s.energy_j, y) = Copies(a.energy_j, y) + Copies(b.energy_j, y)
             /\ Copies(s.split_t_pim_bound, y) =
                  Copies(a.split_t_pim_bound, y) + Copies(b.split_t_pim_bound, y)
             /\ Copies(a.energy_j, y) \in Nat /\ Copies(b.energy_j, y) \in Nat
  BY <1>1, <1>2, MoneyPlus, BagTyped DEF Money
<1>. HIDE DEF s
<1>4. AllSplit(s)
  BY <1>3 DEF AllSplit
<1>5. HasSplit(a) \/ HasSplit(b) => HasSplit(s)
  BY <1>3 DEF HasSplit
<1>. QED  BY <1>4, <1>5 DEF s

\* A split ledger, scaled.
LEMMA ScaleSplit ==
  ASSUME NEW a, Sound(a), AllSplit(a), NEW n \in Nat \ {0}
  PROVE  AllSplit(Scale(a, n)) /\ (HasSplit(a) => HasSplit(Scale(a, n)))
<1>. DEFINE s == Scale(a, n)
<1>1. /\ s.energy_j = Times(a.energy_j, n)
      /\ s.split_t_pim_bound = Times(a.split_t_pim_bound, n)
  BY DEF Scale
<1>2. a.energy_j \in Money /\ a.split_t_pim_bound \in Money
  BY DEF Sound, Ledgers
<1>3. \A y : /\ Copies(s.energy_j, y) = n * Copies(a.energy_j, y)
             /\ Copies(s.split_t_pim_bound, y) = n * Copies(a.split_t_pim_bound, y)
             /\ Copies(a.energy_j, y) \in Nat
  BY <1>1, <1>2, TimesBag, BagTyped DEF Money
<1>. HIDE DEF s
<1>4. n * 0 = 0 /\ \A k \in Nat : k > 0 => n * k > 0
  OBVIOUS
<1>5. AllSplit(s)
  BY <1>3, <1>4 DEF AllSplit
<1>6. HasSplit(a) => HasSplit(s)
  BY <1>3, <1>4 DEF HasSplit
<1>. QED  BY <1>5, <1>6 DEF s

\* Glue runs on one device, and may.
LEMMA GlueSplit ==
  ASSUME NEW c, Sound(c), AllSplit(c), NEW l \in PlacedLayers, l.type \in NONLINEAR
  PROVE  LET s == Enter(c, Kernel(l, "NPU"), 1, "NPU", l.type)
         IN  AllSplit(s) /\ (HasSplit(c) => HasSplit(s))
<1>. DEFINE x == Kernel(l, "NPU")
            s == Enter(c, x, 1, "NPU", l.type)
<1>1. x \in Charges /\ l.type \in Kinds /\ "NPU" \in Devices /\ 1 \in Nat /\ c \in Ledgers
  BY KernelIs DEF IsCharge, Devices, Sound
<1>2. x.on = "NPU" /\ x.layer = l /\ l.type \notin {"FC", "MATMUL"}
  BY DEF Kernel, NpuCost, PimCost, NONLINEAR
<1>. HIDE DEF x
<1>3. s.energy_j = c.energy_j (+) Times(One(x), 1) /\ s.split_t_pim_bound = c.split_t_pim_bound
  BY <1>1, EnterFields
<1>4. c.energy_j \in Money
  BY <1>1 DEF Ledgers
<1>. HIDE DEF s
<1>5. \A y : /\ Copies(s.energy_j, y) = Copies(c.energy_j, y) + (IF y = x THEN 1 ELSE 0)
             /\ Copies(c.energy_j, y) \in Nat
  BY <1>1, <1>3, <1>4, MoreCopies
<1>6. \A y : Split(y.layer) # x
  BY <1>2 DEF Split
<1>7. AllSplit(s)
  BY <1>2, <1>3, <1>5, <1>6 DEF AllSplit
<1>8. HasSplit(c) => HasSplit(s)
  BY <1>5 DEF HasSplit
<1>. QED  BY <1>7, <1>8 DEF s, x

\* A split kernel enters both bounds.
LEMMA SplitSplit ==
  ASSUME NEW c, Sound(c), AllSplit(c), NEW l \in PlacedLayers, l.type \in {"FC", "MATMUL"}
  PROVE  AllSplit(SplitKernel(c, l)) /\ HasSplit(SplitKernel(c, l))
<1>. DEFINE s == SplitKernel(c, l)
            x == Split(l)
            y == Gather(l)
            k == Kernel(l, "PIM")
<1>1. x \in Charges /\ y \in Charges /\ k \in Charges /\ 1 \in Nat
  BY KernelIs DEF IsCharge
<1>2. /\ x.on = "BOTH" /\ y.on = "GATHER" /\ k.on = "PIM" /\ k.layer = l
      /\ \A z \in Charges : z.on = "PIM" => (z = k <=> Split(z.layer) = x)
      /\ \A z : Split(z.layer) # y
  <2>1. \A z \in Charges : z.on = "PIM" => z = Kernel(z.layer, "PIM")
    BY DEF Charges, Kernel, NpuCost, PimCost
  <2>2. \A a, b : Split(a) = Split(b) => a = b
    BY DEF Split
  <2>. QED  BY <2>1, <2>2 DEF Split, Gather, Kernel, NpuCost, PimCost
<1>3. /\ s.energy_j = (c.energy_j (+) Times(One(x), 1)) (+) Times(One(y), 1)
      /\ s.split_t_pim_bound = c.split_t_pim_bound (+) One(k)
  BY SplitSound
<1>4. c.energy_j \in Money /\ c.split_t_pim_bound \in Money
  BY DEF Sound, Ledgers
<1>. HIDE DEF s, x, y, k
<1>5. c.energy_j (+) Times(One(x), 1) \in Money
  BY <1>1, <1>4, EntryBag, MoneyPlus
<1>6. \A z : Copies(c.energy_j (+) Times(One(x), 1), z) =
               Copies(c.energy_j, z) + (IF z = x THEN 1 ELSE 0) /\ Copies(c.energy_j, z) \in Nat
  BY <1>1, <1>4, MoreCopies
<1>7. \A z : Copies(s.energy_j, z) =
               Copies(c.energy_j (+) Times(One(x), 1), z) + (IF z = y THEN 1 ELSE 0)
  BY <1>1, <1>3, <1>5, MoreCopies
<1>8. \A z : Copies(s.split_t_pim_bound, z) =
               Copies(c.split_t_pim_bound, z) + (IF z = k THEN 1 ELSE 0)
  <2>1. One(k) = Times(One(k), 1)
    BY <1>1, OnceIs
  <2>. QED  BY <1>1, <1>3, <1>4, <2>1, MoreCopies
<1>9. \A z : Copies(s.energy_j, z) =
               Copies(c.energy_j, z) + (IF z = x THEN 1 ELSE 0) + (IF z = y THEN 1 ELSE 0)
  BY <1>6, <1>7
<1>10. ASSUME NEW z \in Charges, z.on \in Devices, z.layer.type \in {"FC", "MATMUL"}
       PROVE  Copies(s.energy_j, z) = 0
  <2>1. z # x /\ z # y
    BY <1>2, <1>10 DEF Devices
  <2>2. Copies(c.energy_j, z) = 0
    BY <1>10 DEF AllSplit
  <2>. QED  BY <2>1, <2>2, <1>9
<1>11. ASSUME NEW z \in Charges
       PROVE  Copies(s.split_t_pim_bound, z) =
                IF z.on = "PIM" THEN Copies(s.energy_j, Split(z.layer)) ELSE 0
  <2>1. Copies(c.split_t_pim_bound, z) =
          IF z.on = "PIM" THEN Copies(c.energy_j, Split(z.layer)) ELSE 0
    BY DEF AllSplit
  <2>2. CASE z.on = "PIM"
    <3>1. Copies(s.energy_j, Split(z.layer)) =
            Copies(c.energy_j, Split(z.layer)) + (IF Split(z.layer) = x THEN 1 ELSE 0)
      BY <1>2, <1>6, <1>9
    <3>. QED  BY <2>1, <2>2, <3>1, <1>2, <1>8
  <2>3. CASE z.on # "PIM"
    BY <2>1, <2>3, <1>2, <1>8
  <2>. QED  BY <2>2, <2>3
<1>12. AllSplit(s)
  BY <1>10, <1>11 DEF AllSplit
<1>13. HasSplit(s)
  <2>1. Copies(s.energy_j, x) > 0
    BY <1>6, <1>9
  <2>. QED  BY <2>1, <1>1, <1>2 DEF HasSplit
<1>. QED  BY <1>12, <1>13 DEF s

\* The step of an LP-Spec call.
LpInv ==
  job.driver = "lp_spec" =>
    /\ AllSplit(out) /\ AllSplit(total) /\ AllSplit(record)
    /\ Costing /\ part = "block" /\ i > 1 => HasSplit(out)
    /\ part = "head" => HasSplit(total)
    /\ p > 1 => HasSplit(record)

\* LP-Spec's composers split all the way.
LEMMA LpStep == CostInv /\ LpInv /\ Compose => LpInv'
<1>. SUFFICES ASSUME CostInv, LpInv, Compose, job.driver = "lp_spec"
              PROVE  LpInv'
  BY DEF LpInv, Compose, SequentialLayer, PinnedLayer, SplitLayer, GlueLayer, EndBlock, EndPass,
         Place
<1>1. /\ AllSplit(out) /\ AllSplit(total) /\ AllSplit(record)
      /\ Costing /\ part = "block" /\ i > 1 => HasSplit(out)
      /\ part = "head" => HasSplit(total)
      /\ p > 1 => HasSplit(record)
  BY DEF LpInv
<1>2. /\ Typed /\ Sound(out) /\ Sound(total) /\ Sound(record)
      /\ p \in Nat \ {0} /\ i \in Nat \ {0} /\ part \in {"block", "head"}
  BY DEF CostInv, Books, Typed
<1>3. Costing
  BY DEF Compose, SequentialLayer, PinnedLayer, SplitLayer, GlueLayer, EndBlock, EndPass,
         Composing, ListDone
<1>4. /\ Pass.exec_model = "CONCURRENT" /\ Pass.split_attention = TRUE
      /\ Pass.block[1].type = "FC" /\ Len(Pass.block) > 0 /\ Len(Pass.block) \in Nat
  BY <1>2, <1>3, PassIs, LenProperties DEF IsPass, SplitsAll
<1>5. ASSUME Place(out'), AllSplit(out'),
             part = "block" => HasSplit(out')
      PROVE  LpInv'
  BY <1>1, <1>2, <1>5 DEF LpInv, Place
<1>6. CASE SequentialLayer
  BY <1>4, <1>6 DEF SequentialLayer, Composing
<1>7. CASE PinnedLayer
  BY <1>4, <1>7 DEF PinnedLayer, Pinned
<1>8. CASE SplitLayer
  <2>1. /\ i <= Len(List) /\ out' = SplitKernel(out, Cur) /\ Place(out')
        /\ Cur.type \in {"FC", "MATMUL"}
    BY <1>8 DEF SplitLayer, Composing, Place
  <2>2. Cur \in PlacedLayers
    BY <1>2, <1>3, <2>1, CurIs
  <2>. QED  BY <1>1, <1>2, <1>5, <2>1, <2>2, SplitSplit
<1>9. CASE GlueLayer
  <2>1. /\ i <= Len(List) /\ out' = Enter(out, Kernel(Cur, "NPU"), 1, "NPU", Cur.type)
        /\ Place(out') /\ Cur.type \in NONLINEAR
    BY <1>9 DEF GlueLayer, Composing, Place
  <2>2. Cur \in PlacedLayers
    BY <1>2, <1>3, <2>1, CurIs
  <2>3. AllSplit(out') /\ (HasSplit(out) => HasSplit(out'))
    BY <1>1, <1>2, <2>1, <2>2, GlueSplit
  <2>4. part = "block" => i # 1
    BY <1>4, <2>1 DEF Cur, List, NONLINEAR
  <2>. QED  BY <1>1, <1>2, <1>3, <1>5, <2>1, <2>3, <2>4
<1>10. Sound(Returned) /\ AllSplit(Returned) /\ (HasSplit(out) => HasSplit(Returned))
  <2>1. Sound(Returned)
    BY <1>3, ReturnedSound
  <2>2. Returned.energy_j = out.energy_j /\ Returned.split_t_pim_bound = out.split_t_pim_bound
    BY <1>2 DEF Returned, Sound, Ledgers
  <2>. QED  BY <1>1, <2>1, <2>2 DEF AllSplit, HasSplit
<1>11. ListDone /\ part = "block" => HasSplit(Returned)
  <2>1. ListDone /\ part = "block" => i > 1
    BY <1>2, <1>4 DEF ListDone, List
  <2>. QED  BY <2>1, <1>1, <1>3, <1>10
<1>12. CASE EndBlock
  <2>. DEFINE scaled == Scale(Returned, job.model.n_layers)
  <2>1. /\ ListDone /\ part = "block" /\ part' = "head" /\ out' = Zero
        /\ UNCHANGED <<job, passes, p, record>>
        /\ total' = IF Pass.exec_model = "SEQUENTIAL"
                    THEN InterlayerHops(scaled, Pass.block, job.model) ELSE scaled
    BY <1>12 DEF EndBlock, Fresh
  <2>2. total' = scaled
    BY <2>1, <1>4
  <2>3. job.model.n_layers \in Nat \ {0}
    BY <1>2 DEF Typed, IsJob, IsModel, Positive
  <2>4. AllSplit(scaled) /\ HasSplit(scaled)
    BY <1>10, <1>11, <2>1, <2>3, ScaleSplit
  <2>. HIDE DEF scaled
  <2>. QED  BY <1>1, <2>1, <2>2, <2>4, ZeroSplit DEF LpInv
<1>13. CASE EndPass
  <2>. DEFINE whole == IF Pass.forward THEN Merge(total, Returned) ELSE Returned
  <2>1. /\ ListDone /\ (part = "head" \/ ~Pass.forward)
        /\ record' = Merge(record, whole) /\ total' = Zero /\ part' = "block" /\ p' = p + 1
        /\ out' = Zero /\ i' = 1 /\ UNCHANGED <<job, passes>>
    BY <1>13 DEF EndPass, Fresh
  <2>2. Sound(whole) /\ AllSplit(whole)
    BY <1>1, <1>2, <1>10, MergeSound, MergeSplit
  <2>3. HasSplit(whole)
    <3>1. CASE part = "head"
      <4>1. Pass.forward
        BY <1>2, <3>1 DEF Typed
      <4>. QED  BY <1>1, <1>2, <1>10, <3>1, <4>1, MergeSplit
    <3>2. CASE part = "block"
      <4>1. ~Pass.forward
        BY <2>1, <3>2
      <4>. QED  BY <1>11, <2>1, <3>2, <4>1
    <3>. QED  BY <1>2, <3>1, <3>2
  <2>. HIDE DEF whole
  <2>4. AllSplit(record') /\ HasSplit(record')
    BY <1>1, <1>2, <2>1, <2>2, <2>3, MergeSplit
  <2>. QED  BY <1>1, <2>1, <2>4, ZeroSplit DEF LpInv
<1>. QED  BY <1>6, <1>7, <1>8, <1>9, <1>12, <1>13 DEF Compose

\* The invariant speaks of the variables only.
LEMMA LpStutter == LpInv /\ UNCHANGED vars => LpInv'
BY DEF LpInv, vars, AllSplit, HasSplit, Costing

-----------------------------------------------------------------------------
(* A balanced split beats either device alone.                             *)

\* Both devices finish together, before either would alone.
LEMMA SplitFaster ==
  ASSUME NEW b \in Nat \ {0}, NEW n \in Nat \ {0}, NEW m \in Nat \ {0}, b * (n + m) = n * m
  PROVE  b < n /\ b < m
<1>1. b * (n + m) = b * n + b * m /\ b * n > 0 /\ b * m > 0
  OBVIOUS
<1>2. b >= n => b * m >= n * m
  OBVIOUS
<1>3. b >= m => b * n >= n * m
  OBVIOUS
<1>. QED  BY <1>1, <1>2, <1>3

\* The time of the split kernels is below the bound of either device.
LEMMA BoundIsLater ==
  ASSUME NEW wall \in Money, NEW dev \in Devices, NEW bound \in Money,
         \A y \in Charges :
           Copies(bound, y) = IF y.on = dev THEN Copies(wall, Split(y.layer)) ELSE 0,
         NEW S, S = {x \in DOMAIN wall : x.on = "BOTH"}, S # {},
         NEW g, \A x \in S : g[x] = Copies(wall, x) * Rated(Seconds)[x]
  PROVE  SumFunctionOnSet(g, S) < Amount(bound, Seconds)
<1>. DEFINE w == Rated(Seconds)
            N == DOMAIN bound
            e == [x \in S |-> Copies(wall, x) * w[Kernel(x.layer, dev)]]
            h == [y \in N |-> Copies(bound, y) * w[y]]
            key == [x \in S |-> Kernel(x.layer, dev)]
            back == [y \in N |-> Split(y.layer)]
<1>1. /\ S \in SUBSET Charges /\ IsFiniteSet(S) /\ N \in SUBSET Charges /\ IsFiniteSet(N)
      /\ \A x : /\ Copies(wall, x) \in Nat /\ Copies(bound, x) \in Nat
                /\ x \in DOMAIN wall <=> Copies(wall, x) > 0
                /\ x \in N <=> Copies(bound, x) > 0
  BY BagTyped, FS_Subset DEF Money
<1>2. Seconds \in Rates /\ \A x \in Charges : w[x] \in Nat \ {0}
  BY ReportAssumption, RatedTyped DEF Rates
<1>3. ASSUME NEW x \in S
      PROVE  /\ x \in Charges /\ x.on = "BOTH" /\ x = Split(x.layer)
             /\ Kernel(x.layer, dev) \in Charges /\ Kernel(x.layer, dev).on = dev
             /\ Kernel(x.layer, dev).layer = x.layer
             /\ x.layer.type \in {"FC", "MATMUL"} /\ TypeOf(x) = x.layer.type
             /\ TypeOf(Kernel(x.layer, dev)) = x.layer.type
  <2>1. x \in Charges /\ x.on = "BOTH" /\ x.layer \in PlacedLayers
        /\ x.layer.type \in {"FC", "MATMUL"} /\ TypeOf(x) = x.layer.type
    BY <1>1, ChargeTyped
  <2>2. x = Split(x.layer)
    BY <2>1 DEF Charges, Split
  <2>3. IsCharge(Kernel(x.layer, dev), dev, {dev}, x.layer.type)
    BY <2>1, KernelIs DEF Devices
  <2>. QED  BY <2>1, <2>2, <2>3 DEF IsCharge, Kernel, NpuCost, PimCost
<1>4. ASSUME NEW x \in S
      PROVE  w[x] < w[Kernel(x.layer, dev)]
  <2>. DEFINE type == x.layer.type
  <2>1. /\ w[x] = Seconds[<<type, "BOTH">>] /\ w[Kernel(x.layer, dev)] = Seconds[<<type, dev>>]
        /\ type \in {"FC", "MATMUL"}
    BY <1>3 DEF Rated
  <2>2. /\ Seconds[<<type, "BOTH">>] \in Nat \ {0} /\ Seconds[<<type, "NPU">>] \in Nat \ {0}
        /\ Seconds[<<type, "PIM">>] \in Nat \ {0}
    <3>1. <<type, "BOTH">> \in Places /\ <<type, "NPU">> \in Places /\ <<type, "PIM">> \in Places
      BY <2>1 DEF Places, LayerTypes, Devices
    <3>. QED  BY <3>1, ReportAssumption
  <2>3. Seconds[<<type, "BOTH">>] * (Seconds[<<type, "NPU">>] + Seconds[<<type, "PIM">>])
          = Seconds[<<type, "NPU">>] * Seconds[<<type, "PIM">>]
    BY <2>1, ReportAssumption
  <2>4. Seconds[<<type, "BOTH">>] < Seconds[<<type, "NPU">>]
        /\ Seconds[<<type, "BOTH">>] < Seconds[<<type, "PIM">>]
    BY ONLY <2>2, <2>3, SplitFaster
  <2>. QED  BY <2>1, <2>4 DEF Devices
<1>5. ASSUME NEW x \in S
      PROVE  g[x] \in Int /\ e[x] \in Int /\ g[x] < e[x]
  <2>1. Copies(wall, x) \in Nat \ {0}
    BY <1>1
  <2>2. w[x] \in Nat \ {0} /\ w[Kernel(x.layer, dev)] \in Nat \ {0}
    BY <1>2, <1>3
  <2>3. \A k, a, b \in Nat \ {0} : a < b => k * a \in Int /\ k * b \in Int /\ k * a < k * b
    OBVIOUS
  <2>. QED  BY <1>4, <2>1, <2>2, <2>3
<1>6. ASSUME NEW x \in S
      PROVE  key[x] \in N /\ back[key[x]] = x
  <2>1. Copies(bound, Kernel(x.layer, dev)) = Copies(wall, x)
    BY <1>3
  <2>2. Kernel(x.layer, dev) \in N
    BY <1>1, <2>1
  <2>. QED  BY <1>3, <2>2
<1>7. ASSUME NEW y \in N
      PROVE  back[y] \in S /\ key[back[y]] = y /\ h[y] = e[back[y]]
  <2>1. y \in Charges /\ Copies(bound, y) > 0
    BY <1>1
  <2>2. y.on = dev /\ Copies(bound, y) = Copies(wall, Split(y.layer))
    BY <2>1
  <2>3. y = Kernel(y.layer, dev)
    BY <2>1, <2>2 DEF Charges, Kernel, NpuCost, PimCost, Devices
  <2>4. Split(y.layer) \in S /\ Split(y.layer).layer = y.layer
    BY <1>1, <2>1, <2>2 DEF Split
  <2>. QED  BY <2>2, <2>3, <2>4
<1>. HIDE DEF e, h, key, back, N, w
<1>8. SumFunctionOnSet(h, N) = SumFunctionOnSet(e, S)
  <2>1. /\ \A x \in S : e[x] \in Int /\ key[x] \in N /\ back[key[x]] = x
        /\ \A y \in N : back[y] \in S /\ key[back[y]] = y /\ h[y] = e[back[y]]
        /\ IsFiniteSet(S) /\ IsFiniteSet(N)
    BY <1>1, <1>5, <1>6, <1>7
  <2>. QED  BY ONLY <2>1, SumRelabel
<1>9. SumFunctionOnSet(g, S) < SumFunctionOnSet(e, S)
  <2>1. \A x \in S : g[x] \in Int /\ e[x] \in Int /\ g[x] <= e[x] /\ g[x] < e[x]
    BY <1>5
  <2>. QED  BY <1>1, <2>1, SumLess
<1>10. Amount(bound, Seconds) = SumFunctionOnSet(h, N)
  BY <1>1, <1>2, AmountOver DEF h, N, w
<1>. QED  BY <1>8, <1>9, <1>10

\* The kernels of a split ledger are done before either device would be.
LEMMA SplitWins ==
  ASSUME NEW c, Sound(c), c.time_s = c.energy_j, AllSplit(c), HasSplit(c)
  PROVE  /\ Amount(c.time_by_type["FC"], Seconds) + Amount(c.time_by_type["MATMUL"], Seconds)
              < Amount(c.split_t_npu_bound, Seconds)
         /\ Amount(c.time_by_type["FC"], Seconds) + Amount(c.time_by_type["MATMUL"], Seconds)
              < Amount(c.split_t_pim_bound, Seconds)
<1>. DEFINE wall == c.energy_j
            w == Rated(Seconds)
            U == DOMAIN wall
            S == {x \in U : x.on = "BOTH"}
            g == [x \in U |-> Copies(wall, x) * w[x]]
            fc == [x \in U |-> Copies(c.time_by_type["FC"], x) * w[x]]
            mm == [x \in U |-> Copies(c.time_by_type["MATMUL"], x) * w[x]]
            h == [x \in U |-> fc[x] + mm[x]]
            a == Amount(c.time_by_type["FC"], Seconds)
            b == Amount(c.time_by_type["MATMUL"], Seconds)
<1>1. /\ c \in Ledgers /\ Views(c) /\ wall \in Money /\ c.split_t_npu_bound \in Money
      /\ c.split_t_pim_bound \in Money
      /\ "FC" \in Kinds /\ "MATMUL" \in Kinds
      /\ c.time_by_type["FC"] \in Money /\ c.time_by_type["MATMUL"] \in Money
  BY LedgerTyped DEF Sound, Kinds, LayerTypes
<1>2. /\ U \in SUBSET Charges /\ IsFiniteSet(U)
      /\ \A x : Copies(wall, x) \in Nat /\ (x \in U <=> Copies(wall, x) > 0)
  BY <1>1, BagTyped DEF Money
<1>3. Seconds \in Rates /\ \A x \in Charges : w[x] \in Nat \ {0}
  BY ReportAssumption, RatedTyped DEF Rates
<1>4. \A x \in Charges : \A t \in Kinds :
        Copies(c.time_by_type[t], x) = IF t = TypeOf(x) THEN Copies(wall, x) ELSE 0
  BY <1>1 DEF Views
<1>5. ASSUME NEW x \in U
      PROVE  x \in S <=> TypeOf(x) \in {"FC", "MATMUL"}
  <2>1. x \in Charges /\ Copies(wall, x) > 0
    BY <1>2
  <2>2. x.on = "BOTH" => TypeOf(x) \in {"FC", "MATMUL"}
    BY <2>1, ChargeTyped
  <2>3. ASSUME x.on # "BOTH", TypeOf(x) \in {"FC", "MATMUL"} PROVE FALSE
    <3>1. x.on \in {"NPU", "PIM"} /\ x.layer.type \in {"FC", "MATMUL"}
      BY <2>1, <2>3, ChargeTyped
    <3>2. Copies(wall, x) = 0
      BY <2>1, <3>1 DEF AllSplit, Devices
    <3>. QED  BY <2>1, <3>2
  <2>. QED  BY <2>2, <2>3
<1>6. ASSUME NEW x \in U
      PROVE  /\ g[x] \in Int /\ fc[x] \in Int /\ mm[x] \in Int /\ h[x] = fc[x] + mm[x]
             /\ h[x] = IF x \in S THEN g[x] ELSE 0
  <2>1. x \in Charges /\ Copies(wall, x) \in Nat /\ w[x] \in Nat
    BY <1>2, <1>3
  <2>2. /\ Copies(c.time_by_type["FC"], x) = IF "FC" = TypeOf(x) THEN Copies(wall, x) ELSE 0
        /\ Copies(c.time_by_type["MATMUL"], x) = IF "MATMUL" = TypeOf(x) THEN Copies(wall, x) ELSE 0
    BY <1>1, <1>4, <2>1
  <2>3. \A m, n \in Nat : m * n \in Int /\ 0 * n = 0
    OBVIOUS
  <2>4. x \in S <=> TypeOf(x) \in {"FC", "MATMUL"}
    BY <1>5
  <2>. HIDE DEF S
  <2>. QED  BY <2>1, <2>2, <2>3, <2>4
<1>7. DOMAIN c.time_by_type["FC"] \subseteq U /\ DOMAIN c.time_by_type["MATMUL"] \subseteq U
  <2>1. ASSUME NEW t \in Kinds, c.time_by_type[t] \in Money, NEW x \in DOMAIN c.time_by_type[t]
        PROVE  x \in U
    <3>1. x \in Charges /\ Copies(c.time_by_type[t], x) > 0
      BY <2>1, BagTyped DEF Money
    <3>2. Copies(c.time_by_type[t], x) = Copies(wall, x) \/ Copies(c.time_by_type[t], x) = 0
      BY <3>1, <1>4
    <3>. QED  BY <1>2, <3>1, <3>2
  <2>. QED  BY <1>1, <2>1
<1>8. a = SumFunctionOnSet(fc, U) /\ b = SumFunctionOnSet(mm, U)
  BY <1>1, <1>2, <1>3, <1>7, AmountOver
<1>9. a \in Int /\ b \in Int
  BY <1>1, <1>3, AmountIs
<1>10. S \in SUBSET U /\ (\A x \in S : g[x] = Copies(wall, x) * w[x])
  OBVIOUS
<1>11. S # {}
  <2>1. PICK y \in Charges : y.on = "BOTH" /\ Copies(wall, y) > 0
    BY DEF HasSplit
  <2>. QED  BY <1>2, <2>1
<1>12. S = {x \in DOMAIN wall : x.on = "BOTH"}
  OBVIOUS
<1>. HIDE DEF U, S, g, fc, mm, h, a, b, w
<1>13. SumFunctionOnSet(h, U) = a + b
  BY <1>2, <1>6, <1>8, SumPlus
<1>14. SumFunctionOnSet(h, U) = SumFunctionOnSet(g, S)
  <2>1. SumFunctionOnSet(h, U) = SumFunctionOnSet(h, S) + SumFunctionOnSet(h, U \ S)
    BY <1>2, <1>6, <1>10, SumParts
  <2>2. IsFiniteSet(S) /\ IsFiniteSet(U \ S)
    BY <1>2, <1>10, FS_Subset
  <2>3. \A x \in U \ S : h[x] = 0
    BY <1>6
  <2>4. SumFunctionOnSet(h, U \ S) = 0
    BY <2>2, <2>3, SumZero
  <2>5. \A x \in S : h[x] \in Int /\ g[x] \in Int /\ h[x] <= g[x] /\ h[x] = g[x]
    BY <1>6, <1>10
  <2>6. SumFunctionOnSet(h, S) = SumFunctionOnSet(g, S) /\ SumFunctionOnSet(h, S) \in Int
    BY <2>2, <2>5, SumLess, SumInt
  <2>. QED  BY <2>1, <2>4, <2>6
<1>15. SumFunctionOnSet(g, S) < Amount(c.split_t_npu_bound, Seconds)
  <2>1. \A y \in Charges : Copies(c.split_t_npu_bound, y) =
          IF y.on = "NPU" THEN Copies(wall, Split(y.layer)) ELSE 0
    BY <1>1 DEF Views
  <2>2. "NPU" \in Devices
    BY DEF Devices
  <2>. HIDE DEF wall
  <2>. QED  BY ONLY <2>1, <2>2, <1>1, <1>10, <1>11, <1>12, BoundIsLater DEF w
<1>16. SumFunctionOnSet(g, S) < Amount(c.split_t_pim_bound, Seconds)
  <2>1. \A y \in Charges : Copies(c.split_t_pim_bound, y) =
          IF y.on = "PIM" THEN Copies(wall, Split(y.layer)) ELSE 0
    BY DEF AllSplit
  <2>2. "PIM" \in Devices
    BY DEF Devices
  <2>. HIDE DEF wall
  <2>. QED  BY ONLY <2>1, <2>2, <1>1, <1>10, <1>11, <1>12, BoundIsLater DEF w
<1>. QED  BY <1>13, <1>14, <1>15, <1>16 DEF a, b

-----------------------------------------------------------------------------
(* A call: its prefill and steps one after the other, each from nothing.   *)

IsSeq(s) == \E S : s \in Seq(S)

\* A sequence with one element more.
LEMMA AppendIs ==
  ASSUME NEW s, IsSeq(s), NEW e
  PROVE  /\ IsSeq(Append(s, e)) /\ Len(s) \in Nat /\ Len(Append(s, e)) = Len(s) + 1
         /\ \A k \in 1..Len(s) : Append(s, e)[k] = s[k]
         /\ Append(s, e)[Len(s) + 1] = e
<1>1. PICK S : s \in Seq(S)
  BY DEF IsSeq
<1>. DEFINE T == S \cup {e}
<1>2. s \in Seq(T) /\ e \in T
  BY <1>1, SeqMonotonic
<1>. HIDE DEF T
<1>3. Append(s, e) \in Seq(T)
  BY <1>2, AppendProperties
<1>4. /\ Len(s) \in Nat /\ Len(Append(s, e)) = Len(s) + 1
      /\ \A k \in 1..Len(s) : Append(s, e)[k] = s[k]
      /\ Append(s, e)[Len(s) + 1] = e
  BY <1>2, AppendProperties, LenProperties
<1>. QED  BY <1>3, <1>4 DEF IsSeq

\* The prefill, and then the steps.
LEMMA JobsAre ==
  ASSUME NEW c \in Calls
  PROVE  /\ Len(c.steps) \in Nat \ {0} /\ DOMAIN c.steps = 1..Len(c.steps)
         /\ Len(JobsOf(c)) = Len(c.steps) + 1
         /\ JobsOf(c)[1] = PrefillJob(c)
         /\ \A k \in 1..Len(c.steps) : JobsOf(c)[k + 1] = StepJob(c, k)
         /\ \A k \in 1..(Len(c.steps) + 1) : JobsOf(c)[k] \in Jobs /\ IsJob(JobsOf(c)[k])
<1>. DEFINE n == Len(c.steps)
            rest == [k \in DOMAIN c.steps |-> StepJob(c, k)]
            S == {PrefillJob(c)} \cup {StepJob(c, k) : k \in 1..n}
            first == <<PrefillJob(c)>>
<1>1. n \in Nat \ {0} /\ DOMAIN c.steps = 1..n
  BY CallsAssumption DEF Positive
<1>2. first \in Seq(S) /\ Len(first) = 1 /\ first[1] = PrefillJob(c)
  <2>1. PrefillJob(c) \in S
    OBVIOUS
  <2>. HIDE DEF S
  <2>. QED  BY <2>1
<1>3. rest \in Seq(S) /\ Len(rest) = n /\ \A k \in 1..n : rest[k] = StepJob(c, k)
  <2>1. rest = [k \in 1..n |-> StepJob(c, k)]
    BY <1>1
  <2>2. \A k \in 1..n : StepJob(c, k) \in S
    OBVIOUS
  <2>. HIDE DEF S, n
  <2>3. rest \in [1..n -> S]
    BY <2>1, <2>2
  <2>. QED  BY <1>1, <2>1, <2>3
<1>4. JobsOf(c) = first \o rest
  BY DEF JobsOf
<1>. HIDE DEF S, n, rest, first
<1>5. /\ Len(first \o rest) = 1 + n /\ (first \o rest)[1] = first[1]
      /\ \A k \in 1..n : (first \o rest)[1 + k] = rest[k]
  <2>1. /\ Len(first \o rest) = Len(first) + Len(rest)
        /\ \A k \in 1..Len(first) : (first \o rest)[k] = first[k]
        /\ \A k \in 1..Len(rest) : (first \o rest)[Len(first) + k] = rest[k]
    <3>1. first \in Seq(S) /\ rest \in Seq(S)
      BY <1>2, <1>3
    <3>. QED  BY ONLY <3>1, Joined
  <2>. QED  BY <1>2, <1>3, <2>1
<1>6. \A k \in 1..n : 1 + k = k + 1
  BY <1>1
<1>7. Len(JobsOf(c)) = n + 1 /\ \A k \in 1..n : JobsOf(c)[k + 1] = StepJob(c, k)
  BY <1>1, <1>3, <1>4, <1>5, <1>6
<1>8. \A k \in 1..(n + 1) : JobsOf(c)[k] \in Jobs /\ IsJob(JobsOf(c)[k])
  BY <1>7, CallsAssumption, CostAssumption
<1>. QED  BY <1>1, <1>2, <1>4, <1>5, <1>7, <1>8 DEF n

\* The split kernels of a recorded step were done before either device alone.
Beats(r) ==
  /\ r.time_by_type["FC"] + r.time_by_type["MATMUL"] < r.split_t_npu_bound
  /\ r.time_by_type["FC"] + r.time_by_type["MATMUL"] < r.split_t_pim_bound

\* A record of a driver's step s, see StepRecord.
IsRecord(r, s, driver) ==
  /\ r.prompt_id = s.prompt_id /\ r.tokens_emitted \in Nat /\ r.energy_j \in Nat
  /\ r.crossings \in Nat /\ r.split_t_pim_bound \in Nat
  /\ Rows(r.time_s, r.time_by_device, r.time_by_type, r.split_t_npu_bound)
  /\ driver = "lp_spec" => Beats(r)

\* A CAPIM step emits a number of tokens.
LEMMA TokensTyped ==
  ASSUME NEW j, IsJob(j), j.driver = "capim"
  PROVE  Tokens(j.step, j.cfg) \in Nat
<1>. DEFINE S == {k \in PruneTree(j.step, j.cfg.sigma_th) : j.step.nodes[k].accepted}
<1>1. IsFiniteSet(DOMAIN j.step.nodes) /\ j.step.accepted_length \in Nat
  BY DEF IsJob
<1>2. S \subseteq DOMAIN j.step.nodes
  BY DEF PruneTree
<1>3. Cardinality(S) \in Nat
  BY <1>1, <1>2, FS_Subset, FS_CardinalityType
<1>. HIDE DEF S
<1>4. Tokens(j.step, j.cfg) =
        (IF Cardinality(S) < j.step.accepted_length THEN Cardinality(S)
                                                    ELSE j.step.accepted_length) + 1
  BY DEF Tokens, GatedAccept, S
<1>. QED  BY <1>1, <1>3, <1>4

\* A costed step leaves its record.
LEMMA RecordTyped ==
  ASSUME NEW j, IsJob(j), j.driver # "prefill", NEW cost, Sound(cost),
         cost.time_s = cost.energy_j, j.driver = "lp_spec" => AllSplit(cost) /\ HasSplit(cost)
  PROVE  IsRecord(StepRecord(j, cost), j.step, j.driver)
<1>. DEFINE r == StepRecord(j, cost)
<1>1. Seconds \in Rates /\ Joules \in Rates
  BY ReportAssumption DEF Rates
<1>2. Rows(Amount(cost.time_s, Seconds), Amounts(cost.time_by_device, Seconds),
           Amounts(cost.time_by_type, Seconds), Amount(cost.split_t_npu_bound, Seconds))
  BY <1>1, RowsAdd
<1>3. cost.energy_j \in Money /\ cost.crossings \in Nat /\ cost.split_t_pim_bound \in Money
  BY DEF Sound, Ledgers
<1>4. Amount(cost.energy_j, Joules) \in Nat /\ Amount(cost.split_t_pim_bound, Seconds) \in Nat
  BY <1>1, <1>3, AmountIs
<1>5. r.tokens_emitted \in Nat
  <2>1. r.tokens_emitted = IF j.driver = "capim" THEN Tokens(j.step, j.cfg)
                           ELSE j.step.accepted_length + 1
    BY DEF StepRecord
  <2>2. j.step.accepted_length \in Nat
    BY DEF IsJob
  <2>. QED  BY <2>1, <2>2, TokensTyped
<1>6. /\ r.prompt_id = j.step.prompt_id /\ r.crossings = cost.crossings
      /\ r.time_s = Amount(cost.time_s, Seconds)
      /\ r.energy_j = Amount(cost.energy_j, Joules)
      /\ r.time_by_device = Amounts(cost.time_by_device, Seconds)
      /\ r.time_by_type = Amounts(cost.time_by_type, Seconds)
      /\ r.split_t_npu_bound = Amount(cost.split_t_npu_bound, Seconds)
      /\ r.split_t_pim_bound = Amount(cost.split_t_pim_bound, Seconds)
  BY DEF StepRecord
<1>7. j.driver = "lp_spec" => Beats(r)
  <2>1. /\ r.time_by_type["FC"] = Amount(cost.time_by_type["FC"], Seconds)
        /\ r.time_by_type["MATMUL"] = Amount(cost.time_by_type["MATMUL"], Seconds)
    <3>1. DOMAIN cost.time_by_type = Kinds
      BY DEF Sound, Ledgers
    <3>. QED  BY <1>6, <3>1 DEF Amounts, Kinds, LayerTypes
  <2>. HIDE DEF r
  <2>. QED  BY <2>1, <1>6, SplitWins DEF Beats
<1>. HIDE DEF r
<1>. QED  BY <1>2, <1>3, <1>4, <1>5, <1>6, <1>7 DEF IsRecord, r

\* One pass over each prompt.
LEMMA PrefillCount ==
  ASSUME NEW c \in Calls
  PROVE  /\ IsFiniteSet(Prompts(c.steps)) /\ Cardinality(Prompts(c.steps)) \in Nat \ {0}
         /\ Len(Passes(PrefillJob(c))) = Cardinality(Prompts(c.steps))
<1>. DEFINE Q == Prompts(c.steps)
            D == DOMAIN c.steps
            f == [s \in D |-> c.steps[s].prompt_id]
<1>1. /\ D = 1..Len(c.steps) /\ Len(c.steps) \in Nat \ {0}
      /\ IsJob(PrefillJob(c))
  <2>1. 1 \in 1..(Len(c.steps) + 1)
    BY JobsAre
  <2>. QED  BY <2>1, JobsAre
<1>2. IsFiniteSet(D)
  BY <1>1, FS_Interval
<1>3. Q = {f[s] : s \in D} /\ f \in Surjection(D, Q)
  BY DEF Prompts, Surjection
<1>4. IsFiniteSet(Q)
  BY <1>2, <1>3, FS_Surjection
<1>5. Q # {}
  <2>1. 1 \in D
    BY <1>1
  <2>. QED  BY <2>1, <1>3
<1>6. Cardinality(Q) \in Nat \ {0}
  BY <1>4, <1>5, FS_CardinalityType, FS_EmptySet
<1>. HIDE DEF Q, D, f
<1>7. SetToSeq(Q) \in [1..Cardinality(Q) -> Q]
  BY <1>4, Enumerated
<1>8. Passes(PrefillJob(c)) = PrefillPasses(c.model, c.steps)
  BY DEF Passes, PrefillJob
<1>. DEFINE prompts == SetToSeq({c.steps[s].prompt_id : s \in DOMAIN c.steps})
            body(j) == LET len(q) == LET cs == {c.steps[s].context_length :
                                               s \in {s \in DOMAIN c.steps : c.steps[s].prompt_id = q}}
                                     IN  CHOOSE cc \in cs : \A c2 \in cs : cc <= c2
                       IN  Forward(c.model, len(prompts[j]), len(prompts[j]), 1, RouterAllNpu, OnNpu)
<1>9. PrefillPasses(c.model, c.steps) = [j \in DOMAIN prompts |-> body(j)]
  BY DEF PrefillPasses
<1>10. DOMAIN prompts = 1..Cardinality(Q)
  BY <1>7 DEF Q, Prompts
<1>. HIDE DEF prompts, body
<1>11. Len([j \in DOMAIN prompts |-> body(j)]) = Cardinality(Q)
  BY <1>6, <1>10
<1>. QED  BY <1>4, <1>6, <1>8, <1>9, <1>11 DEF Q

\* Nothing is half composed once the step is costed.
AtRest == ~Costing => out = Zero /\ lanes = NoLanes /\ total = Zero /\ i = 1

\* The jobs costed so far are recorded in order, the next is under way.
Recordings ==
  /\ call \in Calls /\ IsSeq(costed) /\ Len(costed) <= Len(call.steps) + 1
  /\ Remaining => job = JobsOf(call)[Len(costed) + 1] /\ passes = Passes(job)
  /\ Len(costed) > 0 => /\ costed[1].time_s \in Nat
                        /\ costed[1].prompts = Cardinality(Prompts(call.steps))
  /\ \A k \in 1..Len(call.steps) : 
       k + 1 <= Len(costed) => IsRecord(costed[k + 1], call.steps[k], call.driver)

\* The report is the finished call's.
Told ==
  report # <<>> =>
    /\ ~Remaining
    /\ report[1].summary = Summarize(Tail(costed), Ratio(costed[1].time_s, costed[1].prompts))
    /\ report[1].breakdown = Breakdown(Tail(costed))

CallInv == CostInv /\ LpInv /\ AtRest /\ Recordings /\ Told

\* A finished pass leaves nothing behind.
LEMMA RestStep == CostInv /\ Compose => AtRest'
<1>. SUFFICES ASSUME CostInv, Compose
              PROVE  AtRest'
  OBVIOUS
<1>1. CASE SequentialLayer \/ PinnedLayer \/ SplitLayer \/ GlueLayer
  BY <1>1 DEF SequentialLayer, PinnedLayer, SplitLayer, GlueLayer, Composing, Place, Costing,
              AtRest
<1>2. CASE EndBlock
  BY <1>2 DEF EndBlock, ListDone, Costing, AtRest
<1>3. CASE EndPass
  BY <1>3 DEF EndPass, Fresh, AtRest
<1>. QED  BY <1>1, <1>2, <1>3 DEF Compose

\* Composing a job does not change the job.
LEMMA ComposeKeeps == Compose => UNCHANGED <<job, passes>>
BY DEF Compose, SequentialLayer, PinnedLayer, SplitLayer, GlueLayer, EndBlock, EndPass, Place

\* The next job starts on an empty record.
LEMMA NextStepInv ==
  ASSUME CostInv, LpInv, AtRest, call \in Calls, ~Costing, NextStep, Len(costed) \in Nat
  PROVE  /\ CostInv' /\ LpInv' /\ AtRest'
         /\ Len(costed) + 2 <= Len(call.steps) + 1 =>
              job' = JobsOf(call)[Len(costed) + 2] /\ passes' = Passes(job')
<1>. DEFINE next == Len(costed) + 2
            jobs == JobsOf(call)
<1>1. Typed /\ Books /\ out = Zero /\ lanes = NoLanes /\ total = Zero /\ i = 1
  BY DEF CostInv, AtRest
<1>2. Len(jobs) = Len(call.steps) + 1 /\ Len(call.steps) \in Nat /\ next \in Nat \ {0}
  BY JobsAre
<1>3. CASE next <= Len(jobs)
  <2>1. /\ job' = jobs[next] /\ passes' = Passes(job') /\ p' = 1 /\ record' = Zero
        /\ UNCHANGED <<part, i, prev, out, lanes, total>>
    BY <1>3 DEF NextStep
  <2>2. IsJob(job')
    BY <1>2, <1>3, <2>1, JobsAre
  <2>3. passes' \in Seq(PassesFor(job'))
    BY <2>1, <2>2, PassesTyped
  <2>4. part = "block"
    BY <1>1 DEF Typed
  <2>5. Typed'
    BY <1>1, <2>1, <2>2, <2>3, <2>4 DEF Typed
  <2>6. Sound(total') /\ total'.time_s = total'.energy_j
    BY <1>1, <2>1 DEF Books
  <2>7. Sound(record') /\ record'.time_s = record'.energy_j
    BY <2>1, ZeroSound
  <2>8. CostInv'
    BY <1>1, <2>1, <2>5, <2>6, <2>7, FreshStep
  <2>9. LpInv'
    BY <1>1, <2>1, <2>4, ZeroSplit DEF LpInv
  <2>. QED  BY <1>1, <2>1, <2>8, <2>9 DEF AtRest
<1>4. CASE ~(next <= Len(jobs))
  <2>1. UNCHANGED vars
    BY <1>4 DEF NextStep
  <2>2. CostInv'
    BY <2>1, CostStutter
  <2>3. AtRest'
    BY <2>1 DEF AtRest, vars, Costing
  <2>4. LpInv'
    BY <2>1, LpStutter
  <2>. QED  BY <1>2, <1>4, <2>2, <2>3, <2>4
<1>. QED  BY <1>3, <1>4

\* A call starts with its prefill.
LEMMA CallInit == ReportInit => CallInv
<1>. SUFFICES ASSUME ReportInit
              PROVE  CallInv
  OBVIOUS
<1>1. call \in Calls /\ job = JobsOf(call)[1] /\ Init /\ costed = <<>> /\ report = <<>>
  BY DEF ReportInit
<1>2. CostInv
  BY <1>1, CostInit
<1>3. AtRest /\ LpInv
  BY <1>1, ZeroSplit DEF Init, AtRest, LpInv
<1>4. IsSeq(costed) /\ Len(costed) = 0
  <2>1. <<>> \in Seq({}) /\ Len(<<>>) = 0
    OBVIOUS
  <2>. QED  BY <2>1, <1>1 DEF IsSeq
<1>5. Recordings
  BY <1>1, <1>4, JobsAre DEF Recordings, Init
<1>6. Told
  BY <1>1 DEF Told
<1>. QED  BY <1>2, <1>3, <1>5, <1>6 DEF CallInv

\* Costing a job changes no record.
LEMMA ComposeCallStep == CallInv /\ ComposeCall => CallInv'
<1>. SUFFICES ASSUME CallInv, ComposeCall
              PROVE  CallInv'
  OBVIOUS
<1>1. CostInv /\ LpInv /\ Compose /\ UNCHANGED <<call, costed, report, job, passes>>
  BY ComposeKeeps DEF CallInv, ComposeCall, reportVars
<1>2. CostInv' /\ LpInv' /\ AtRest'
  BY <1>1, ComposeStep, LpStep, RestStep
<1>3. Recordings'
  BY <1>1 DEF CallInv, Recordings, Remaining
<1>4. Told'
  BY <1>1 DEF CallInv, Told, Remaining
<1>. QED  BY <1>2, <1>3, <1>4 DEF CallInv

\* A job is recorded.
LEMMA RecordingStep ==
  ASSUME CallInv, ~Costing, Remaining, NextStep, UNCHANGED <<call, report>>, NEW e,
         costed' = Append(costed, e),
         Len(costed) = 0 => /\ e.time_s \in Nat
                            /\ e.prompts = Cardinality(Prompts(call.steps)),
         Len(costed) > 0 => IsRecord(e, call.steps[Len(costed)], call.driver)
  PROVE  CallInv'
<1>. DEFINE n == Len(costed)
            N == Len(call.steps)
<1>1. /\ IsSeq(costed) /\ call \in Calls /\ CostInv /\ LpInv /\ AtRest
      /\ n > 0 => /\ costed[1].time_s \in Nat
                  /\ costed[1].prompts = Cardinality(Prompts(call.steps))
      /\ \A k \in 1..N : k + 1 <= n => IsRecord(costed[k + 1], call.steps[k], call.driver)
  BY DEF CallInv, Recordings
<1>2. /\ IsSeq(costed') /\ n \in Nat /\ Len(costed') = n + 1
      /\ \A k \in 1..n : costed'[k] = costed[k]
      /\ costed'[n + 1] = e
  BY <1>1, AppendIs
<1>3. N \in Nat \ {0} /\ Len(JobsOf(call)) = N + 1
  BY <1>1, JobsAre
<1>4. n < N + 1
  BY <1>2, <1>3 DEF Remaining
<1>5. /\ CostInv' /\ LpInv' /\ AtRest'
      /\ n + 2 <= N + 1 => job' = JobsOf(call)[n + 2] /\ passes' = Passes(job')
  BY <1>1, <1>2, NextStepInv
<1>6. Remaining' => n + 2 <= N + 1 /\ Len(costed') + 1 = n + 2
  BY <1>2, <1>3 DEF Remaining
<1>7. /\ costed'[1].time_s \in Nat /\ costed'[1].prompts = Cardinality(Prompts(call.steps))
  <2>1. CASE n = 0
    BY <1>2, <2>1
  <2>2. CASE n > 0
    BY <1>1, <1>2, <2>2
  <2>. QED  BY <1>2, <2>1, <2>2
<1>8. ASSUME NEW k \in 1..N, k + 1 <= n + 1
      PROVE  IsRecord(costed'[k + 1], call.steps[k], call.driver)
  <2>1. CASE k + 1 <= n
    BY <1>1, <1>2, <2>1
  <2>2. CASE k = n
    BY <1>2, <1>3, <2>2
  <2>. QED  BY <1>2, <1>3, <1>8, <2>1, <2>2
<1>. HIDE DEF n, N
<1>9. Recordings'
  <2>1. call' = call /\ call'.steps = call.steps /\ JobsOf(call') = JobsOf(call)
    OBVIOUS
  <2>2. Remaining' => job' = JobsOf(call')[Len(costed') + 1] /\ passes' = Passes(job')
    BY <1>5, <1>6, <2>1
  <2>3. Len(costed') <= Len(call'.steps) + 1
    BY <1>2, <1>3, <1>4, <2>1 DEF N
  <2>4. \A k \in 1..Len(call'.steps) :
          k + 1 <= Len(costed') => IsRecord(costed'[k + 1], call'.steps[k], call'.driver)
    BY <1>2, <1>8, <2>1 DEF N
  <2>. QED  BY <1>1, <1>2, <1>7, <2>1, <2>2, <2>3, <2>4 DEF Recordings
<1>10. Told'
  BY DEF CallInv, Told
<1>. QED  BY <1>5, <1>9, <1>10 DEF CallInv

\* The prefill is recorded with one pass per prompt.
LEMMA PrefillStep == CallInv /\ EndPrefill => CallInv'
<1>. SUFFICES ASSUME CallInv, EndPrefill
              PROVE  CallInv'
  OBVIOUS
<1>. DEFINE e == [time_s |-> Amount(record.time_s, Seconds), prompts |-> Len(passes)]
<1>1. ~Costing /\ costed = <<>> /\ costed' = <<e>> /\ NextStep /\ UNCHANGED <<call, report>>
  BY DEF EndPrefill
<1>2. Len(costed) = 0 /\ costed' = Append(costed, e)
  BY <1>1
<1>3. call \in Calls
  BY DEF CallInv, Recordings
<1>4. Remaining
  BY <1>2, <1>3, JobsAre DEF Remaining
<1>5. job = PrefillJob(call) /\ passes = Passes(job)
  BY <1>2, <1>3, <1>4, JobsAre DEF CallInv, Recordings
<1>6. e.prompts = Cardinality(Prompts(call.steps))
  BY <1>3, <1>5, PrefillCount
<1>7. e.time_s \in Nat
  <2>1. record.time_s \in Money
    BY DEF CallInv, CostInv, Books, Sound, Ledgers
  <2>. QED  BY <2>1, AmountIs, ReportAssumption DEF Rates
<1>. HIDE DEF e
<1>. QED  BY <1>1, <1>2, <1>4, <1>6, <1>7, RecordingStep

\* A step is recorded as itself.
LEMMA EndStepStep == CallInv /\ EndStep => CallInv'
<1>. SUFFICES ASSUME CallInv, EndStep
              PROVE  CallInv'
  OBVIOUS
<1>. DEFINE e == StepRecord(job, record)
            n == Len(costed)
<1>1. /\ ~Costing /\ costed # <<>> /\ Remaining /\ costed' = Append(costed, e)
      /\ NextStep /\ UNCHANGED <<call, report>>
  BY DEF EndStep
<1>2. call \in Calls /\ IsSeq(costed) /\ job = JobsOf(call)[n + 1]
  BY <1>1 DEF CallInv, Recordings
<1>3. n \in Nat \ {0}
  <2>1. PICK S : costed \in Seq(S)
    BY <1>2 DEF IsSeq
  <2>. QED  BY <1>1, <2>1, EmptySeq, LenProperties
<1>4. n \in 1..Len(call.steps)
  BY <1>1, <1>2, <1>3, JobsAre DEF Remaining
<1>5. job = StepJob(call, n) /\ IsJob(job)
  <2>1. n + 1 \in 1..(Len(call.steps) + 1)
    BY <1>2, <1>4, JobsAre
  <2>. QED  BY <1>2, <1>4, <2>1, JobsAre
<1>6. job.driver = call.driver /\ job.driver # "prefill" /\ job.step = call.steps[n]
  <2>1. call.driver \in {"ar", "capim", "lp_spec"}
    BY <1>2, CallsAssumption
  <2>. QED  BY <1>5, <2>1 DEF StepJob
<1>7. Sound(record) /\ record.time_s = record.energy_j
  BY DEF CallInv, CostInv, Books
<1>9. job.driver = "lp_spec" => AllSplit(record) /\ HasSplit(record)
  <2>. SUFFICES ASSUME job.driver = "lp_spec"
                PROVE  AllSplit(record) /\ HasSplit(record)
    OBVIOUS
  <2>1. passes = LpSpecPasses(job.model, job.step, job.m, job.medusa_num_heads)
    BY <1>1 DEF CallInv, Recordings, Passes
  <2>2. Len(passes) = 2
    BY <2>1 DEF LpSpecPasses
  <2>3. p > 1
    BY <1>1, <2>2 DEF CallInv, CostInv, Typed, Costing
  <2>. QED  BY <2>3 DEF CallInv, LpInv
<1>8. IsRecord(e, call.steps[n], call.driver)
  BY <1>5, <1>6, <1>7, <1>9, RecordTyped
<1>. HIDE DEF e
<1>. QED  BY <1>1, <1>3, <1>8, RecordingStep

\* The report is made of all records.
LEMMA ReportingStep == CallInv /\ Reporting => CallInv'
<1>. SUFFICES ASSUME CallInv, Reporting
              PROVE  CallInv'
  OBVIOUS
<1>1. ~Remaining /\ UNCHANGED <<vars, call, costed>>
      /\ report' = <<[summary |-> Summarize(Tail(costed),
                                Ratio(costed[1].time_s, costed[1].prompts)),
                      breakdown |-> Breakdown(Tail(costed))]>>
  BY DEF Reporting
<1>2. CostInv' /\ LpInv' /\ AtRest' /\ Recordings'
  BY <1>1, CostStutter, LpStutter DEF CallInv, AtRest, vars, Costing, Recordings, Remaining
<1>3. Told'
  <2>1. /\ report'[1].summary =
             Summarize(Tail(costed), Ratio(costed[1].time_s, costed[1].prompts))
        /\ report'[1].breakdown = Breakdown(Tail(costed))
    BY <1>1
  <2>2. costed' = costed /\ ~Remaining'
    BY <1>1 DEF Remaining
  <2>3. /\ Breakdown(Tail(costed'))  = Breakdown(Tail(costed))
        /\ Summarize(Tail(costed'), Ratio(costed'[1].time_s, costed'[1].prompts)) =
             Summarize(Tail(costed), Ratio(costed[1].time_s, costed[1].prompts))
    BY <2>2
  <2>. QED  BY <2>1, <2>2, <2>3 DEF Told
<1>. QED  BY <1>2, <1>3 DEF CallInv

\* The invariant speaks of the variables only.
LEMMA CallStutter == CallInv /\ UNCHANGED <<vars, reportVars>> => CallInv'
<1>. SUFFICES ASSUME CallInv, UNCHANGED <<vars, reportVars>>
              PROVE  CallInv'
  OBVIOUS
<1>1. CostInv' /\ LpInv' /\ AtRest' /\ Recordings'
  BY CostStutter, LpStutter DEF CallInv, AtRest, vars, Costing, Recordings, Remaining, reportVars
<1>2. Told'
  BY DEF CallInv, Told, reportVars, Remaining
<1>. QED  BY <1>1, <1>2 DEF CallInv

\* Every step of a call keeps the invariant.
LEMMA CallStep == CallInv /\ [ReportNext]_<<vars, reportVars>> => CallInv'
BY ComposeCallStep, PrefillStep, EndStepStep, ReportingStep, CallStutter DEF ReportNext, Printed

\* The typing, the books and the KV cache's place of every job of every call,
\* and that the records are the steps', in order.
THEOREM CallInvariant == ReportSpec => []CallInv
BY CallInit, CallStep, PTL DEF ReportSpec

-----------------------------------------------------------------------------
(* What is reported of a finished call.                                    *)

\* The records of all steps, one each.
Records(steps) ==
  /\ IsSeq(steps) /\ Len(steps) = Len(call.steps) /\ DOMAIN steps = DOMAIN call.steps
  /\ IsFiniteSet(DOMAIN steps) /\ Len(steps) \in Nat \ {0} /\ DOMAIN steps = 1..Len(steps)
  /\ \A s \in DOMAIN steps : IsRecord(steps[s], call.steps[s], call.driver)

\* A finished call has a record of every step.
LEMMA TailIs ==
  ASSUME CallInv, Reported
  PROVE  /\ call \in Calls /\ Records(Tail(costed)) /\ costed[1].time_s \in Nat
         /\ costed[1].prompts = Cardinality(Prompts(call.steps))
<1>. DEFINE steps == Tail(costed)
            N == Len(call.steps)
<1>1. call \in Calls /\ Recordings /\ ~Remaining
  BY DEF CallInv, Recordings, Told, Reported
<1>2. N \in Nat \ {0} /\ DOMAIN call.steps = 1..N /\ Len(JobsOf(call)) = N + 1
  BY <1>1, JobsAre
<1>3. PICK S : costed \in Seq(S)
  BY <1>1 DEF Recordings, IsSeq
<1>4. Len(costed) = N + 1
  BY <1>1, <1>2, <1>3, LenProperties DEF Recordings, Remaining
<1>5. costed # <<>>
  BY <1>2, <1>3, <1>4, EmptySeq
<1>6. /\ steps \in Seq(S) /\ Len(steps) = N /\ \A k \in 1..N : steps[k] = costed[k + 1]
  BY <1>2, <1>3, <1>4, <1>5, HeadTailProperties
<1>7. DOMAIN steps = 1..N /\ IsFiniteSet(1..N)
  BY <1>2, <1>6, LenProperties, FS_Interval
<1>8. \A k \in 1..N : IsRecord(steps[k], call.steps[k], call.driver)
  BY <1>1, <1>2, <1>4, <1>6 DEF Recordings
<1>9. costed[1].time_s \in Nat /\ costed[1].prompts = Cardinality(Prompts(call.steps))
  BY <1>1, <1>2, <1>4 DEF Recordings
<1>. HIDE DEF steps, N
<1>. QED  BY <1>1, <1>2, <1>6, <1>7, <1>8, <1>9 DEF Records, IsSeq, steps, N

\* The fields a report adds up over the steps.
LEMMA FieldsTyped ==
  ASSUME NEW steps, Records(steps), NEW s \in DOMAIN steps
  PROVE  /\ steps[s]["time_s"] \in Nat /\ steps[s]["energy_j"] \in Nat
         /\ steps[s]["tokens_emitted"] \in Nat /\ steps[s]["split_t_npu_bound"] \in Nat
         /\ steps[s]["split_t_pim_bound"] \in Nat
         /\ \A d \in Devices : steps[s].time_by_device[d] \in Nat
         /\ \A t \in Kinds : steps[s].time_by_type[t] \in Nat
         /\ steps[s]["prompt_id"] = call.steps[s].prompt_id
BY DEF Records, IsRecord, Rows

\* The two sums of the community modules are one.
LEMMA SumIs == \A f : SumFunction(f) = SumFunctionOnSet(f, DOMAIN f)
BY DEF SumFunction, SumFunctionOnSet, FoldFunction

\* A total is a sum over its steps.
LEMMA TotalIs ==
  \A steps, S, field :
    Total(steps, S, field) = SumFunctionOnSet([s \in S |-> steps[s][field]], S)
<1>. TAKE steps, S, field
<1>. DEFINE f == [s \in S |-> steps[s][field]]
<1>1. Total(steps, S, field) = SumFunction(f) /\ DOMAIN f = S
  BY DEF Total
<1>. HIDE DEF f
<1>2. SumFunction(f) = SumFunctionOnSet(f, DOMAIN f)
  BY SumIs
<1>. QED  BY <1>1, <1>2 DEF f

\* What holds of every record's rows holds of their sums.
LEMMA InvBusyTag == CallInv => BusyTag
<1>. SUFFICES ASSUME CallInv, Reported
              PROVE  BusyTag
  BY DEF BusyTag
<1>. DEFINE steps == Tail(costed)
            D == DOMAIN steps
            b == report[1].breakdown
            t == [s \in D |-> steps[s]["time_s"]]
            v == [s \in D |-> steps[s]["split_t_npu_bound"]]
            dev(d) == [s \in D |-> steps[s].time_by_device[d]]
            n == dev("NPU")
            m == dev("PIM")
            h == [s \in D |-> n[s] + m[s]]
<1>1. Records(steps) /\ IsFiniteSet(D)
  BY TailIs DEF Records
<1>2. b = Breakdown(steps)
  BY DEF CallInv, Told, Reported
<1>3. /\ b.time_s = SumFunctionOnSet(t, D)
      /\ b.split_t_npu_bound = SumFunctionOnSet(v, D)
  <2>1. /\ Total(steps, D, "time_s") = SumFunctionOnSet(t, D)
        /\ Total(steps, D, "split_t_npu_bound") = SumFunctionOnSet(v, D)
    BY TotalIs
  <2>2. /\ b.time_s = SumOf(steps, "time_s")
        /\ b.split_t_npu_bound = SumOf(steps, "split_t_npu_bound")
    BY <1>2 DEF Breakdown
  <2>. QED  BY <2>1, <2>2 DEF SumOf
<1>4. \A d \in Devices : b.time_by_device[d] = SumFunctionOnSet(dev(d), D)
  <2>. TAKE d \in Devices
  <2>. DEFINE f == [s \in DOMAIN steps |-> steps[s].time_by_device[d]]
  <2>1. b.time_by_device[d] = SumFunction(f)
    BY <1>2 DEF Breakdown
  <2>2. DOMAIN f = D
    OBVIOUS
  <2>. HIDE DEF f
  <2>3. SumFunction(f) = SumFunctionOnSet(f, D)
    BY <2>2, SumIs
  <2>. QED  BY <2>1, <2>3 DEF f
<1>5. "NPU" \in Devices /\ "PIM" \in Devices
  BY DEF Devices
<1>6. ASSUME NEW s \in D
      PROVE  /\ t[s] \in Nat /\ v[s] \in Nat /\ n[s] \in Nat /\ m[s] \in Nat
             /\ h[s] = n[s] + m[s]
             /\ \A d \in Devices : dev(d)[s] \in Nat /\ dev(d)[s] <= t[s]
             /\ IF v[s] > 0 THEN h[s] > t[s] ELSE h[s] = t[s]
  BY <1>1, <1>5, <1>6 DEF Records, IsRecord, Rows
<1>. HIDE DEF t, v, n, m, h, D, b
<1>7. \A d \in Devices : SumFunctionOnSet(dev(d), D) <= SumFunctionOnSet(t, D)
  <2>. TAKE d \in Devices
  <2>. DEFINE f == dev(d)
  <2>1. ASSUME NEW s \in D PROVE f[s] \in Int /\ t[s] \in Int /\ f[s] <= t[s]
    <3>1. dev(d)[s] \in Nat /\ dev(d)[s] <= t[s] /\ t[s] \in Nat
      BY <1>6
    <3>2. f[s] = dev(d)[s]
      OBVIOUS
    <3>. HIDE DEF f, dev
    <3>. QED  BY <3>1, <3>2
  <2>. HIDE DEF f
  <2>2. SumFunctionOnSet(f, D) <= SumFunctionOnSet(t, D)
    BY <1>1, <2>1, SumLess
  <2>. QED  BY <2>2 DEF f
<1>8. SumFunctionOnSet(h, D) = SumFunctionOnSet(n, D) + SumFunctionOnSet(m, D)
  BY <1>1, <1>6, SumPlus
<1>9. SumFunctionOnSet(v, D) > 0 <=> \E s \in D : v[s] > 0
  BY <1>1, <1>6, SumNat
<1>10. /\ (\E s \in D : t[s] < h[s]) => SumFunctionOnSet(t, D) < SumFunctionOnSet(h, D)
       /\ (\A s \in D : t[s] = h[s]) => SumFunctionOnSet(t, D) = SumFunctionOnSet(h, D)
  <2>1. \A s \in D : t[s] \in Int /\ h[s] \in Int /\ t[s] <= h[s]
    BY <1>6
  <2>. QED  BY <1>1, <2>1, SumLess
<1>11. IF SumFunctionOnSet(v, D) > 0 THEN SumFunctionOnSet(h, D) > SumFunctionOnSet(t, D)
                                     ELSE SumFunctionOnSet(h, D) = SumFunctionOnSet(t, D)
  <2>1. \A s \in D : (v[s] > 0 => t[s] < h[s]) /\ (~(v[s] > 0) => t[s] = h[s])
    BY <1>6
  <2>2. SumFunctionOnSet(t, D) \in Int /\ SumFunctionOnSet(h, D) \in Int
    <3>1. \A s \in D : t[s] \in Int /\ h[s] \in Int
      BY <1>6
    <3>. QED  BY <3>1, <1>1, SumInt
  <2>. QED  BY <1>9, <1>10, <2>1, <2>2
<1>12. /\ b.time_by_device["NPU"] = SumFunctionOnSet(n, D)
       /\ b.time_by_device["PIM"] = SumFunctionOnSet(m, D)
  BY <1>4, <1>5 DEF n, m
<1>. QED  BY <1>3, <1>4, <1>7, <1>8, <1>11, <1>12 DEF BusyTag, Concurrent, b

\* The mean over the prompts is the total of all steps over the prompts.
LEMMA MeanIs ==
  ASSUME NEW steps, Records(steps), NEW field \in {"time_s", "energy_j", "tokens_emitted"},
         call \in Calls
  PROVE  /\ MeanOf(steps, field) =
              Ratio(SumOf(steps, field), Cardinality(Prompts(call.steps)))
         /\ SumOf(steps, field) \in Nat
<1>. DEFINE D == DOMAIN steps
            K == Prompts(steps)
            f == [s \in D |-> steps[s][field]]
            key == [s \in D |-> steps[s].prompt_id]
            group == [q \in K |-> {s \in D : key[s] = q}]
            h == [q \in K |-> Total(steps, {s \in D : steps[s].prompt_id = q}, field)]
<1>1. IsFiniteSet(D) /\ D = DOMAIN call.steps
  BY DEF Records
<1>2. ASSUME NEW s \in D
      PROVE  f[s] \in Nat /\ key[s] \in K /\ key[s] = call.steps[s].prompt_id
  BY FieldsTyped DEF Prompts
<1>3. K = Prompts(call.steps)
  <2>1. \A s \in D : steps[s].prompt_id = call.steps[s].prompt_id
    BY <1>2
  <2>. QED  BY <1>1, <2>1 DEF Prompts
<1>4. IsFiniteSet(K)
  BY <1>3, PrefillCount
<1>5. \A q \in K : group[q] = {s \in D : key[s] = q} /\ group[q] \subseteq D
  OBVIOUS
<1>6. ASSUME NEW q \in K PROVE h[q] = SumFunctionOnSet(f, group[q])
  <2>. DEFINE G == {s \in D : steps[s].prompt_id = q}
              g == [s \in G |-> steps[s][field]]
  <2>1. h[q] = Total(steps, G, field)
    OBVIOUS
  <2>2. Total(steps, G, field) = SumFunctionOnSet(g, G)
    BY TotalIs
  <2>3. G = group[q]
    OBVIOUS
  <2>4. IsFiniteSet(G) /\ G \subseteq D
    BY <1>1, FS_Subset
  <2>5. \A s \in G : g[s] = f[s]
    OBVIOUS
  <2>. HIDE DEF G, g, f, h, group
  <2>6. \A s \in G : g[s] \in Int /\ f[s] \in Int /\ g[s] <= f[s] /\ g[s] = f[s]
    BY <2>4, <2>5, <1>2
  <2>7. SumFunctionOnSet(g, G) = SumFunctionOnSet(f, G)
    BY <2>4, <2>6, SumLess
  <2>. QED  BY <2>1, <2>2, <2>3, <2>7
<1>7. Aggregate(steps, field) = h
  BY DEF Aggregate
<1>8. SumFunction(h) = SumFunctionOnSet(h, K)
  <2>1. DOMAIN h = K
    OBVIOUS
  <2>. HIDE DEF h
  <2>. QED  BY <2>1, SumIs
<1>9. DOMAIN h = K
  OBVIOUS
<1>10. SumOf(steps, field) = SumFunctionOnSet(f, D)
  BY TotalIs DEF SumOf
<1>11. SumFunctionOnSet(h, K) = SumFunctionOnSet(f, D) /\ SumFunctionOnSet(f, D) \in Nat
  <2>. HIDE DEF f, h, K, D, key, group
  <2>1. \A q \in K : group[q] = {s \in D : key[s] = q}
    BY <1>5
  <2>2. \A s \in D : f[s] \in Int /\ f[s] \in Nat /\ key[s] \in K
    BY <1>2
  <2>3. \A q \in K : h[q] = SumFunctionOnSet(f, group[q])
    BY <1>6
  <2>. QED  BY ONLY <1>1, <1>4, <2>1, <2>2, <2>3, SumGroups, SumNat
<1>. HIDE DEF f, h, K, D
<1>12. MeanOf(steps, field) = Ratio(SumFunction(h), Cardinality(DOMAIN h))
  BY <1>7 DEF MeanOf
<1>. QED  BY <1>3, <1>8, <1>9, <1>10, <1>11, <1>12

\* The ratios of means over the prompts are the ratios of the totals.
LEMMA RatesAre ==
  ASSUME NEW T \in Nat, NEW E \in Nat, NEW K \in Nat, NEW P \in Nat, NEW n \in Nat
  PROVE  /\ Equal(Over(Ratio(K, n), Ratio(T, n)), Ratio(K, T))
         /\ Equal(Over(Ratio(K, n), Ratio(E, n)), Ratio(K, E))
         /\ Equal(By(Over(Ratio(T, n), Ratio(K, n)), Over(Ratio(E, n), Ratio(K, n))),
                  Ratio(T * E, K * K))
         /\ Equal(Plus(Ratio(T, n), Ratio(P, n)), Ratio(P + T, n))
<1>1. (K * n) * T = K * (n * T) /\ (K * n) * E = K * (n * E)
  OBVIOUS
<1>2. ((T * n) * (E * n)) * (K * K) = (T * E) * ((n * K) * (n * K))
  OBVIOUS
<1>3. (T * n + P * n) * n = (P + T) * (n * n)
  OBVIOUS
<1>. QED  BY <1>1, <1>2, <1>3 DEF Equal, Over, By, Plus, Ratio

\* The printed rows of the types add up to the printed time.
LEMMA TypesAdd ==
  ASSUME NEW steps, Records(steps)
  PROVE  LET b == Breakdown(steps)
         IN  /\ PrintedTypes \cap DOMAIN b.time_by_type = PrintedTypes
             /\ SumFunctionOnSet(b.time_by_type, PrintedTypes) = SumOf(steps, "time_s")
<1>. DEFINE D == DOMAIN steps
            S == D \X Kinds
            byType == Breakdown(steps).time_by_type
            f == [x \in S |-> steps[x[1]].time_by_type[x[2]]]
            In(c) == {t \in Kinds : Rollup(t) = c}
            bucket(c) == [x \in D \X In(c) |-> steps[x[1]].time_by_type[x[2]]]
            t == [s \in D |-> steps[s]["time_s"]]
<1>1. IsFiniteSet(D) /\ IsFiniteSet(Kinds) /\ IsFiniteSet(S)
  <2>1. IsFiniteSet(D)
    BY DEF Records
  <2>. QED  BY <2>1, KindsFinite, FS_Product
<1>2. \A k \in Kinds : Rollup(k) \in PrintedTypes
  BY DEF Kinds, LayerTypes, NONLINEAR, Rollup, PrintedTypes
<1>3. /\ "FC" \in Kinds /\ Rollup("FC") = "FC" /\ "MATMUL" \in Kinds /\ Rollup("MATMUL") = "Attn"
      /\ "ACT" \in Kinds /\ Rollup("ACT") = "NL" /\ "COMM" \in Kinds /\ Rollup("COMM") = "Comm"
  BY DEF Kinds, LayerTypes, NONLINEAR, Rollup
<1>4. {Rollup(k) : k \in Kinds} = PrintedTypes
  BY <1>2, <1>3 DEF PrintedTypes
<1>5. byType = [c \in PrintedTypes |-> SumFunction(bucket(c))]
  <2>1. byType = [c \in {Rollup(k) : k \in Kinds} |-> SumFunction(bucket(c))]
    BY DEF Breakdown, Kinds
  <2>. HIDE DEF byType, bucket
  <2>. QED  BY <1>4, <2>1
<1>6. \A x \in S : f[x] \in Nat
  <2>1. \A s \in D : \A k \in Kinds : steps[s].time_by_type[k] \in Nat
    BY FieldsTyped
  <2>. QED  BY <2>1
<1>7. ASSUME NEW c \in PrintedTypes
      PROVE  byType[c] = SumFunctionOnSet(f, D \X In(c))
  <2>. DEFINE g == bucket(c)
              R == D \X In(c)
  <2>1. byType[c] = SumFunction(g) /\ DOMAIN g = R
    BY <1>5
  <2>2. R \subseteq S
    OBVIOUS
  <2>3. \A x \in R : g[x] = f[x]
    OBVIOUS
  <2>4. IsFiniteSet(R)
    BY <1>1, <2>2, FS_Subset
  <2>. HIDE DEF g, R, f
  <2>5. \A x \in R : g[x] \in Int /\ f[x] \in Int /\ g[x] <= f[x] /\ g[x] = f[x]
    BY <2>2, <2>3, <1>6
  <2>6. SumFunctionOnSet(g, R) = SumFunctionOnSet(f, R)
    BY <2>4, <2>5, SumLess
  <2>. QED  BY <2>1, <2>6, SumIs DEF R
<1>8. SumFunctionOnSet(byType, PrintedTypes) = SumFunctionOnSet(f, S)
  <2>. DEFINE key == [x \in S |-> Rollup(x[2])]
              group == [c \in PrintedTypes |-> {x \in S : key[x] = c}]
  <2>1. IsFiniteSet(PrintedTypes)
    <3>1. PrintedTypes = ({"FC"} \cup {"Attn"}) \cup ({"NL"} \cup {"Comm"})
      BY DEF PrintedTypes
    <3>2. IsFiniteSet({"FC"}) /\ IsFiniteSet({"Attn"}) /\ IsFiniteSet({"NL"}) /\ IsFiniteSet({"Comm"})
      BY FS_Singleton
    <3>3. IsFiniteSet({"FC"} \cup {"Attn"}) /\ IsFiniteSet({"NL"} \cup {"Comm"})
      BY <3>2, FS_Union
    <3>. QED  BY <3>1, <3>3, FS_Union
  <2>2. \A x \in S : key[x] \in PrintedTypes
    BY <1>2
  <2>3. \A c \in PrintedTypes : group[c] = {x \in S : key[x] = c} /\ group[c] = D \X In(c)
    OBVIOUS
  <2>4. \A c \in PrintedTypes : byType[c] = SumFunctionOnSet(f, group[c])
    <3>. HIDE DEF byType, f, group
    <3>. QED  BY <1>7, <2>3
  <2>5. \A x \in S : f[x] \in Int
    BY <1>6
  <2>6. \A c \in PrintedTypes : group[c] = {x \in S : key[x] = c}
    BY <2>3
  <2>. HIDE DEF key, group, f, S, byType
  <2>. QED  BY ONLY <1>1, <2>1, <2>2, <2>4, <2>5, <2>6, SumGroups
<1>9. SumFunctionOnSet(t, D) = SumFunctionOnSet(f, S)
  <2>. DEFINE key == [x \in S |-> x[1]]
              group == [s \in D |-> {x \in S : key[x] = s}]
  <2>1. \A x \in S : key[x] \in D
    OBVIOUS
  <2>2. \A s \in D : group[s] = {x \in S : key[x] = s}
    OBVIOUS
  <2>3. ASSUME NEW s \in D PROVE t[s] = SumFunctionOnSet(f, group[s])
    <3>. DEFINE G == group[s]
                kind == [x \in G |-> x[2]]
                back == [k \in Kinds |-> <<s, k>>]
                h == steps[s].time_by_type
    <3>1. t[s] = SumFunctionOnSet(h, Kinds)
      BY DEF Records, IsRecord, Rows
    <3>2. /\ \A x \in G : kind[x] \in Kinds /\ back[kind[x]] = x
          /\ \A k \in Kinds : back[k] \in G /\ kind[back[k]] = k /\ h[k] = f[back[k]]
      OBVIOUS
    <3>3. G \subseteq S
      OBVIOUS
    <3>4. IsFiniteSet(G)
      BY <3>3, <1>1, FS_Subset
    <3>5. \A x \in G : f[x] \in Int
      BY <3>3, <1>6
    <3>. HIDE DEF G, kind, back, h, f
    <3>6. SumFunctionOnSet(h, Kinds) = SumFunctionOnSet(f, G)
      BY ONLY <3>2, <3>4, <3>5, <1>1, SumRelabel
    <3>. QED  BY <3>1, <3>6 DEF G
  <2>4. \A x \in S : f[x] \in Int
    BY <1>6
  <2>. HIDE DEF key, group, f, S, t
  <2>. QED  BY ONLY <1>1, <2>1, <2>2, <2>3, <2>4, SumGroups
<1>10. SumOf(steps, "time_s") = SumFunctionOnSet(t, D)
  BY TotalIs DEF SumOf
<1>11. DOMAIN byType = PrintedTypes
  BY <1>5
<1>. HIDE DEF byType, f, t
<1>12. /\ PrintedTypes \cap DOMAIN byType = PrintedTypes
       /\ SumFunctionOnSet(byType, PrintedTypes) = SumOf(steps, "time_s")
  BY <1>8, <1>9, <1>10, <1>11
<1>. QED  BY <1>12 DEF byType

\* Means, rates and rows are the same totals.
LEMMA InvOnePicture == CallInv => OnePicture
<1>. SUFFICES ASSUME CallInv, Reported
              PROVE  OnePicture
  BY DEF OnePicture
<1>. DEFINE steps == Tail(costed)
            n == Cardinality(Prompts(call.steps))
            T == SumOf(steps, "time_s")
            E == SumOf(steps, "energy_j")
            K == SumOf(steps, "tokens_emitted")
            P == costed[1].time_s
            b == report[1].breakdown
            s == report[1].summary
<1>1. /\ call \in Calls /\ Records(steps) /\ P \in Nat /\ costed[1].prompts = n
      /\ n \in Nat \ {0}
  BY TailIs, PrefillCount
<1>2. b = Breakdown(steps) /\ s = Summarize(steps, Ratio(P, n))
  BY <1>1 DEF CallInv, Told, Reported
<1>3. /\ MeanOf(steps, "time_s") = Ratio(T, n) /\ T \in Nat
      /\ MeanOf(steps, "energy_j") = Ratio(E, n) /\ E \in Nat
      /\ MeanOf(steps, "tokens_emitted") = Ratio(K, n) /\ K \in Nat
  BY <1>1, MeanIs
<1>4. b.time_s = T /\ b.energy_j = E /\ b.tokens = K
  BY <1>2 DEF Breakdown
<1>5. /\ s.token_per_s_mean = Over(Ratio(K, n), Ratio(T, n))
      /\ s.token_per_j_mean = Over(Ratio(K, n), Ratio(E, n))
      /\ s.edp_mean = By(Over(Ratio(T, n), Ratio(K, n)), Over(Ratio(E, n), Ratio(K, n)))
      /\ s.end_to_end_latency_s = Plus(Ratio(T, n), Ratio(P, n))
  BY <1>2, <1>3 DEF Summarize
<1>6. SumFunctionOnSet(b.time_by_type, PrintedTypes \cap DOMAIN b.time_by_type) = T
  BY <1>1, <1>2, TypesAdd
<1>. HIDE DEF n, T, E, K, P, b, s
<1>7. /\ Equal(s.token_per_s_mean, Ratio(K, T)) /\ Equal(s.token_per_j_mean, Ratio(K, E))
      /\ Equal(s.edp_mean, Ratio(T * E, K * K))
      /\ Equal(s.end_to_end_latency_s, Ratio(P + T, n))
  <2>1. T \in Nat /\ E \in Nat /\ K \in Nat /\ P \in Nat /\ n \in Nat
    BY <1>1, <1>3
  <2>2. /\ Equal(Over(Ratio(K, n), Ratio(T, n)), Ratio(K, T))
        /\ Equal(Over(Ratio(K, n), Ratio(E, n)), Ratio(K, E))
        /\ Equal(By(Over(Ratio(T, n), Ratio(K, n)), Over(Ratio(E, n), Ratio(K, n))),
                 Ratio(T * E, K * K))
        /\ Equal(Plus(Ratio(T, n), Ratio(P, n)), Ratio(P + T, n))
    BY ONLY <2>1, RatesAre
  <2>. QED  BY ONLY <1>5, <2>2
<1>8. /\ Equal(s.token_per_s_mean, Ratio(b.tokens, b.time_s))
      /\ Equal(s.token_per_j_mean, Ratio(b.tokens, b.energy_j))
      /\ Equal(s.edp_mean, Ratio(b.time_s * b.energy_j, b.tokens * b.tokens))
      /\ Equal(s.end_to_end_latency_s, Ratio(P + b.time_s, n))
  BY <1>4, <1>7
<1>. QED  BY <1>4, <1>6, <1>8 DEF OnePicture, n, P, b, s

-----------------------------------------------------------------------------
(* The makespan of an LP-Spec call.                                        *)

\* The two buckets of the split kernels hold those types and no other.
LEMMA MakespanIs ==
  ASSUME NEW steps, Records(steps)
  PROVE  /\ Breakdown(steps).split_makespan =
              SumFunctionOnSet([s \in DOMAIN steps |-> steps[s].time_by_type["FC"]], DOMAIN steps)
            + SumFunctionOnSet([s \in DOMAIN steps |-> steps[s].time_by_type["MATMUL"]],
                               DOMAIN steps)
<1>. DEFINE D == DOMAIN steps
            byType == Breakdown(steps).time_by_type
            In(c) == {t \in Kinds : Rollup(t) = c}
            bucket(c) == [x \in D \X In(c) |-> steps[x[1]].time_by_type[x[2]]]
            row(t) == [s \in D |-> steps[s].time_by_type[t]]
<1>1. /\ In("FC") = {"FC"} /\ In("Attn") = {"MATMUL"} /\ "FC" \in Kinds /\ "MATMUL" \in Kinds
      /\ Rollup("FC") = "FC" /\ Rollup("MATMUL") = "Attn"
  BY DEF Kinds, LayerTypes, NONLINEAR, Rollup
<1>2. /\ Breakdown(steps).split_makespan = byType["FC"] + byType["Attn"]
      /\ byType = [c \in {Rollup(k) : k \in Kinds} |-> SumFunction(bucket(c))]
  BY DEF Breakdown, Kinds
<1>3. "FC" \in {Rollup(k) : k \in Kinds} /\ "Attn" \in {Rollup(k) : k \in Kinds}
  BY <1>1
<1>4. byType["FC"] = SumFunction(bucket("FC")) /\ byType["Attn"] = SumFunction(bucket("Attn"))
  <2>. HIDE DEF byType, bucket
  <2>. QED  BY <1>2, <1>3
<1>5. IsFiniteSet(D)
  BY DEF Records
<1>6. ASSUME NEW t \in Kinds, NEW c, In(c) = {t}
      PROVE  SumFunction(bucket(c)) = SumFunctionOnSet(row(t), D)
  <2>. DEFINE S == D \X {t}
              f == bucket(c)
              h == row(t)
              key == [x \in S |-> x[1]]
              back == [s \in D |-> <<s, t>>]
  <2>1. SumFunction(f) = SumFunctionOnSet(f, S)
    <3>1. DOMAIN f = S
      BY <1>6
    <3>. HIDE DEF f, S
    <3>. QED  BY <3>1, SumIs
  <2>2. IsFiniteSet(S)
    BY <1>5, FS_Singleton, FS_Product
  <2>3. \A s \in D : steps[s].time_by_type[t] \in Nat
    BY FieldsTyped
  <2>4. \A x \in S : f[x] \in Int /\ key[x] \in D /\ back[key[x]] = x
    BY <1>6, <2>3
  <2>5. \A s \in D : back[s] \in S /\ key[back[s]] = s /\ h[s] = f[back[s]]
    BY <1>6
  <2>. HIDE DEF S, f, h, key, back, D
  <2>6. SumFunctionOnSet(h, D) = SumFunctionOnSet(f, S)
    BY ONLY <1>5, <2>2, <2>4, <2>5, SumRelabel
  <2>. QED  BY <2>1, <2>6 DEF f, h
<1>7. /\ SumFunction(bucket("FC")) = SumFunctionOnSet(row("FC"), D)
      /\ SumFunction(bucket("Attn")) = SumFunctionOnSet(row("MATMUL"), D)
  <2>. HIDE DEF bucket, row, In, D
  <2>. QED  BY <1>1, <1>6
<1>. QED  BY <1>2, <1>4, <1>7

\* What holds of every record's bounds holds of their sums.
LEMMA InvSplit == CallInv => SplitBeatsBothDevices
<1>. SUFFICES ASSUME CallInv, Reported, call.driver = "lp_spec"
              PROVE  SplitBeatsBothDevices
  BY DEF SplitBeatsBothDevices
<1>. DEFINE steps == Tail(costed)
            D == DOMAIN steps
            b == report[1].breakdown
            f == [s \in D |-> steps[s].time_by_type["FC"]]
            g == [s \in D |-> steps[s].time_by_type["MATMUL"]]
            h == [s \in D |-> f[s] + g[s]]
            n == [s \in D |-> steps[s]["split_t_npu_bound"]]
            m == [s \in D |-> steps[s]["split_t_pim_bound"]]
<1>1. Records(steps)
  BY TailIs
<1>2. IsFiniteSet(D) /\ 1 \in D
  <2>1. IsFiniteSet(D) /\ D = 1..Len(steps) /\ Len(steps) \in Nat \ {0}
    BY <1>1 DEF Records
  <2>. HIDE DEF D, steps
  <2>. QED  BY <2>1
<1>3. b = Breakdown(steps)
  BY DEF CallInv, Told, Reported
<1>4. /\ b.split_t_npu_bound = SumFunctionOnSet(n, D)
      /\ b.split_t_pim_bound = SumFunctionOnSet(m, D)
  <2>1. /\ Total(steps, D, "split_t_npu_bound") = SumFunctionOnSet(n, D)
        /\ Total(steps, D, "split_t_pim_bound") = SumFunctionOnSet(m, D)
    BY TotalIs
  <2>2. /\ b.split_t_npu_bound = SumOf(steps, "split_t_npu_bound")
        /\ b.split_t_pim_bound = SumOf(steps, "split_t_pim_bound")
    BY <1>3 DEF Breakdown
  <2>. QED  BY <2>1, <2>2 DEF SumOf
<1>5. b.split_makespan = SumFunctionOnSet(f, D) + SumFunctionOnSet(g, D)
  BY <1>1, <1>3, MakespanIs
<1>6. ASSUME NEW s \in D
      PROVE  /\ f[s] \in Int /\ g[s] \in Int /\ h[s] = f[s] + g[s] /\ h[s] \in Int
             /\ n[s] \in Int /\ m[s] \in Int /\ h[s] < n[s] /\ h[s] < m[s]
  <2>1. Beats(steps[s])
    BY <1>1 DEF Records, IsRecord
  <2>2. /\ steps[s].time_by_type["FC"] \in Nat /\ steps[s].time_by_type["MATMUL"] \in Nat
        /\ steps[s]["split_t_npu_bound"] \in Nat /\ steps[s]["split_t_pim_bound"] \in Nat
    BY <1>1, FieldsTyped DEF Kinds, LayerTypes
  <2>. QED  BY <2>1, <2>2 DEF Beats
<1>. HIDE DEF D, b, f, g, h, n, m
<1>7. SumFunctionOnSet(h, D) = SumFunctionOnSet(f, D) + SumFunctionOnSet(g, D)
  BY <1>2, <1>6, SumPlus
<1>8. SumFunctionOnSet(h, D) < SumFunctionOnSet(n, D)
  <2>1. \A s \in D : h[s] \in Int /\ n[s] \in Int /\ h[s] <= n[s] /\ h[s] < n[s]
    BY <1>6
  <2>. QED  BY <1>2, <2>1, SumLess
<1>9. SumFunctionOnSet(h, D) < SumFunctionOnSet(m, D)
  <2>1. \A s \in D : h[s] \in Int /\ m[s] \in Int /\ h[s] <= m[s] /\ h[s] < m[s]
    BY <1>6
  <2>. QED  BY <1>2, <2>1, SumLess
<1>. QED  BY <1>4, <1>5, <1>7, <1>8, <1>9 DEF SplitBeatsBothDevices, b

-----------------------------------------------------------------------------
(* The network a pass stands for, and how often each charge belongs in it. *)

\* How a pass charges one of its layers.
ChargeOf(r, layer) ==
  CASE r.exec_model = "SEQUENTIAL" -> Kernel(layer, layer.device)
    [] r.exec_model # "SEQUENTIAL" /\ layer.type \in NONLINEAR -> Kernel(layer, "NPU")
    [] r.exec_model # "SEQUENTIAL" /\ layer.type = "MATMUL" /\ ~r.split_attention ->
         Kernel(layer, "PIM")
    [] OTHER -> Split(layer)

\* Where in a list a charge is a layer's own, its gather, or the transfer before it.
RunAt(r, s, y) == {j \in 1..Len(s) : ChargeOf(r, s[j]) = y}
GatherAt(r, s, y) == {j \in 1..Len(s) : ChargeOf(r, s[j]).on = "BOTH" /\ Gather(s[j]) = y}
Moves(r, before, layer, model, y) ==
  r.exec_model = "SEQUENTIAL" /\ layer.device # before.device
    /\ Transfer(In1(layer, model)) = y
MoveAt(r, s, model, y) == {j \in 2..Len(s) : Moves(r, s[j - 1], s[j], model, y)}

\* How often a charge belongs to the first n layers of a list.
Bill(r, s, n, model, y) ==
  HowMany(RunAt(r, s, y), 1, n) + HowMany(GatherAt(r, s, y), 1, n)
    + HowMany(MoveAt(r, s, model, y), 2, n)

\* What a layer is charged as.
LEMMA ChargeOfIs ==
  ASSUME NEW r \in PassRecords, NEW l \in PlacedLayers
  PROVE  /\ ChargeOf(r, l) \in Charges
         /\ r.exec_model = "SEQUENTIAL" => ChargeOf(r, l) = Kernel(l, l.device)
         /\ r.exec_model = "CONCURRENT" /\ l.type \in NONLINEAR =>
              ChargeOf(r, l) = Kernel(l, "NPU")
         /\ r.exec_model = "CONCURRENT" /\ Pinned(l, r.split_attention) =>
              ChargeOf(r, l) = Kernel(l, "PIM")
         /\ r.exec_model = "CONCURRENT" /\ l.type \in {"FC", "MATMUL"}
              /\ ~Pinned(l, r.split_attention) => ChargeOf(r, l) = Split(l)
         /\ ChargeOf(r, l).on = "BOTH" => l.type \in {"FC", "MATMUL"} /\ Gather(l) \in Charges
<1>1. /\ r.exec_model \in {"SEQUENTIAL", "CONCURRENT"} /\ l.type \in LayerTypes
      /\ l.device \in Devices /\ (l.device = "PIM" => l.type \in {"FC", "MATMUL"})
  BY DEF PassRecords, PlacedLayers
<1>2. l.type \in {"FC", "MATMUL"} \/ l.type \in NONLINEAR
  BY <1>1 DEF LayerTypes
<1>3. l.type \in NONLINEAR => l.type \notin {"FC", "MATMUL"}
  BY DEF NONLINEAR
<1>4. /\ Kernel(l, "NPU") \in Charges /\ Kernel(l, l.device) \in Charges
      /\ l.type \in {"FC", "MATMUL"} =>
           Kernel(l, "PIM") \in Charges /\ Split(l) \in Charges /\ Gather(l) \in Charges
      /\ Kernel(l, "NPU").on # "BOTH" /\ Kernel(l, l.device).on # "BOTH"
      /\ Kernel(l, "PIM").on # "BOTH"
  <2>1. Kernel(l, "NPU").on # "BOTH" /\ Kernel(l, l.device).on # "BOTH"
        /\ Kernel(l, "PIM").on # "BOTH"
    BY <1>1 DEF Kernel, NpuCost, PimCost, Devices
  <2>. QED  BY <2>1, KernelIs DEF IsCharge
<1>5. CASE r.exec_model = "SEQUENTIAL"
  BY <1>4, <1>5 DEF ChargeOf
<1>6. CASE r.exec_model = "CONCURRENT"
  <2>1. CASE l.type \in NONLINEAR
    <3>1. ChargeOf(r, l) = Kernel(l, "NPU") /\ l.type # "MATMUL"
      BY <1>3, <1>6, <2>1 DEF ChargeOf
    <3>. QED  BY <3>1, <2>1, <1>3, <1>4, <1>6 DEF Pinned
  <2>2. CASE l.type \in {"FC", "MATMUL"} /\ Pinned(l, r.split_attention)
    <3>1. ChargeOf(r, l) = Kernel(l, "PIM")
      BY <1>3, <1>6, <2>2 DEF ChargeOf, Pinned
    <3>. QED  BY <3>1, <2>2, <1>3, <1>4, <1>6
  <2>3. CASE l.type \in {"FC", "MATMUL"} /\ ~Pinned(l, r.split_attention)
    <3>1. ChargeOf(r, l) = Split(l)
      BY <1>3, <1>6, <2>3 DEF ChargeOf, Pinned
    <3>. QED  BY <3>1, <2>3, <1>3, <1>4, <1>6
  <2>. QED  BY <1>2, <2>1, <2>2, <2>3
<1>. QED  BY <1>1, <1>5, <1>6

\* One layer more.
LEMMA BillMore ==
  ASSUME NEW r, NEW s, NEW n \in Nat, Len(s) \in Nat, n < Len(s), NEW model, NEW y
  PROVE  /\ Bill(r, s, 0, model, y) = 0 /\ Bill(r, s, n, model, y) \in Nat
         /\ Bill(r, s, n + 1, model, y) =
              Bill(r, s, n, model, y)
                + (IF ChargeOf(r, s[n + 1]) = y THEN 1 ELSE 0)
                + (IF ChargeOf(r, s[n + 1]).on = "BOTH" /\ Gather(s[n + 1]) = y THEN 1 ELSE 0)
                + (IF n > 0 /\ Moves(r, s[n], s[n + 1], model, y) THEN 1 ELSE 0)
<1>. DEFINE P == RunAt(r, s, y)
            G == GatherAt(r, s, y)
            M == MoveAt(r, s, model, y)
<1>1. /\ n + 1 \in P <=> ChargeOf(r, s[n + 1]) = y
      /\ n + 1 \in G <=> ChargeOf(r, s[n + 1]).on = "BOTH" /\ Gather(s[n + 1]) = y
      /\ n + 1 \in M <=> n > 0 /\ Moves(r, s[n], s[n + 1], model, y)
  <2>1. n + 1 \in 1..Len(s) /\ (n + 1 \in 2..Len(s) <=> n > 0) /\ n + 1 - 1 = n
    OBVIOUS
  <2>. QED  BY <2>1 DEF RunAt, GatherAt, MoveAt
<1>. HIDE DEF P, G, M
<1>2. 0 \in Int /\ 1 \in Int /\ 2 \in Int /\ n \in Int
  OBVIOUS
<1>3. /\ HowMany(P, 1, n) \in Nat /\ HowMany(G, 1, n) \in Nat /\ HowMany(M, 2, n) \in Nat
  BY <1>2, HowManyTyped
<1>4. HowMany(P, 1, 0) = 0 /\ HowMany(G, 1, 0) = 0 /\ HowMany(M, 2, 0) = 0
  BY <1>2, HowManyMore
<1>5. /\ HowMany(P, 1, n + 1) = HowMany(P, 1, n) + (IF n + 1 \in P THEN 1 ELSE 0)
      /\ HowMany(G, 1, n + 1) = HowMany(G, 1, n) + (IF n + 1 \in G THEN 1 ELSE 0)
  <2>1. n + 1 >= 1
    OBVIOUS
  <2>. QED  BY <2>1, <1>2, HowManyMore
<1>6. HowMany(M, 2, n + 1) = HowMany(M, 2, n) + (IF n + 1 \in M THEN 1 ELSE 0)
  <2>1. CASE n > 0
    BY <2>1, <1>2, HowManyMore
  <2>2. CASE n = 0
    <3>1. HowMany(M, 2, 1) = 0
      BY <1>2, HowManyMore
    <3>. QED  BY <3>1, <1>1, <1>4, <2>2
  <2>. QED  BY <2>1, <2>2
<1>7. /\ Bill(r, s, 0, model, y) = HowMany(P, 1, 0) + HowMany(G, 1, 0) + HowMany(M, 2, 0)
      /\ Bill(r, s, n, model, y) = HowMany(P, 1, n) + HowMany(G, 1, n) + HowMany(M, 2, n)
      /\ Bill(r, s, n + 1, model, y) =
           HowMany(P, 1, n + 1) + HowMany(G, 1, n + 1) + HowMany(M, 2, n + 1)
  BY DEF Bill, P, G, M
<1>8. Bill(r, s, n + 1, model, y) =
        Bill(r, s, n, model, y) + (IF n + 1 \in P THEN 1 ELSE 0)
          + (IF n + 1 \in G THEN 1 ELSE 0) + (IF n + 1 \in M THEN 1 ELSE 0)
  <2>. DEFINE u == IF n + 1 \in P THEN 1 ELSE 0
              v == IF n + 1 \in G THEN 1 ELSE 0
              w == IF n + 1 \in M THEN 1 ELSE 0
  <2>1. u \in Nat /\ v \in Nat /\ w \in Nat
    OBVIOUS
  <2>2. /\ HowMany(P, 1, n + 1) = HowMany(P, 1, n) + u
        /\ HowMany(G, 1, n + 1) = HowMany(G, 1, n) + v
        /\ HowMany(M, 2, n + 1) = HowMany(M, 2, n) + w
    BY <1>5, <1>6
  <2>. HIDE DEF u, v, w
  <2>3. Bill(r, s, n + 1, model, y) = Bill(r, s, n, model, y) + u + v + w
    BY <2>1, <2>2, <1>3, <1>7
  <2>. QED  BY <2>3 DEF u, v, w
<1>9. Bill(r, s, 0, model, y) = 0 /\ Bill(r, s, n, model, y) \in Nat
  BY <1>3, <1>4, <1>7
<1>. QED  BY <1>1, <1>8, <1>9

\* The block as often as the network has it.
DepthOf(r, model) == IF r.forward THEN model.n_layers ELSE 1
StackOf(r, model) ==
  [j \in 1..(DepthOf(r, model) * Len(r.block)) |-> r.block[Offset(j, Len(r.block))]]

\* The stack costs its block as often, and the hops.
LEMMA StackBill ==
  ASSUME NEW r \in PassRecords, Len(r.block) > 0, NEW model, IsModel(model), NEW y
  PROVE  LET d == DepthOf(r, model)
             L == Len(r.block)
             s == StackOf(r, model)
             hop == Moves(r, r.block[L], r.block[1], model, y)
         IN  /\ s \in Seq(PlacedLayers) /\ Len(s) = d * L /\ d * L \in Nat \ {0}
             /\ d \in Nat \ {0} /\ L \in Nat \ {0}
             /\ Bill(r, s, d * L, model, y) =
                  d * Bill(r, r.block, L, model, y) + (IF hop THEN d - 1 ELSE 0)
<1>. DEFINE d == DepthOf(r, model)
            L == Len(r.block)
            n == d * L
            b == r.block
            s == StackOf(r, model)
            hop == Moves(r, b[L], b[1], model, y)
<1>1. b \in Seq(PlacedLayers) /\ L \in Nat \ {0} /\ d \in Nat \ {0}
  <2>1. b \in Seq(PlacedLayers) /\ L > 0
    BY DEF PassRecords
  <2>2. L \in Nat
    BY <2>1, LenProperties
  <2>. QED  BY <2>1, <2>2 DEF DepthOf, IsModel, Positive
<1>2. n \in Nat \ {0}
  <2>. HIDE DEF d, L
  <2>1. \A u, v \in Nat \ {0} : u * v \in Nat \ {0}
    OBVIOUS
  <2>. QED  BY <2>1, <1>1
<1>3. \A j \in Nat \ {0} : Offset(j, L) \in 1..L
  BY <1>1, OffsetSplit
<1>4. \A k \in 1..L : b[k] \in PlacedLayers
  BY <1>1
<1>5. s = [j \in 1..n |-> b[Offset(j, L)]]
  BY DEF StackOf
<1>12. L = Len(b)
  OBVIOUS
<1>. HIDE DEF b, d, L, s
<1>6. s \in Seq(PlacedLayers) /\ Len(s) = n /\ \A j \in 1..n : s[j] = b[Offset(j, L)]
  <2>. HIDE DEF n
  <2>1. s \in [1..n -> PlacedLayers]
    BY <1>2, <1>3, <1>4, <1>5
  <2>. QED  BY <2>1, <1>2, <1>5
<1>7. HowMany(RunAt(r, s, y), 1, n) = d * HowMany(RunAt(r, b, y), 1, L)
  <2>. DEFINE P == RunAt(r, b, y)
              Q == {j \in Nat \ {0} : Offset(j, L) \in P}
  <2>1. Q \cap (1..n) = RunAt(r, s, y) \cap (1..n)
    <3>. HIDE DEF n
    <3>. QED  BY <1>2, <1>3, <1>6, <1>12 DEF RunAt
  <2>2. HowMany(Q, 1, n) = d * HowMany(P, 1, L)
    <3>. HIDE DEF P
    <3>. QED  BY <1>1, Repeats
  <2>. QED  BY <2>1, <2>2 DEF HowMany
<1>8. HowMany(GatherAt(r, s, y), 1, n) = d * HowMany(GatherAt(r, b, y), 1, L)
  <2>. DEFINE P == GatherAt(r, b, y)
              Q == {j \in Nat \ {0} : Offset(j, L) \in P}
  <2>1. Q \cap (1..n) = GatherAt(r, s, y) \cap (1..n)
    <3>. HIDE DEF n
    <3>. QED  BY <1>2, <1>3, <1>6, <1>12 DEF GatherAt
  <2>2. HowMany(Q, 1, n) = d * HowMany(P, 1, L)
    <3>. HIDE DEF P
    <3>. QED  BY <1>1, Repeats
  <2>. QED  BY <2>1, <2>2 DEF HowMany
<1>9. HowMany(MoveAt(r, s, model, y), 2, n) =
        d * HowMany(MoveAt(r, b, model, y), 2, L) + (IF hop THEN d - 1 ELSE 0)
  <2>. DEFINE M == MoveAt(r, b, model, y)
              U == MoveAt(r, s, model, y)
  <2>1. ASSUME NEW j \in 2..n
        PROVE  j \in U <=> IF Offset(j, L) = 1 THEN hop ELSE Offset(j, L) \in M
    <3>1. /\ j \in Nat \ {0} /\ j - 1 \in 1..n /\ j \in 1..n
          /\ Offset(j - 1, L) = IF Offset(j, L) = 1 THEN L ELSE Offset(j, L) - 1
      <4>1. j \in Nat \ {0} /\ j > 1
        BY <1>2
      <4>. HIDE DEF n
      <4>. QED  BY <4>1, <1>1, <1>2, OffsetSplit
    <3>2. j \in U <=> Moves(r, s[j - 1], s[j], model, y)
      BY <1>6 DEF MoveAt
    <3>3. s[j] = b[Offset(j, L)] /\ s[j - 1] = b[Offset(j - 1, L)]
      BY <1>6, <3>1
    <3>4. CASE Offset(j, L) = 1
      BY <3>1, <3>2, <3>3, <3>4
    <3>5. CASE Offset(j, L) # 1
      <4>1. Offset(j, L) \in 2..L
        BY <1>1, <1>3, <3>1, <3>5
      <4>. QED  BY <3>1, <3>2, <3>3, <3>5, <4>1, <1>12 DEF MoveAt
    <3>. QED  BY <3>4, <3>5
  <2>2. hop \in BOOLEAN
    BY DEF Moves
  <2>. HIDE DEF M, U, hop
  <2>. QED  BY <2>1, <2>2, <1>1, RepeatsBut DEF M, U
<1>10. LET P == HowMany(RunAt(r, b, y), 1, L)   G == HowMany(GatherAt(r, b, y), 1, L)
           M == HowMany(MoveAt(r, b, model, y), 2, L)
       IN  P \in Nat /\ G \in Nat /\ M \in Nat /\ d * (P + G + M) = d * P + d * G + d * M
  <2>1. 1 \in Int /\ 2 \in Int /\ L \in Int
    BY <1>1
  <2>2. /\ HowMany(RunAt(r, b, y), 1, L) \in Nat /\ HowMany(GatherAt(r, b, y), 1, L) \in Nat
        /\ HowMany(MoveAt(r, b, model, y), 2, L) \in Nat
    BY <2>1, HowManyTyped
  <2>3. \A u, v, w \in Nat : d * (u + v + w) = d * u + d * v + d * w
    BY <1>1
  <2>. QED  BY <2>2, <2>3
<1>11. Bill(r, s, n, model, y) = d * Bill(r, b, L, model, y) + (IF hop THEN d - 1 ELSE 0)
  <2>. HIDE DEF n, hop
  <2>. QED  BY <1>7, <1>8, <1>9, <1>10, <1>1 DEF Bill
<1>. QED  BY <1>1, <1>2, <1>6, <1>11 DEF b, d, L, s

-----------------------------------------------------------------------------
(* The whole step.                                                         *)

\* The layers of a pass, the stack and then the head.
UnrolledOf(r, model) == StackOf(r, model) \o r.head

RowsOf(ps, model) == [q \in 1..Len(ps) |-> 1..Len(UnrolledOf(ps[q], model))]

\* The layers of the first n passes, each with its pass.
OpsOf(ps, model, n) == RowPairs(RowsOf(ps, model), n)
OpOf(ps, model, x) == UnrolledOf(ps[x[1]], model)[x[2]]

\* Those a charge is the kernel of, the gather after, the transfer before.
RanBy(ps, model, y) ==
  {x \in OpsOf(ps, model, Len(ps)) : ChargeOf(ps[x[1]], OpOf(ps, model, x)) = y}
GatheredBy(ps, model, y) ==
  {x \in OpsOf(ps, model, Len(ps)) :
     /\ ChargeOf(ps[x[1]], OpOf(ps, model, x)).on = "BOTH"
     /\ Gather(OpOf(ps, model, x)) = y}
MovedBy(ps, model, y) ==
  {x \in OpsOf(ps, model, Len(ps)) :
     /\ x[2] \in 2..Len(StackOf(ps[x[1]], model))
     /\ Moves(ps[x[1]], OpOf(ps, model, <<x[1], x[2] - 1>>), OpOf(ps, model, x), model, y)}

\* How often a charge belongs to the first n passes.
Due(ps, model, n, y) ==
  Cardinality(RanBy(ps, model, y) \cap OpsOf(ps, model, n))
    + Cardinality(GatheredBy(ps, model, y) \cap OpsOf(ps, model, n))
    + Cardinality(MovedBy(ps, model, y) \cap OpsOf(ps, model, n))

\* What every pass is.
IsRow(r) == r \in PassRecords /\ Len(r.block) > 0 /\ (Len(r.head) = 1 \/ r.head = <<>>)

\* The stack, then the head.
LEMMA UnrolledIs ==
  ASSUME NEW r, IsRow(r), NEW model, IsModel(model)
  PROVE  LET s == StackOf(r, model)
             u == UnrolledOf(r, model)
         IN  /\ s \in Seq(PlacedLayers) /\ Len(s) \in Nat \ {0} /\ Len(r.head) \in {0, 1}
             /\ r.head \in Seq(PlacedLayers)
             /\ u \in Seq(PlacedLayers) /\ Len(u) = Len(s) + Len(r.head)
             /\ \A j \in 1..Len(s) : u[j] = s[j]
             /\ Len(r.head) = 1 => u[Len(s) + 1] = r.head[1]
<1>. DEFINE s == StackOf(r, model)
            h == r.head
<1>1. s \in Seq(PlacedLayers) /\ Len(s) \in Nat \ {0}
  BY StackBill DEF IsRow
<1>2. h \in Seq(PlacedLayers)
  BY DEF IsRow, PassRecords
<1>3. Len(h) \in {0, 1}
  BY DEF IsRow
<1>. HIDE DEF s, h
<1>4. /\ s \o h \in Seq(PlacedLayers) /\ Len(s \o h) = Len(s) + Len(h)
      /\ \A j \in 1..Len(s) : (s \o h)[j] = s[j]
      /\ \A j \in 1..Len(h) : (s \o h)[Len(s) + j] = h[j]
  BY <1>1, <1>2, Joined
<1>5. Len(h) = 1 => (s \o h)[Len(s) + 1] = h[1]
  <2>1. Len(h) = 1 => 1 \in 1..Len(h)
    OBVIOUS
  <2>. QED  BY <2>1, <1>4
<1>6. UnrolledOf(r, model) = s \o h
  BY DEF UnrolledOf, s, h
<1>. QED  BY <1>1, <1>2, <1>3, <1>4, <1>5, <1>6 DEF s, h

\* Counted over the stack and the head, or over both at once.
LEMMA BothCounts ==
  ASSUME NEW m \in Nat, NEW k \in {0, 1}, NEW P, NEW Q, NEW a \in {1, 2}, m > 0,
         P \subseteq a..(m + k), \A j \in a..m : j \in P <=> j \in Q
  PROVE  /\ IsFiniteSet(P) /\ HowMany(Q, a, m) \in Nat
         /\ Cardinality(P) = HowMany(Q, a, m) + (IF k = 1 /\ m + 1 \in P THEN 1 ELSE 0)
<1>1. a \in Int /\ m \in Int /\ m + 1 >= a /\ m + k \in Int
  OBVIOUS
<1>2. HowMany(P, a, m) = HowMany(Q, a, m) /\ HowMany(P, a, m) \in Nat
  <2>1. P \cap (a..m) = Q \cap (a..m)
    OBVIOUS
  <2>2. HowMany(P, a, m) = HowMany(Q, a, m)
    BY <2>1 DEF HowMany
  <2>. QED  BY <1>1, <2>2, HowManyTyped
<1>3. P \cap (a..(m + k)) = P
  OBVIOUS
<1>4. Cardinality(P) = HowMany(P, a, m + k)
  BY <1>3 DEF HowMany
<1>5. IsFiniteSet(P)
  <2>1. IsFiniteSet(P \cap (a..(m + k)))
    BY ONLY <1>1, HowManyTyped
  <2>. QED  BY <2>1, <1>3
<1>6. HowMany(P, a, m + 1) = HowMany(P, a, m) + (IF m + 1 \in P THEN 1 ELSE 0)
  BY ONLY <1>1, HowManyMore
<1>7. CASE k = 0
  BY <1>2, <1>4, <1>5, <1>7
<1>8. CASE k = 1
  BY <1>2, <1>4, <1>5, <1>6, <1>8
<1>. QED  BY <1>7, <1>8

\* A pass costs its stack and its head.
LEMMA RowBill ==
  ASSUME NEW r, IsRow(r), NEW model, IsModel(model), NEW y
  PROVE  LET s == StackOf(r, model)
             u == UnrolledOf(r, model)
             P == RunAt(r, u, y)
             G == GatherAt(r, u, y)
             M == MoveAt(r, u, model, y) \cap (2..Len(s))
         IN  /\ IsFiniteSet(P) /\ IsFiniteSet(G) /\ IsFiniteSet(M)
             /\ Cardinality(P) + Cardinality(G) + Cardinality(M) =
                  Bill(r, s, Len(s), model, y) + Bill(r, r.head, Len(r.head), model, y)
<1>. DEFINE s == StackOf(r, model)
            u == UnrolledOf(r, model)
            h == r.head
            m == Len(s)
            k == Len(h)
            P == RunAt(r, u, y)
            G == GatherAt(r, u, y)
            M == MoveAt(r, u, model, y) \cap (2..Len(s))
<1>1. /\ m \in Nat /\ m > 0 /\ k \in {0, 1} /\ Len(u) = m + k
      /\ \A j \in 1..m : u[j] = s[j]
      /\ k = 1 => u[m + 1] = h[1]
  BY UnrolledIs
<1>. HIDE DEF s, u, h, k
<1>2. /\ P \subseteq 1..(m + k) /\ \A j \in 1..m : j \in P <=> j \in RunAt(r, s, y)
  BY <1>1 DEF RunAt
<1>3. /\ G \subseteq 1..(m + k) /\ \A j \in 1..m : j \in G <=> j \in GatherAt(r, s, y)
  BY <1>1 DEF GatherAt
<1>4. /\ M \subseteq 2..(m + k) /\ \A j \in 2..m : j \in M <=> j \in MoveAt(r, s, model, y)
      /\ m + 1 \notin M
  <2>1. \A j \in 2..m : j \in 1..m /\ j - 1 \in 1..m
    BY <1>1
  <2>2. \A j \in 2..m : j \in 2..Len(u)
    BY <1>1
  <2>3. \A j \in 2..m : j \in M <=> j \in MoveAt(r, s, model, y)
    BY <2>1, <2>2, <1>1 DEF MoveAt
  <2>. QED  BY <2>3, <1>1
<1>5. k = 1 => /\ m + 1 \in P <=> ChargeOf(r, h[1]) = y
               /\ m + 1 \in G <=> ChargeOf(r, h[1]).on = "BOTH" /\ Gather(h[1]) = y
  BY <1>1 DEF RunAt, GatherAt
<1>. HIDE DEF P, G, M
<1>6. /\ IsFiniteSet(P) /\ HowMany(RunAt(r, s, y), 1, m) \in Nat
      /\ Cardinality(P) = HowMany(RunAt(r, s, y), 1, m) + (IF k = 1 /\ m + 1 \in P THEN 1 ELSE 0)
  BY <1>1, <1>2, BothCounts
<1>7. /\ IsFiniteSet(G) /\ HowMany(GatherAt(r, s, y), 1, m) \in Nat
      /\ Cardinality(G) =
           HowMany(GatherAt(r, s, y), 1, m) + (IF k = 1 /\ m + 1 \in G THEN 1 ELSE 0)
  BY <1>1, <1>3, BothCounts
<1>8. /\ IsFiniteSet(M) /\ HowMany(MoveAt(r, s, model, y), 2, m) \in Nat
      /\ Cardinality(M) = HowMany(MoveAt(r, s, model, y), 2, m)
  <2>1. /\ IsFiniteSet(M) /\ HowMany(MoveAt(r, s, model, y), 2, m) \in Nat
        /\ Cardinality(M) = HowMany(MoveAt(r, s, model, y), 2, m)
                              + (IF k = 1 /\ m + 1 \in M THEN 1 ELSE 0)
    BY <1>1, <1>4, BothCounts
  <2>. QED  BY <2>1, <1>4
<1>9. Bill(r, s, m, model, y) =
        HowMany(RunAt(r, s, y), 1, m) + HowMany(GatherAt(r, s, y), 1, m)
          + HowMany(MoveAt(r, s, model, y), 2, m)
  BY DEF Bill
<1>10. Bill(r, h, k, model, y) =
         (IF k = 1 /\ m + 1 \in P THEN 1 ELSE 0) + (IF k = 1 /\ m + 1 \in G THEN 1 ELSE 0)
  <2>1. CASE k = 0
    <3>1. HowMany(RunAt(r, h, y), 1, 0) = 0 /\ HowMany(GatherAt(r, h, y), 1, 0) = 0
          /\ HowMany(MoveAt(r, h, model, y), 2, 0) = 0
      BY HowManyMore
    <3>. QED  BY <2>1, <3>1 DEF Bill
  <2>2. CASE k = 1
    <3>1. Len(h) = 1 /\ 0 \in Nat /\ 0 + 1 = 1
      BY <2>2 DEF k
    <3>2. /\ Bill(r, h, 0, model, y) = 0
          /\ Bill(r, h, 0 + 1, model, y) =
               Bill(r, h, 0, model, y)
                 + (IF ChargeOf(r, h[0 + 1]) = y THEN 1 ELSE 0)
                 + (IF ChargeOf(r, h[0 + 1]).on = "BOTH" /\ Gather(h[0 + 1]) = y THEN 1 ELSE 0)
                 + (IF 0 > 0 /\ Moves(r, h[0], h[0 + 1], model, y) THEN 1 ELSE 0)
      <4>1. 0 \in Nat /\ Len(h) \in Nat /\ 0 < Len(h)
        BY <3>1
      <4>. QED  BY ONLY <4>1, BillMore
    <3>. QED  BY <3>1, <3>2, <2>2, <1>5
  <2>. QED  BY <1>1, <2>1, <2>2
<1>. DEFINE v == IF k = 1 /\ m + 1 \in P THEN 1 ELSE 0
            w == IF k = 1 /\ m + 1 \in G THEN 1 ELSE 0
<1>11. v \in Nat /\ w \in Nat
  OBVIOUS
<1>12. Cardinality(P) + Cardinality(G) + Cardinality(M) =
         Bill(r, s, m, model, y) + Bill(r, h, k, model, y)
  <2>1. Cardinality(P) = HowMany(RunAt(r, s, y), 1, m) + v
    BY <1>6
  <2>2. Cardinality(G) = HowMany(GatherAt(r, s, y), 1, m) + w
    BY <1>7
  <2>3. Bill(r, h, k, model, y) = v + w
    BY <1>10
  <2>. HIDE DEF v, w, m
  <2>. QED  BY <2>1, <2>2, <2>3, <1>6, <1>7, <1>8, <1>9, <1>11
<1>. QED  BY <1>6, <1>7, <1>8, <1>12 DEF s, u, h, k, P, G, M

\* The rows are finite.
LEMMA OpsFinite ==
  ASSUME NEW ps, Len(ps) \in Nat, NEW model, IsModel(model),
         \A q \in 1..Len(ps) : IsRow(ps[q]), NEW n \in Nat, n <= Len(ps)
  PROVE  IsFiniteSet(OpsOf(ps, model, n))
<1>. DEFINE Row == RowsOf(ps, model)
            N == Len(ps)
            S == {k \in Nat : k <= N => IsFiniteSet(RowPairs(Row, k))}
<1>1. \A q \in 1..N : IsFiniteSet(Row[q])
  <2>. TAKE q \in 1..N
  <2>1. Row[q] = 1..Len(UnrolledOf(ps[q], model))
    BY DEF RowsOf
  <2>2. Len(UnrolledOf(ps[q], model)) \in Int
    BY UnrolledIs
  <2>. QED  BY <2>1, <2>2, FS_Interval
<1>. HIDE DEF Row, N
<1>2. 0 \in S
  BY FS_EmptySet DEF RowPairs
<1>3. ASSUME NEW k \in Nat, k \in S
      PROVE  k + 1 \in S
  <2>. SUFFICES ASSUME k + 1 <= N PROVE IsFiniteSet(RowPairs(Row, k + 1))
    OBVIOUS
  <2>1. k < N /\ N \in Nat /\ IsFiniteSet(RowPairs(Row, k))
    BY <1>3 DEF N
  <2>. QED  BY <1>1, <2>1, RowsMore
<1>. HIDE DEF S
<1>4. Nat \subseteq S
  BY <1>2, <1>3, Induction
<1>5. n \in S
  BY <1>4
<1>. QED  BY <1>5 DEF S, N, Row, OpsOf

\* One pass more.
LEMMA DueMore ==
  ASSUME NEW ps, Len(ps) \in Nat, NEW model, IsModel(model),
         \A q \in 1..Len(ps) : IsRow(ps[q]), NEW n \in Nat, n < Len(ps), NEW y
  PROVE  LET r == ps[n + 1]   s == StackOf(r, model)
         IN  /\ Due(ps, model, n, y) \in Nat
             /\ Due(ps, model, n + 1, y) =
                  Due(ps, model, n, y)
                    + (Bill(r, s, Len(s), model, y) + Bill(r, r.head, Len(r.head), model, y))
<1>. DEFINE Row == RowsOf(ps, model)
            N == Len(ps)
            r == ps[n + 1]
            s == StackOf(r, model)
            u == UnrolledOf(r, model)
            m == n + 1
            P == RunAt(r, u, y)
            G == GatherAt(r, u, y)
            M == MoveAt(r, u, model, y) \cap (2..Len(s))
            X == RanBy(ps, model, y)
            Y == GatheredBy(ps, model, y)
            Z == MovedBy(ps, model, y)
            PX == RowOf(Row, m, X)
            PY == RowOf(Row, m, Y)
            PZ == RowOf(Row, m, Z)
<1>1. m \in 1..N /\ IsRow(r)
  OBVIOUS
<1>2. Row[m] = 1..Len(u)
  BY <1>1 DEF RowsOf
<1>3. \A j \in 1..Len(u) : <<m, j>> \in OpsOf(ps, model, N)
  BY <1>1, <1>2 DEF OpsOf, RowPairs
<1>4. \A j : OpOf(ps, model, <<m, j>>) = u[j]
  BY DEF OpOf
<1>5. PX = P
  <2>1. \A j \in 1..Len(u) : <<m, j>> \in X <=> ChargeOf(r, u[j]) = y
    BY <1>3, <1>4 DEF RanBy
  <2>. HIDE DEF Row, u, X, r
  <2>. QED  BY <2>1, <1>2 DEF RowOf, RunAt
<1>6. PY = G
  <2>1. \A j \in 1..Len(u) :
          <<m, j>> \in Y <=> ChargeOf(r, u[j]).on = "BOTH" /\ Gather(u[j]) = y
    BY <1>3, <1>4 DEF GatheredBy
  <2>. HIDE DEF Row, u, Y, r
  <2>. QED  BY <2>1, <1>2 DEF RowOf, GatherAt
<1>7. PZ = M
  <2>1. \A j \in 1..Len(u) :
          <<m, j>> \in Z <=> j \in 2..Len(s) /\ Moves(r, u[j - 1], u[j], model, y)
    <3>. TAKE j \in 1..Len(u)
    <3>. DEFINE x == <<m, j>>
    <3>1. x[1] = m /\ x[2] = j /\ ps[x[1]] = r /\ StackOf(ps[x[1]], model) = s
      OBVIOUS
    <3>2. OpOf(ps, model, <<x[1], x[2] - 1>>) = u[j - 1] /\ OpOf(ps, model, x) = u[j]
      BY <1>4
    <3>3. x \in OpsOf(ps, model, Len(ps))
      BY <1>3
    <3>. HIDE DEF x, r, s, u
    <3>. QED  BY <3>1, <3>2, <3>3 DEF MovedBy, x
  <2>2. s \in Seq(PlacedLayers) /\ Len(s) \in Nat /\ Len(u) \in Nat /\ Len(u) >= Len(s)
    <3>1. IsRow(r) /\ IsModel(model)
      BY <1>1
    <3>. HIDE DEF r
    <3>. QED  BY <3>1, UnrolledIs
  <2>. HIDE DEF Row, u, Z, r, s
  <2>. QED  BY <2>1, <2>2, <1>2 DEF RowOf, MoveAt
<1>8. \A q \in 1..N : IsFiniteSet(Row[q])
  <2>. TAKE q \in 1..N
  <2>1. Row[q] = 1..Len(UnrolledOf(ps[q], model))
    BY DEF RowsOf
  <2>2. Len(UnrolledOf(ps[q], model)) \in Int
    BY UnrolledIs
  <2>. QED  BY <2>1, <2>2, FS_Interval
<1>9. IsFiniteSet(RowPairs(Row, n))
  BY OpsFinite DEF OpsOf
<1>10. /\ Cardinality(P) + Cardinality(G) + Cardinality(M) =
            Bill(r, s, Len(s), model, y) + Bill(r, r.head, Len(r.head), model, y)
       /\ IsFiniteSet(P) /\ IsFiniteSet(G) /\ IsFiniteSet(M)
  <2>1. IsRow(r) /\ IsModel(model)
    BY <1>1
  <2>. HIDE DEF r
  <2>. QED  BY ONLY <2>1, RowBill
<1>11. N \in Nat /\ n < N
  OBVIOUS
<1>12. /\ Cardinality(X \cap RowPairs(Row, m)) = Cardinality(X \cap RowPairs(Row, n)) + Cardinality(PX)
       /\ Cardinality(X \cap RowPairs(Row, n)) \in Nat
       /\ Cardinality(Y \cap RowPairs(Row, m)) = Cardinality(Y \cap RowPairs(Row, n)) + Cardinality(PY)
       /\ Cardinality(Y \cap RowPairs(Row, n)) \in Nat
       /\ Cardinality(Z \cap RowPairs(Row, m)) = Cardinality(Z \cap RowPairs(Row, n)) + Cardinality(PZ)
       /\ Cardinality(Z \cap RowPairs(Row, n)) \in Nat
  <2>. HIDE DEF Row, N, X, Y, Z
  <2>1. ASSUME NEW W
        PROVE  /\ Cardinality(W \cap RowPairs(Row, n + 1)) =
                    Cardinality(W \cap RowPairs(Row, n))
                      + Cardinality(RowOf(Row, n + 1, W))
               /\ Cardinality(W \cap RowPairs(Row, n)) \in Nat
    <3>1. n \in Nat /\ N \in Nat /\ n < N
      BY <1>11
    <3>2. \A q \in 1..N : IsFiniteSet(Row[q])
      BY <1>8
    <3>3. Cardinality(W \cap RowPairs(Row, n + 1)) =
              Cardinality(W \cap RowPairs(Row, n))
                + Cardinality(RowOf(Row, n + 1, W))
      BY ONLY <3>1, <3>2, <1>9, RowsMore
    <3>4. Cardinality(W \cap RowPairs(Row, n)) \in Nat
      BY ONLY <3>1, <3>2, <1>9, RowsMore
    <3>. QED  BY <3>3, <3>4
  <2>. QED  BY <2>1
<1>13. /\ Due(ps, model, n, y) = Cardinality(X \cap RowPairs(Row, n))
            + Cardinality(Y \cap RowPairs(Row, n)) + Cardinality(Z \cap RowPairs(Row, n))
       /\ Due(ps, model, m, y) = Cardinality(X \cap RowPairs(Row, m))
            + Cardinality(Y \cap RowPairs(Row, m)) + Cardinality(Z \cap RowPairs(Row, m))
  BY DEF Due, OpsOf
<1>14. Cardinality(P) \in Nat /\ Cardinality(G) \in Nat /\ Cardinality(M) \in Nat
  <2>. HIDE DEF P, G, M
  <2>. QED  BY <1>10, FS_CardinalityType
<1>15. Due(ps, model, m, y) =
         Due(ps, model, n, y) + (Cardinality(P) + Cardinality(G) + Cardinality(M))
  <2>. HIDE DEF P, G, M, X, Y, Z, PX, PY, PZ, Row, m
  <2>. QED  BY <1>5, <1>6, <1>7, <1>12, <1>13, <1>14
<1>16. Due(ps, model, n, y) \in Nat
  <2>. HIDE DEF X, Y, Z, Row
  <2>. QED  BY <1>12, <1>13
<1>. HIDE DEF P, G, M, r, s
<1>. QED  BY <1>10, <1>15, <1>16 DEF r, s

\* Nothing is due before the first pass.
LEMMA NothingDue ==
  ASSUME NEW ps, NEW model, NEW y
  PROVE  Due(ps, model, 0, y) = 0
<1>1. OpsOf(ps, model, 0) = {}
  BY DEF OpsOf, RowPairs
<1>2. \A X : Cardinality(X \cap OpsOf(ps, model, 0)) = 0
  BY <1>1, FS_EmptySet
<1>. QED  BY <1>2 DEF Due

\* Every ledger holds what is due for what is costed so far.
Billed ==
  /\ p - 1 <= Len(passes)
  /\ \A y \in Charges : Copies(record.energy_j, y) = Due(passes, job.model, p - 1, y)
  /\ Costing =>
       /\ i - 1 <= Len(List)
       /\ Pass.exec_model = "SEQUENTIAL" =>
            prev = IF i = 1 THEN "none" ELSE List[i - 1].device
       /\ \A y \in Charges :
            Copies(out.energy_j, y) = Bill(Pass, List, i - 1, job.model, y)
       /\ part = "head" => \A y \in Charges :
            LET s == StackOf(Pass, job.model)
            IN  Copies(total.energy_j, y) = Bill(Pass, s, Len(s), job.model, y)
  /\ ~Costing => prev = "none"

\* The passes are rows.
LEMMA PassesAre ==
  ASSUME Typed
  PROVE  /\ Len(passes) \in Nat /\ \A q \in 1..Len(passes) : IsRow(passes[q])
         /\ IsModel(job.model) /\ p - 1 \in Nat
         /\ Costing => /\ p \in 1..Len(passes) /\ IsRow(Pass) /\ p - 1 < Len(passes)
                       /\ i - 1 \in Nat /\ Len(List) \in Nat
<1>1. passes \in Seq(PassesFor(job)) /\ IsJob(job) /\ p \in Nat \ {0} /\ i \in Nat \ {0}
  BY DEF Typed
<1>2. Len(passes) \in Nat
  BY <1>1, LenProperties
<1>3. \A q \in 1..Len(passes) : IsRow(passes[q])
  <2>. TAKE q \in 1..Len(passes)
  <2>1. passes[q] \in PassesFor(job)
    BY <1>1
  <2>2. IsPass(passes[q], job) /\ passes[q] \in PassRecords
    BY <2>1 DEF PassesFor
  <2>. QED  BY <2>2 DEF IsPass, IsRow, PassRecords
<1>4. Costing => List \in Seq(PlacedLayers)
  BY PassIs
<1>. QED  BY <1>1, <1>2, <1>3, <1>4, LenProperties DEF IsJob, Costing, Pass

\* A layer is charged as it is due.
LEMMA PlacedBilled ==
  ASSUME CostInv, Billed, Costing, i <= Len(List), i' = i + 1,
         UNCHANGED <<job, passes, p, part, total, record>>,
         Pass.exec_model = "SEQUENTIAL" => prev' = Cur.device,
         \A y \in Charges :
           Copies(out'.energy_j, y) =
             Copies(out.energy_j, y)
               + (IF ChargeOf(Pass, Cur) = y THEN 1 ELSE 0)
               + (IF ChargeOf(Pass, Cur).on = "BOTH" /\ Gather(Cur) = y THEN 1 ELSE 0)
               + (IF i - 1 > 0 /\ Moves(Pass, List[i - 1], Cur, job.model, y) THEN 1 ELSE 0)
  PROVE  Billed'
<1>1. Typed
  BY DEF CostInv
<1>2. /\ i \in Nat \ {0} /\ i - 1 \in Nat /\ Len(List) \in Nat /\ i - 1 < Len(List)
      /\ i - 1 + 1 = i /\ i' - 1 = i /\ i' # 1 /\ i' - 1 = i
  BY <1>1, PassesAre DEF Typed
<1>3. Pass' = Pass /\ List' = List /\ Costing' /\ Cur = List[i]
  BY DEF Pass, List, Costing, Cur
<1>4. \A y \in Charges : Copies(out'.energy_j, y) = Bill(Pass, List, i, job.model, y)
  <2>. TAKE y \in Charges
  <2>1. Bill(Pass, List, i - 1 + 1, job.model, y) =
          Bill(Pass, List, i - 1, job.model, y)
            + (IF ChargeOf(Pass, List[i - 1 + 1]) = y THEN 1 ELSE 0)
            + (IF ChargeOf(Pass, List[i - 1 + 1]).on = "BOTH" /\ Gather(List[i - 1 + 1]) = y
               THEN 1 ELSE 0)
            + (IF i - 1 > 0 /\ Moves(Pass, List[i - 1], List[i - 1 + 1], job.model, y)
               THEN 1 ELSE 0)
    BY ONLY <1>2, BillMore
  <2>2. Copies(out.energy_j, y) = Bill(Pass, List, i - 1, job.model, y)
    BY DEF Billed
  <2>. QED  BY <1>2, <1>3, <2>1, <2>2
<1>5. p' - 1 <= Len(passes') /\ job'.model = job.model
      /\ \A y \in Charges : Copies(record'.energy_j, y) = Due(passes', job'.model, p' - 1, y)
  BY DEF Billed
<1>6. part' = "head" => \A y \in Charges :
        LET s == StackOf(Pass', job'.model)
        IN  Copies(total'.energy_j, y) = Bill(Pass', s, Len(s), job'.model, y)
  BY <1>3 DEF Billed
<1>7. \A y \in Charges : Copies(out'.energy_j, y) = Bill(Pass', List', i' - 1, job'.model, y)
  BY <1>2, <1>3, <1>4
<1>8. Pass'.exec_model = "SEQUENTIAL" =>
        prev' = IF i' = 1 THEN "none" ELSE List'[i' - 1].device
  BY <1>2, <1>3
<1>9. i' - 1 <= Len(List')
  BY <1>2, <1>3
<1>. QED  BY <1>3, <1>5, <1>6, <1>7, <1>8, <1>9 DEF Billed

\* A layer of compose_sequential charges its kernel, and a transfer when the
\* device changes.
LEMMA SequentialCharges ==
  ASSUME NEW c, Sound(c), NEW before \in Devices \cup {"none"},
         NEW l \in PlacedLayers, NEW model, IsModel(model), NEW z \in Charges
  PROVE  Copies(Sequential(c, before, l, model).energy_j, z) =
           Copies(c.energy_j, z) + (IF Kernel(l, l.device) = z THEN 1 ELSE 0)
             + (IF before \in Devices /\ l.device # before /\ Transfer(In1(l, model)) = z
                THEN 1 ELSE 0)
<1>. DEFINE bytes == IF In1(l, model) < 1 THEN 1 ELSE In1(l, model)
            x == Transfer(bytes)
            y == Kernel(l, l.device)
            cross == Cross(c, x, 1)
            mid == IF before \in Devices /\ l.device # before THEN cross ELSE c
            s == Add(mid, y, 1, l.device, l.type)
<1>1. Sequential(c, before, l, model) = s
  BY DEF Sequential, Cross
<1>2. bytes = In1(l, model) /\ bytes \in Nat
  BY In1Typed
<1>. HIDE DEF bytes
<1>3. IsCharge(x, "BUS", {"PIM"}, "COMM") /\ x = Transfer(In1(l, model))
  BY <1>2, TransferIs
<1>4. IsCharge(y, l.device, {l.device}, l.type) /\ l.device \in Devices /\ y = Kernel(l, l.device)
  BY KernelIs
<1>5. x \in Charges /\ y \in Charges /\ 1 \in Nat
  BY <1>3, <1>4 DEF IsCharge
<1>. HIDE DEF x, y
<1>6. Sound(cross) /\ cross.energy_j = c.energy_j (+) Times(One(x), 1)
  BY <1>3, <1>5, CrossSound
<1>. HIDE DEF cross
<1>7. Sound(mid) /\ mid.energy_j =
        IF before \in Devices /\ l.device # before THEN c.energy_j (+) Times(One(x), 1)
        ELSE c.energy_j
  BY <1>6
<1>. HIDE DEF mid
<1>8. s.energy_j = mid.energy_j (+) Times(One(y), 1)
  BY <1>4, <1>7, AddSound
<1>9. c.energy_j \in Money /\ mid.energy_j \in Money
  BY <1>7, LedgerTyped DEF Sound
<1>10. Copies(s.energy_j, z) = Copies(mid.energy_j, z) + (IF z = y THEN 1 ELSE 0)
       /\ Copies(mid.energy_j, z) \in Nat
  BY <1>5, <1>8, <1>9, MoreCopies
<1>11. /\ Copies(c.energy_j (+) Times(One(x), 1), z) = Copies(c.energy_j, z) + (IF z = x THEN 1 ELSE 0)
       /\ Copies(c.energy_j, z) \in Nat
  BY <1>5, <1>9, MoreCopies
<1>12. Copies(mid.energy_j, z) = Copies(c.energy_j, z)
         + (IF before \in Devices /\ l.device # before /\ x = z THEN 1 ELSE 0)
  BY <1>7, <1>11
<1>. HIDE DEF s
<1>. QED  BY <1>1, <1>3, <1>4, <1>10, <1>11, <1>12

\* compose_sequential keeps the ledger at what is due.
LEMMA SequentialBilled == CostInv /\ Billed /\ SequentialLayer => Billed'
<1>. SUFFICES ASSUME CostInv, Billed, SequentialLayer
              PROVE  Billed'
  OBVIOUS
<1>1. /\ Costing /\ i <= Len(List) /\ Pass.exec_model = "SEQUENTIAL"
      /\ out' = Sequential(out, prev, Cur, job.model) /\ i' = i + 1
      /\ UNCHANGED <<job, passes, p, part, total, record>>
      /\ prev' = Cur.device
  BY DEF SequentialLayer, Composing, Place
<1>2. Typed /\ Books /\ IsModel(job.model) /\ prev \in Devices \cup {"none"}
  BY DEF CostInv, Typed, IsJob
<1>3. Sound(out) /\ Cur \in PlacedLayers /\ Pass \in PassRecords /\ List \in Seq(PlacedLayers)
  BY <1>1, <1>2, CurIs, PassIs DEF Books
<1>4. i - 1 \in Nat /\ Len(List) \in Nat /\ prev = IF i = 1 THEN "none" ELSE List[i - 1].device
  BY <1>1, <1>2, PassesAre DEF Billed
<1>5. i - 1 > 0 => List[i - 1] \in PlacedLayers /\ List[i - 1].device \in Devices
  <2>1. i - 1 > 0 => i - 1 \in 1..Len(List)
    BY <1>1, <1>2, <1>4 DEF Typed
  <2>. QED  BY <2>1, <1>3 DEF PlacedLayers
<1>6. ChargeOf(Pass, Cur) = Kernel(Cur, Cur.device) /\ ChargeOf(Pass, Cur).on # "BOTH"
  <2>1. ChargeOf(Pass, Cur) = Kernel(Cur, Cur.device)
    BY <1>1, <1>3, ChargeOfIs
  <2>2. Cur.device \in Devices
    BY <1>3 DEF PlacedLayers
  <2>. QED  BY <2>1, <2>2 DEF Kernel, NpuCost, PimCost, Devices
<1>7. "none" \notin Devices
  BY DEF Devices
<1>8. \A y \in Charges :
        prev \in Devices /\ Cur.device # prev /\ Transfer(In1(Cur, job.model)) = y <=>
          i - 1 > 0 /\ Moves(Pass, List[i - 1], Cur, job.model, y)
  <2>1. i - 1 > 0 <=> i # 1
    BY <1>4, <1>2 DEF Typed
  <2>. QED  BY <2>1, <1>1, <1>4, <1>5, <1>7 DEF Moves
<1>9. \A y \in Charges :
        Copies(out'.energy_j, y) =
          Copies(out.energy_j, y) + (IF Kernel(Cur, Cur.device) = y THEN 1 ELSE 0)
            + (IF prev \in Devices /\ Cur.device # prev /\ Transfer(In1(Cur, job.model)) = y
               THEN 1 ELSE 0)
  BY <1>1, <1>2, <1>3, SequentialCharges
<1>10. \A y \in Charges : Copies(out.energy_j, y) \in Nat
  BY <1>3, LedgerTyped, BagTyped DEF Sound, Money
<1>11. \A y \in Charges :
           Copies(out'.energy_j, y) =
             Copies(out.energy_j, y)
               + (IF ChargeOf(Pass, Cur) = y THEN 1 ELSE 0)
               + (IF ChargeOf(Pass, Cur).on = "BOTH" /\ Gather(Cur) = y THEN 1 ELSE 0)
               + (IF i - 1 > 0 /\ Moves(Pass, List[i - 1], Cur, job.model, y) THEN 1 ELSE 0)
  BY <1>6, <1>8, <1>9, <1>10
<1>. QED  BY <1>1, <1>11, PlacedBilled

\* compose_concurrent charges a list's layers without transfers.
LEMMA ConcurrentBilled ==
  ASSUME CostInv, Billed, Costing, i <= Len(List), i' = i + 1,
         UNCHANGED <<job, passes, p, part, total, record>>,
         Pass.exec_model = "CONCURRENT",
         \A y \in Charges :
           Copies(out'.energy_j, y) =
             Copies(out.energy_j, y)
               + (IF ChargeOf(Pass, Cur) = y THEN 1 ELSE 0)
               + (IF ChargeOf(Pass, Cur).on = "BOTH" /\ Gather(Cur) = y THEN 1 ELSE 0)
  PROVE  Billed'
<1>1. Sound(out)
  BY DEF CostInv, Books
<1>2. \A y \in Charges : Copies(out.energy_j, y) \in Nat
  BY <1>1, LedgerTyped, BagTyped DEF Sound, Money
<1>3. Pass.exec_model # "SEQUENTIAL"
  OBVIOUS
<1>4. \A y \in Charges :
           Copies(out'.energy_j, y) =
             Copies(out.energy_j, y)
               + (IF ChargeOf(Pass, Cur) = y THEN 1 ELSE 0)
               + (IF ChargeOf(Pass, Cur).on = "BOTH" /\ Gather(Cur) = y THEN 1 ELSE 0)
               + (IF i - 1 > 0 /\ Moves(Pass, List[i - 1], Cur, job.model, y) THEN 1 ELSE 0)
  BY <1>2, <1>3 DEF Moves
<1>. QED  BY <1>3, <1>4, PlacedBilled

\* The layer in hand, whatever compose_concurrent does with it.
LEMMA InHand ==
  ASSUME CostInv, Costing, i <= Len(List), Pass.exec_model = "CONCURRENT"
  PROVE  /\ Cur \in PlacedLayers /\ Pass \in PassRecords /\ Sound(out)
         /\ out.energy_j \in Money
         /\ \A y \in Charges : Copies(out.energy_j, y) \in Nat
<1>1. Typed /\ Sound(out)
  BY DEF CostInv, Books
<1>2. Cur \in PlacedLayers /\ Pass \in PassRecords
  BY <1>1, CurIs, PassIs
<1>. QED  BY <1>1, <1>2, LedgerTyped, BagTyped DEF Sound, Money

\* A matmul left in the bank is due once.
LEMMA PinnedBilled == CostInv /\ Billed /\ PinnedLayer => Billed'
<1>. SUFFICES ASSUME CostInv, Billed, PinnedLayer
              PROVE  Billed'
  OBVIOUS
<1>. DEFINE x == Kernel(Cur, "PIM")
            pinned == [Enter(out, x, 1, "PIM", Cur.type) EXCEPT !.split_t_pim_bound = @ (+) One(x)]
<1>1. /\ Costing /\ i <= Len(List) /\ Pass.exec_model = "CONCURRENT"
      /\ out' = pinned /\ i' = i + 1
      /\ UNCHANGED <<job, passes, p, part, total, record>>
      /\ Cur.type = "MATMUL" /\ Pinned(Cur, Pass.split_attention)
  BY DEF PinnedLayer, Composing, Place, Pinned
<1>2. /\ Cur \in PlacedLayers /\ Pass \in PassRecords /\ Sound(out)
      /\ out.energy_j \in Money /\ \A y \in Charges : Copies(out.energy_j, y) \in Nat
  BY <1>1, InHand
<1>3. IsCharge(x, "PIM", {"PIM"}, Cur.type)
  BY <1>1, <1>2, KernelIs
<1>4. x \in Charges /\ x.on = "PIM"
  BY <1>3 DEF IsCharge
<1>5. ChargeOf(Pass, Cur) = x
  BY <1>1, <1>2, ChargeOfIs
<1>. HIDE DEF x
<1>6. pinned.energy_j = out.energy_j (+) Times(One(x), 1)
  BY <1>2, <1>3, PinnedSound
<1>. HIDE DEF pinned
<1>7. \A y \in Charges :
        Copies(out'.energy_j, y) = Copies(out.energy_j, y) + (IF y = x THEN 1 ELSE 0)
  <2>1. 1 \in Nat
    OBVIOUS
  <2>. QED  BY <2>1, <1>1, <1>2, <1>4, <1>6, MoreCopies
<1>8. \A y \in Charges :
        Copies(out'.energy_j, y) =
          Copies(out.energy_j, y) + (IF ChargeOf(Pass, Cur) = y THEN 1 ELSE 0)
            + (IF ChargeOf(Pass, Cur).on = "BOTH" /\ Gather(Cur) = y THEN 1 ELSE 0)
  BY <1>2, <1>4, <1>5, <1>7
<1>. QED  BY <1>1, <1>8, ConcurrentBilled

\* Glue is due once.
LEMMA GlueBilled == CostInv /\ Billed /\ GlueLayer => Billed'
<1>. SUFFICES ASSUME CostInv, Billed, GlueLayer
              PROVE  Billed'
  OBVIOUS
<1>. DEFINE x == Kernel(Cur, "NPU")
            glue == Enter(out, x, 1, "NPU", Cur.type)
<1>1. /\ Costing /\ i <= Len(List) /\ Pass.exec_model = "CONCURRENT"
      /\ out' = glue /\ i' = i + 1
      /\ UNCHANGED <<job, passes, p, part, total, record>>
      /\ Cur.type \in NONLINEAR
  BY DEF GlueLayer, Composing, Place
<1>2. /\ Cur \in PlacedLayers /\ Pass \in PassRecords /\ Sound(out)
      /\ out.energy_j \in Money /\ \A y \in Charges : Copies(out.energy_j, y) \in Nat
  BY <1>1, InHand
<1>3. IsCharge(x, "NPU", {"NPU"}, Cur.type)
  BY <1>2, KernelIs
<1>4. x \in Charges /\ x.on = "NPU"
  BY <1>3 DEF IsCharge
<1>5. ChargeOf(Pass, Cur) = x
  BY <1>1, <1>2, ChargeOfIs
<1>. HIDE DEF x
<1>6. glue.energy_j = out.energy_j (+) Times(One(x), 1)
  BY <1>2, <1>3, AddSound DEF Devices
<1>. HIDE DEF glue
<1>7. \A y \in Charges :
        Copies(out'.energy_j, y) = Copies(out.energy_j, y) + (IF y = x THEN 1 ELSE 0)
  <2>1. 1 \in Nat
    OBVIOUS
  <2>. QED  BY <2>1, <1>1, <1>2, <1>4, <1>6, MoreCopies
<1>8. \A y \in Charges :
        Copies(out'.energy_j, y) =
          Copies(out.energy_j, y) + (IF ChargeOf(Pass, Cur) = y THEN 1 ELSE 0)
            + (IF ChargeOf(Pass, Cur).on = "BOTH" /\ Gather(Cur) = y THEN 1 ELSE 0)
  BY <1>2, <1>4, <1>5, <1>7
<1>. QED  BY <1>1, <1>8, ConcurrentBilled

\* A split kernel is due once, and so is its gather.
LEMMA SplitBilled == CostInv /\ Billed /\ SplitLayer => Billed'
<1>. SUFFICES ASSUME CostInv, Billed, SplitLayer
              PROVE  Billed'
  OBVIOUS
<1>. DEFINE x == Split(Cur)
            g == Gather(Cur)
<1>1. /\ Costing /\ i <= Len(List) /\ Pass.exec_model = "CONCURRENT"
      /\ out' = SplitKernel(out, Cur) /\ i' = i + 1
      /\ UNCHANGED <<job, passes, p, part, total, record>>
      /\ Cur.type \in {"FC", "MATMUL"} /\ ~Pinned(Cur, Pass.split_attention)
  BY DEF SplitLayer, Composing, Place
<1>2. /\ Cur \in PlacedLayers /\ Pass \in PassRecords /\ Sound(out)
      /\ out.energy_j \in Money /\ \A y \in Charges : Copies(out.energy_j, y) \in Nat
  BY <1>1, InHand
<1>3. IsCharge(x, "BOTH", Devices, Cur.type) /\ IsCharge(g, "GATHER", {"PIM"}, "COMM")
  BY <1>1, <1>2, KernelIs
<1>4. x \in Charges /\ g \in Charges /\ x.on = "BOTH" /\ g = Gather(Cur)
  BY <1>3 DEF IsCharge
<1>5. ChargeOf(Pass, Cur) = x
  BY <1>1, <1>2, ChargeOfIs
<1>6. out'.energy_j = (out.energy_j (+) Times(One(x), 1)) (+) Times(One(g), 1)
  BY <1>1, <1>2, SplitSound
<1>. HIDE DEF x, g
<1>. DEFINE mid == out.energy_j (+) Times(One(x), 1)
<1>7. mid \in Money /\ 1 \in Nat
  BY <1>2, <1>4, EntryBag, MoneyPlus
<1>8. \A y \in Charges : Copies(mid, y) = Copies(out.energy_j, y) + (IF y = x THEN 1 ELSE 0)
  BY <1>2, <1>4, <1>7, MoreCopies
<1>. HIDE DEF mid
<1>9. \A y \in Charges : Copies(out'.energy_j, y) = Copies(mid, y) + (IF y = g THEN 1 ELSE 0)
  <2>1. out'.energy_j = mid (+) Times(One(g), 1)
    BY <1>6 DEF mid
  <2>. QED  BY <2>1, <1>4, <1>7, MoreCopies
<1>10. \A y \in Charges :
        Copies(out'.energy_j, y) =
          Copies(out.energy_j, y) + (IF ChargeOf(Pass, Cur) = y THEN 1 ELSE 0)
            + (IF ChargeOf(Pass, Cur).on = "BOTH" /\ Gather(Cur) = y THEN 1 ELSE 0)
  BY <1>2, <1>4, <1>5, <1>8, <1>9
<1>. QED  BY <1>1, <1>10, ConcurrentBilled

\* No layers cost nothing.
LEMMA NoBill ==
  ASSUME NEW r, NEW s, NEW model, NEW y
  PROVE  Bill(r, s, 0, model, y) = 0
<1>1. \A P : HowMany(P, 1, 0) = 0 /\ HowMany(P, 2, 0) = 0
  BY HowManyMore
<1>. QED  BY <1>1 DEF Bill

\* A composer that starts afresh has charged nothing.
LEMMA FreshBilled ==
  ASSUME Typed', out' = Zero, i' = 1, prev' = "none", p' - 1 <= Len(passes'),
         \A y \in Charges : Copies(record'.energy_j, y) = Due(passes', job'.model, p' - 1, y),
         part' = "head" => \A y \in Charges :
           LET s == StackOf(Pass', job'.model)
           IN  Copies(total'.energy_j, y) = Bill(Pass', s, Len(s), job'.model, y)
  PROVE  Billed'
<1>1. \A y : Copies(out'.energy_j, y) = 0
  BY ZeroSound, BagEmpty DEF Money
<1>2. i' - 1 = 0 /\ \A y : Bill(Pass', List', 0, job'.model, y) = 0
  BY NoBill
<1>3. Costing' => i' - 1 <= Len(List')
  <2>. SUFFICES ASSUME Costing'
                PROVE  i' - 1 <= Len(List')
    OBVIOUS
  <2>1. passes' \in Seq(PassesFor(job')) /\ p' \in Nat \ {0} /\ p' <= Len(passes')
    BY DEF Typed, Costing
  <2>2. p' \in 1..Len(passes')
    BY <2>1, LenProperties
  <2>3. passes'[p'] \in PassesFor(job')
    BY <2>1, <2>2
  <2>4. passes'[p'] \in PassRecords
    BY <2>3 DEF PassesFor
  <2>5. List' \in Seq(PlacedLayers)
    BY <2>4 DEF List, Pass, PassRecords
  <2>. QED  BY <1>2, <2>5, LenProperties
<1>4. \A y \in Charges : Copies(out'.energy_j, y) = Bill(Pass', List', i' - 1, job'.model, y)
  BY <1>1, <1>2
<1>. QED  BY <1>3, <1>4 DEF Billed

\* The hops charge one transfer between two blocks of the stack, each of the
\* input of the next block's first layer.
LEMMA HopsCharge ==
  ASSUME NEW c, Sound(c), NEW r \in PassRecords, Len(r.block) > 0,
         r.exec_model = "SEQUENTIAL", NEW model, IsModel(model), Stacks(r, model), NEW y
  PROVE  Copies(InterlayerHops(c, r.block, model).energy_j, y) =
           Copies(c.energy_j, y)
             + (IF Moves(r, r.block[Len(r.block)], r.block[1], model, y)
                THEN model.n_layers - 1 ELSE 0)
<1>. DEFINE block == r.block
            last == block[Len(block)]
            bytes == last.m * last.n * model.bytes_per_param
            reps == HopReps(model)
            x == Transfer(bytes)
            cross == Cross(c, x, reps)
<1>1. block \in Seq(PlacedLayers) /\ block[1] \in PlacedLayers
  BY LenProperties DEF PassRecords
<1>2. bytes = In1(block[1], model) /\ bytes \in Nat
  BY <1>1, In1Typed DEF Stacks
<1>3. reps \in Nat /\ reps = model.n_layers - 1
  BY DEF HopReps, IsModel, Positive
<1>4. InterlayerHops(c, block, model) = IF block[1].device # last.device THEN cross ELSE c
  BY DEF InterlayerHops, Cross
<1>. HIDE DEF bytes, reps, last
<1>5. IsCharge(x, "BUS", {"PIM"}, "COMM") /\ x = Transfer(In1(block[1], model))
  BY <1>2, TransferIs
<1>. HIDE DEF x
<1>6. cross.energy_j = c.energy_j (+) Times(One(x), reps)
  BY <1>3, <1>5, CrossSound
<1>7. x \in Charges /\ c.energy_j \in Money
  BY <1>5, LedgerTyped DEF IsCharge, Sound
<1>. HIDE DEF cross
<1>8. Copies(cross.energy_j, y) = Copies(c.energy_j, y) + (IF y = x THEN reps ELSE 0)
      /\ Copies(c.energy_j, y) \in Nat
  BY <1>3, <1>6, <1>7, MoreCopies
<1>. QED  BY <1>3, <1>4, <1>5, <1>8 DEF last, Moves

\* What a finished list has charged.
LEMMA ListBilled ==
  ASSUME CostInv, Billed, ListDone
  PROVE  /\ Costing /\ IsRow(Pass) /\ IsPass(Pass, job) /\ IsModel(job.model)
         /\ p \in 1..Len(passes) /\ Len(passes) \in Nat /\ \A q \in 1..Len(passes) : IsRow(passes[q])
         /\ p - 1 \in Nat /\ p - 1 < Len(passes) /\ p - 1 + 1 = p
         /\ Sound(Returned) /\ Returned.energy_j \in Money
         /\ \A y \in Charges : Copies(Returned.energy_j, y) = Bill(Pass, List, Len(List), job.model, y)
<1>1. Typed /\ Costing /\ i > Len(List)
  BY DEF CostInv, ListDone
<1>2. /\ Len(passes) \in Nat /\ \A q \in 1..Len(passes) : IsRow(passes[q])
      /\ IsModel(job.model) /\ p - 1 \in Nat
      /\ p \in 1..Len(passes) /\ IsRow(Pass) /\ p - 1 < Len(passes)
      /\ i - 1 \in Nat /\ Len(List) \in Nat
  BY <1>1, PassesAre
<1>3. i - 1 = Len(List) /\ i \in Nat
  BY <1>1, <1>2 DEF Billed, Typed
<1>4. Sound(Returned) /\ IsPass(Pass, job)
  BY <1>1, ReturnedSound, PassIs
<1>5. Returned.energy_j = out.energy_j
  <2>1. out \in Ledgers
    BY DEF CostInv, Books, Sound
  <2>. QED  BY <2>1 DEF Returned, Ledgers
<1>6. Returned.energy_j \in Money
  BY <1>4, LedgerTyped DEF Sound
<1>7. \A y \in Charges : Copies(Returned.energy_j, y) = Bill(Pass, List, Len(List), job.model, y)
  BY <1>1, <1>3, <1>5 DEF Billed
<1>. QED  BY <1>1, <1>2, <1>4, <1>6, <1>7

\* The block scaled, with its hops, is the stack.
LEMMA BlockBilled == CostInv /\ Billed /\ EndBlock => Billed'
<1>. SUFFICES ASSUME CostInv, Billed, EndBlock
              PROVE  Billed'
  OBVIOUS
<1>. DEFINE model == job.model
            L == Len(Pass.block)
            N == model.n_layers
            scaled == Scale(Returned, N)
            stack == StackOf(Pass, model)
<1>1. /\ ListDone /\ Pass.forward /\ part = "block" /\ part' = "head"
      /\ total' = IF Pass.exec_model = "SEQUENTIAL"
                  THEN InterlayerHops(scaled, Pass.block, model) ELSE scaled
      /\ out' = Zero /\ prev' = "none" /\ i' = 1
      /\ UNCHANGED <<job, passes, p, record>>
  BY DEF EndBlock, Fresh
<1>2. /\ Costing /\ IsRow(Pass) /\ IsPass(Pass, job) /\ IsModel(model) /\ List = Pass.block
      /\ Sound(Returned) /\ Returned.energy_j \in Money
      /\ \A y \in Charges : Copies(Returned.energy_j, y) = Bill(Pass, Pass.block, L, model, y)
  <2>1. List = Pass.block
    BY <1>1 DEF List
  <2>. QED  BY <1>1, <2>1, ListBilled
<1>3. Typed'
  <2>1. CostInv'
    BY BlockStep
  <2>. QED  BY <2>1 DEF CostInv
<1>4. Len(Pass.block) > 0 /\ Pass \in PassRecords /\ Stacks(Pass, model)
  BY <1>1, <1>2 DEF IsRow, IsPass
<1>5. N \in Nat /\ DepthOf(Pass, model) = N
  BY <1>1, <1>2 DEF IsModel, Positive, DepthOf
<1>6. Sound(scaled) /\ \A y : Copies(scaled.energy_j, y) = N * Copies(Returned.energy_j, y)
  BY <1>2, <1>5, ScaleSound, TimesBag
<1>. HIDE DEF scaled
<1>7. ASSUME NEW y \in Charges
      PROVE  Copies(total'.energy_j, y) = Bill(Pass, stack, Len(stack), model, y)
  <2>. DEFINE hop == Moves(Pass, Pass.block[L], Pass.block[1], model, y)
  <2>1. Bill(Pass, stack, Len(stack), model, y) =
          N * Bill(Pass, Pass.block, L, model, y) + (IF hop THEN N - 1 ELSE 0)
        /\ N * Bill(Pass, Pass.block, L, model, y) = Copies(scaled.energy_j, y)
    BY <1>2, <1>4, <1>5, <1>6, StackBill
  <2>2. Copies(scaled.energy_j, y) \in Nat
    BY <1>6, LedgerTyped, BagTyped DEF Sound, Money
  <2>3. CASE Pass.exec_model = "SEQUENTIAL"
    <3>1. Copies(InterlayerHops(scaled, Pass.block, model).energy_j, y) =
            Copies(scaled.energy_j, y) + (IF hop THEN N - 1 ELSE 0)
      BY <1>2, <1>4, <1>6, <2>3, HopsCharge
    <3>. QED  BY <1>1, <2>1, <2>3, <3>1
  <2>4. CASE Pass.exec_model # "SEQUENTIAL"
    <3>1. ~hop
      BY <2>4 DEF Moves
    <3>. QED  BY <1>1, <2>1, <2>2, <2>4, <3>1
  <2>. QED  BY <2>3, <2>4
<1>8. Pass' = Pass
  BY <1>1 DEF Pass
<1>9. /\ p' - 1 <= Len(passes')
      /\ \A y \in Charges : Copies(record'.energy_j, y) = Due(passes', job'.model, p' - 1, y)
  BY <1>1 DEF Billed
<1>10. part' = "head" => \A y \in Charges :
           LET s == StackOf(Pass', job'.model)
           IN  Copies(total'.energy_j, y) = Bill(Pass', s, Len(s), job'.model, y)
  BY <1>1, <1>7, <1>8
<1>. QED  BY <1>1, <1>3, <1>9, <1>10, FreshBilled

\* A pass whose block and head are charged is charged in full.
LEMMA PassBilled == CostInv /\ Billed /\ EndPass => Billed'
<1>. SUFFICES ASSUME CostInv, Billed, EndPass
              PROVE  Billed'
  OBVIOUS
<1>. DEFINE model == job.model
            stack == StackOf(Pass, model)
            whole == IF Pass.forward THEN Merge(total, Returned) ELSE Returned
<1>1. /\ ListDone /\ (part = "head" \/ ~Pass.forward) /\ record' = Merge(record, whole)
      /\ part' = "block" /\ p' = p + 1 /\ out' = Zero /\ prev' = "none" /\ i' = 1
      /\ UNCHANGED <<job, passes>>
  BY DEF EndPass, Fresh
<1>2. /\ Costing /\ IsRow(Pass) /\ IsPass(Pass, job) /\ IsModel(model)
      /\ p \in 1..Len(passes) /\ Len(passes) \in Nat /\ \A q \in 1..Len(passes) : IsRow(passes[q])
      /\ p - 1 \in Nat /\ p - 1 < Len(passes) /\ p - 1 + 1 = p
      /\ Sound(Returned) /\ Returned.energy_j \in Money
      /\ \A y \in Charges : Copies(Returned.energy_j, y) = Bill(Pass, List, Len(List), model, y)
  BY <1>1, ListBilled
<1>3. Typed' /\ Typed /\ Sound(total) /\ Sound(record)
  <2>1. CostInv'
    BY PassStep
  <2>. QED  BY <2>1 DEF CostInv, Books
<1>4. Sound(whole) /\ \A y \in Charges :
        Copies(whole.energy_j, y) =
          Bill(Pass, stack, Len(stack), model, y) + Bill(Pass, Pass.head, Len(Pass.head), model, y)
  <2>1. CASE Pass.forward
    <3>1. part = "head" /\ List = Pass.head
      BY <1>1, <2>1 DEF List
    <3>2. Sound(whole) /\ whole.energy_j = total.energy_j (+) Returned.energy_j
      BY <1>2, <1>3, <2>1, MergeSound
    <3>3. total.energy_j \in Money
      BY <1>3, LedgerTyped DEF Sound
    <3>4. \A y : Copies(whole.energy_j, y) = Copies(total.energy_j, y) + Copies(Returned.energy_j, y)
      BY <1>2, <3>2, <3>3, MoneyPlus
    <3>5. \A y \in Charges : Copies(total.energy_j, y) = Bill(Pass, stack, Len(stack), model, y)
      BY <1>2, <3>1 DEF Billed
    <3>. QED  BY <1>2, <3>1, <3>2, <3>4, <3>5
  <2>2. CASE ~Pass.forward
    <3>1. List = Pass.block /\ Pass.head = <<>> /\ Len(Pass.head) = 0
      BY <1>2, <1>3, <2>2 DEF List, Typed, IsPass
    <3>2. Pass \in PassRecords /\ Len(Pass.block) > 0 /\ DepthOf(Pass, model) = 1
      BY <1>2, <2>2 DEF IsRow, DepthOf
    <3>. SUFFICES ASSUME NEW y \in Charges
                  PROVE  Copies(whole.energy_j, y) =
                           Bill(Pass, stack, Len(stack), model, y)
                             + Bill(Pass, Pass.head, Len(Pass.head), model, y)
      BY <1>2, <2>2
    <3>3. Copies(Returned.energy_j, y) = Bill(Pass, Pass.block, Len(Pass.block), model, y)
          /\ Copies(Returned.energy_j, y) \in Nat
      BY <1>2, <3>1, BagTyped DEF Money
    <3>4. Bill(Pass, stack, Len(stack), model, y) = Copies(Returned.energy_j, y)
      <4>. DEFINE b == Bill(Pass, Pass.block, Len(Pass.block), model, y)
                  hop == Moves(Pass, Pass.block[Len(Pass.block)], Pass.block[1], model, y)
      <4>1. Bill(Pass, stack, Len(stack), model, y) = 1 * b + (IF hop THEN 1 - 1 ELSE 0)
        BY <1>2, <3>2, StackBill
      <4>2. b \in Nat /\ b = Copies(Returned.energy_j, y)
        BY <3>3
      <4>. HIDE DEF b, hop
      <4>. QED  BY <4>1, <4>2
    <3>5. Bill(Pass, Pass.head, Len(Pass.head), model, y) = 0
      BY <3>1, NoBill
    <3>. QED  BY <2>2, <3>3, <3>4, <3>5
  <2>. QED  BY <2>1, <2>2
<1>. HIDE DEF whole
<1>5. \A y \in Charges : Copies(record'.energy_j, y) = Due(passes, model, p, y)
  <2>. TAKE y \in Charges
  <2>1. Due(passes, model, p - 1 + 1, y) =
          Due(passes, model, p - 1, y)
            + (Bill(Pass, stack, Len(stack), model, y)
                 + Bill(Pass, Pass.head, Len(Pass.head), model, y))
    <3>1. passes[p - 1 + 1] = Pass
      BY <1>2 DEF Pass
    <3>. QED  BY <1>2, <3>1, DueMore
  <2>2. Copies(record.energy_j, y) = Due(passes, model, p - 1, y)
    BY DEF Billed
  <2>3. record'.energy_j = record.energy_j (+) whole.energy_j
    BY <1>1, <1>3, <1>4, MergeSound
  <2>4. record.energy_j \in Money /\ whole.energy_j \in Money
    BY <1>3, <1>4, LedgerTyped DEF Sound
  <2>5. Copies(record'.energy_j, y) = Copies(record.energy_j, y) + Copies(whole.energy_j, y)
    BY <2>3, <2>4, MoneyPlus
  <2>. QED  BY <1>2, <1>4, <2>1, <2>2, <2>5
<1>6. p' - 1 = p /\ p <= Len(passes) /\ passes' = passes /\ job'.model = model /\ part' # "head"
  BY <1>1, <1>2
<1>. QED  BY <1>1, <1>3, <1>5, <1>6, FreshBilled

\* Nothing is due at the start of a step.
LEMMA StartBilled ==
  ASSUME Typed', record' = Zero, out' = Zero, prev' = "none", i' = 1, p' = 1, part' = "block"
  PROVE  Billed'
<1>1. p' - 1 = 0 /\ part' # "head" /\ Len(passes') \in Nat
  BY LenProperties DEF Typed
<1>2. \A y : Copies(record'.energy_j, y) = 0
  BY ZeroSound, BagEmpty DEF Money
<1>3. \A y : Due(passes', job'.model, 0, y) = 0
  BY NothingDue
<1>. QED  BY <1>1, <1>2, <1>3, FreshBilled

\* Every action of the composers keeps the ledgers at what is due.
LEMMA ComposeBilled == CostInv /\ Billed /\ Compose => Billed'
BY SequentialBilled, PinnedBilled, SplitBilled, GlueBilled, BlockBilled, PassBilled DEF Compose

\* The ledgers speak of the variables only.
LEMMA BilledStutter == Billed /\ UNCHANGED vars => Billed'
BY DEF vars, Billed, Costing, Pass, List

\* The first step of a call starts with nothing due.
LEMMA InitBilled == Init => Billed
<1>. SUFFICES ASSUME Init
              PROVE  Billed
  OBVIOUS
<1>1. Typed
  BY CostInit DEF CostInv
<1>2. /\ record = Zero /\ out = Zero /\ prev = "none" /\ i = 1 /\ p = 1 /\ part = "block"
      /\ p - 1 = 0 /\ i - 1 = 0
  BY DEF Init
<1>3. Len(passes) \in Nat
  BY <1>1, PassesAre
<1>4. \A y : Copies(record.energy_j, y) = 0 /\ Copies(out.energy_j, y) = 0
  BY <1>2, ZeroSound, BagEmpty DEF Money
<1>5. \A y : Due(passes, job.model, 0, y) = 0 /\ Bill(Pass, List, 0, job.model, y) = 0
  BY NothingDue, NoBill
<1>6. Costing => Len(List) \in Nat
  BY <1>1, PassesAre
<1>. QED  BY <1>2, <1>3, <1>4, <1>5, <1>6 DEF Billed

\* The next step starts with nothing due.
LEMMA NextBilled ==
  ASSUME CallInv, Billed, ~Costing, NextStep, CallInv'
  PROVE  Billed'
<1>. DEFINE next == Len(costed) + 2
            jobs == JobsOf(call)
<1>1. CASE next <= Len(jobs)
  <2>1. /\ p' = 1 /\ record' = Zero /\ UNCHANGED <<part, i, prev, out, lanes, total>>
    BY <1>1 DEF NextStep
  <2>2. /\ out = Zero /\ i = 1 /\ prev = "none" /\ part = "block" /\ Typed'
    BY DEF CallInv, AtRest, Billed, CostInv, Typed
  <2>. QED  BY <2>1, <2>2, StartBilled
<1>2. CASE ~(next <= Len(jobs))
  <2>1. UNCHANGED vars
    BY <1>2 DEF NextStep
  <2>. QED  BY <2>1, BilledStutter
<1>. QED  BY <1>1, <1>2

\* Every step of a call keeps the ledgers at what is due.
THEOREM LedgersAreDue == ReportSpec => [](CallInv /\ Billed)
<1>1. ReportInit => CallInv /\ Billed
  BY CallInit, InitBilled DEF ReportInit
<1>2. CallInv /\ Billed /\ [ReportNext]_<<vars, reportVars>> => (CallInv /\ Billed)'
  <2>. SUFFICES ASSUME CallInv, Billed, [ReportNext]_<<vars, reportVars>>, CallInv'
                PROVE  Billed'
    BY CallStep
  <2>1. CASE ComposeCall
    BY <2>1, ComposeBilled DEF ComposeCall, CallInv
  <2>2. CASE EndPrefill \/ EndStep
    BY <2>2, NextBilled DEF EndPrefill, EndStep
  <2>3. CASE Reporting \/ Printed \/ UNCHANGED <<vars, reportVars>>
    BY <2>3, BilledStutter DEF Reporting, Printed
  <2>. QED  BY <2>1, <2>2, <2>3 DEF ReportNext
<1>. QED  BY <1>1, <1>2, PTL DEF ReportSpec

-----------------------------------------------------------------------------
(* What the record of a step says.                                         *)

\* The members of a set that a charge is for.
Fibre(S, f, y) == {x \in S : f[x] = y}

\* How often a finite set has each charge, as a bag.
LEMMA TallyIs ==
  ASSUME NEW S, IsFiniteSet(S), NEW f \in [S -> Charges], NEW t,
         t = [c \in {f[x] : x \in S} |-> Cardinality({x \in S : f[x] = c})]
  PROVE  t \in Money /\ \A y : Copies(t, y) = Cardinality(Fibre(S, f, y))
<1>. DEFINE D == {f[x] : x \in S}
            of(c) == {x \in S : f[x] = c}
<1>1. D \subseteq Charges /\ IsFiniteSet(D)
  <2>1. f \in Surjection(S, D)
    BY DEF Surjection
  <2>. QED  BY <2>1, FS_Surjection
<1>2. \A c : IsFiniteSet(of(c)) /\ Cardinality(of(c)) \in Nat
  <2>. TAKE c
  <2>1. of(c) \subseteq S
    OBVIOUS
  <2>. HIDE DEF of
  <2>. QED  BY <2>1, FS_Subset, FS_CardinalityType
<1>3. \A c \in D : Cardinality(of(c)) \in Nat \ {0}
  <2>. TAKE c \in D
  <2>1. of(c) # {}
    OBVIOUS
  <2>. HIDE DEF of, D
  <2>. QED  BY <2>1, <1>2, FS_EmptySet
<1>4. \A c : c \notin D => of(c) = {}
  OBVIOUS
<1>5. DOMAIN t = D /\ t = [c \in DOMAIN t |-> t[c]] /\ \A c \in D : t[c] = Cardinality(of(c))
  OBVIOUS
<1>. HIDE DEF D, of
<1>6. t \in Money
  BY <1>1, <1>3, <1>5, BagIs DEF Money
<1>7. \A y : Copies(t, y) = Cardinality(of(y))
  <2>. TAKE y
  <2>1. CASE y \in D
    BY <2>1, <1>5 DEF Copies
  <2>2. CASE y \notin D
    BY <2>2, <1>4, <1>5, FS_EmptySet DEF Copies
  <2>. QED  BY <2>1, <2>2
<1>8. \A y : of(y) = Fibre(S, f, y)
  BY DEF of, Fibre
<1>. QED  BY <1>6, <1>7, <1>8

\* Between two passes the record is the bill of the passes done.
LEMMA InvUnrolled == CostInv /\ Billed => ChargesTheUnrolledNetwork
<1>. SUFFICES ASSUME CostInv, Billed, BetweenPasses
              PROVE  ChargesTheUnrolledNetwork
  BY DEF ChargesTheUnrolledNetwork
<1>. DEFINE model == job.model
            N == Len(passes)
            n == p - 1
            done == 1..n
            ops == OpsOf(passes, model, n)
            At(x) == OpOf(passes, model, x)
            Run2(x) == ChargeOf(passes[x[1]], At(x))
            S == {x \in ops : /\ passes[x[1]].exec_model = "SEQUENTIAL"
                              /\ x[2] \in 2..Len(StackOf(passes[x[1]], model))
                              /\ At(x).device # At(<<x[1], x[2] - 1>>).device}
            G == {x \in ops : Run2(x).on = "BOTH"}
            ran == [c \in {Run2(x) : x \in ops} |-> Cardinality({x \in ops : Run2(x) = c})]
            moved == [c \in {Transfer(In1(At(x), model)) : x \in S} |->
                        Cardinality({x \in S : Transfer(In1(At(x), model)) = c})]
            gathered == [c \in {Gather(At(x)) : x \in G} |->
                           Cardinality({x \in G : Gather(At(x)) = c})]
<1>1. /\ Typed /\ N \in Nat /\ IsModel(model) /\ n \in Nat /\ n <= N
      /\ \A q \in 1..N : IsRow(passes[q])
      /\ \A y \in Charges : Copies(record.energy_j, y) = Due(passes, model, n, y)
  BY PassesAre DEF CostInv, Billed
<1>2. /\ \A x \in ops : x[1] \in 1..n /\ x[1] \in 1..N
                        /\ x[2] \in 1..Len(UnrolledOf(passes[x[1]], model))
                        /\ x = <<x[1], x[2]>>
      /\ \A q \in 1..n : \A j \in 1..Len(UnrolledOf(passes[q], model)) : <<q, j>> \in ops
  <2>1. \A q \in 1..n : RowsOf(passes, model)[q] = 1..Len(UnrolledOf(passes[q], model))
    BY <1>1 DEF RowsOf
  <2>. QED  BY <1>1, <2>1 DEF OpsOf, RowPairs
<1>3. IsFiniteSet(ops) /\ ops \subseteq OpsOf(passes, model, N)
  <2>1. ops \subseteq OpsOf(passes, model, N)
    BY <1>1 DEF OpsOf, RowPairs
  <2>. QED  BY <1>1, <2>1, OpsFinite
<1>4. ASSUME NEW x \in ops
      PROVE  /\ At(x) \in PlacedLayers /\ Run2(x) \in Charges
             /\ Run2(x).on = "BOTH" => Gather(At(x)) \in Charges
             /\ Transfer(In1(At(x), model)) \in Charges
  <2>1. IsRow(passes[x[1]]) /\ x[2] \in 1..Len(UnrolledOf(passes[x[1]], model))
    BY <1>1, <1>2
  <2>2. UnrolledOf(passes[x[1]], model) \in Seq(PlacedLayers) /\ passes[x[1]] \in PassRecords
    BY <1>1, <2>1, UnrolledIs DEF IsRow
  <2>3. At(x) \in PlacedLayers
    BY <2>1, <2>2 DEF OpOf
  <2>4. In1(At(x), model) \in Nat
    BY <1>1, <2>3, In1Typed
  <2>5. Transfer(In1(At(x), model)) \in Charges
    BY <2>4, TransferIs DEF IsCharge
  <2>. HIDE DEF At
  <2>. QED  BY <2>2, <2>3, <2>5, ChargeOfIs
<1>5. /\ ran \in Money
      /\ \A y \in Charges : Copies(ran, y) = Cardinality(RanBy(passes, model, y) \cap ops)
  <2>. DEFINE f == [x \in ops |-> Run2(x)]
  <2>1. f \in [ops -> Charges] /\ \A x \in ops : f[x] = Run2(x)
    BY <1>4
  <2>2. ran = [c \in {f[x] : x \in ops} |-> Cardinality({x \in ops : f[x] = c})]
    OBVIOUS
  <2>3. \A y : Fibre(ops, f, y) = RanBy(passes, model, y) \cap ops
    BY <1>3 DEF RanBy, Fibre
  <2>. HIDE DEF f, ran, ops
  <2>4. ran \in Money /\ \A y : Copies(ran, y) = Cardinality(Fibre(ops, f, y))
    BY ONLY <1>3, <2>1, <2>2, TallyIs
  <2>. QED  BY <2>3, <2>4
<1>6. /\ gathered \in Money
      /\ \A y \in Charges : Copies(gathered, y) = Cardinality(GatheredBy(passes, model, y) \cap ops)
  <2>. DEFINE f == [x \in G |-> Gather(At(x))]
  <2>1. f \in [G -> Charges] /\ \A x \in G : f[x] = Gather(At(x))
    BY <1>4
  <2>2. gathered = [c \in {f[x] : x \in G} |-> Cardinality({x \in G : f[x] = c})]
    OBVIOUS
  <2>3. \A y : Fibre(G, f, y) = GatheredBy(passes, model, y) \cap ops
    BY <1>3 DEF GatheredBy, Fibre
  <2>4. IsFiniteSet(G)
    <3>1. G \subseteq ops
      OBVIOUS
    <3>. HIDE DEF G, ops
    <3>. QED  BY <1>3, <3>1, FS_Subset
  <2>. HIDE DEF f, gathered, G, ops
  <2>5. gathered \in Money /\ \A y : Copies(gathered, y) = Cardinality(Fibre(G, f, y))
    BY ONLY <2>4, <2>1, <2>2, TallyIs
  <2>. QED  BY <2>3, <2>5
<1>7. /\ moved \in Money
      /\ \A y \in Charges : Copies(moved, y) = Cardinality(MovedBy(passes, model, y) \cap ops)
  <2>. DEFINE f == [x \in S |-> Transfer(In1(At(x), model))]
  <2>1. f \in [S -> Charges] /\ \A x \in S : f[x] = Transfer(In1(At(x), model))
    BY <1>4
  <2>2. moved = [c \in {f[x] : x \in S} |-> Cardinality({x \in S : f[x] = c})]
    OBVIOUS
  <2>3. \A y : Fibre(S, f, y) = MovedBy(passes, model, y) \cap ops
    BY <1>3 DEF MovedBy, Moves, Fibre
  <2>4. IsFiniteSet(S)
    <3>1. S \subseteq ops
      OBVIOUS
    <3>. HIDE DEF S, ops
    <3>. QED  BY <1>3, <3>1, FS_Subset
  <2>. HIDE DEF f, moved, S, ops
  <2>5. moved \in Money /\ \A y : Copies(moved, y) = Cardinality(Fibre(S, f, y))
    BY ONLY <2>4, <2>1, <2>2, TallyIs
  <2>. QED  BY <2>3, <2>5
<1>8. /\ record.time_s = record.energy_j /\ record.energy_j \in Money
      /\ \A y \in Charges : Copies(record.energy_j, y) =
           Cardinality(RanBy(passes, model, y) \cap ops)
             + Cardinality(GatheredBy(passes, model, y) \cap ops)
             + Cardinality(MovedBy(passes, model, y) \cap ops)
  BY <1>1 DEF CostInv, Books, Sound, Ledgers, Due
<1>9. record.time_s = ran (+) moved (+) gathered
  <2>. HIDE DEF ran, moved, gathered, ops
  <2>1. ran (+) moved \in Money /\ \A y : Copies(ran (+) moved, y) = Copies(ran, y) + Copies(moved, y)
    BY <1>5, <1>7, MoneyPlus
  <2>2. /\ ran (+) moved (+) gathered \in Money
        /\ \A y : Copies(ran (+) moved (+) gathered, y) = Copies(ran (+) moved, y) + Copies(gathered, y)
    BY <2>1, <1>6, MoneyPlus
  <2>3. \A y \in Charges : /\ Copies(ran, y) \in Nat /\ Copies(moved, y) \in Nat
                           /\ Copies(gathered, y) \in Nat
    BY <1>5, <1>6, <1>7, BagTyped DEF Money
  <2>4. \A y \in Charges : Copies(record.time_s, y) = Copies(ran (+) moved (+) gathered, y)
    <3>. TAKE y \in Charges
    <3>1. Copies(record.time_s, y) = Copies(ran, y) + Copies(gathered, y) + Copies(moved, y)
      BY <1>5, <1>6, <1>7, <1>8
    <3>2. Copies(ran (+) moved (+) gathered, y) = Copies(ran, y) + Copies(moved, y) + Copies(gathered, y)
      BY <2>1, <2>2
    <3>. QED  BY <2>3, <3>1, <3>2
  <2>. QED  BY <1>8, <2>2, <2>4, BagSame DEF Money
<1>10. ChargesTheUnrolledNetwork
  <2>1. \A q : Unrolled(q) = UnrolledOf(passes[q], model)
    BY DEF Unrolled, UnrolledOf, StackOf, Depth, DepthOf, Block, Offset
  <2>2. \A q, l : Runs(q, l) = ChargeOf(passes[q], l)
    BY DEF Runs, ChargeOf, InSequence
  <2>. DEFINE ops0 == UNION {{<<q, j>> : j \in DOMAIN Unrolled(q)} : q \in 1..(p - 1)}
              At0(x) == Unrolled(x[1])[x[2]]
              Run0(x) == Runs(x[1], At0(x))
              S0 == {x \in ops0 :
                /\ InSequence(x[1]) /\ x[2] \in 2..(Depth(x[1]) * Len(passes[x[1]].block))
                /\ At0(x).device # At0(<<x[1], x[2] - 1>>).device}
              G0 == {x \in ops0 : Run0(x).on = "BOTH"}
              ran0 == [c \in {Run0(x) : x \in ops0} |-> Cardinality({x \in ops0 : Run0(x) = c})]
              moved0 == [c \in {Transfer(In1(At0(x), job.model)) : x \in S0} |->
                Cardinality({x \in S0 : Transfer(In1(At0(x), job.model)) = c})]
              gathered0 == [c \in {Gather(At0(x)) : x \in G0} |->
                              Cardinality({x \in G0 : Gather(At0(x)) = c})]
  <2>3. \A x : At0(x) = At(x)
    BY <2>1 DEF OpOf
  <2>4. \A x : Run0(x) = Run2(x)
    BY <2>2, <2>3
  <2>5. ops0 = ops
    <3>1. \A q \in 1..n : DOMAIN Unrolled(q) = RowsOf(passes, model)[q]
      <4>. TAKE q \in 1..n
      <4>1. q \in 1..N /\ IsRow(passes[q])
        BY <1>1
      <4>2. UnrolledOf(passes[q], model) \in Seq(PlacedLayers)
        BY <1>1, <4>1, UnrolledIs
      <4>. QED  BY <2>1, <4>1, <4>2, LenProperties DEF RowsOf
    <3>. QED  BY <3>1 DEF OpsOf, RowPairs
  <2>6. \A x \in ops : Depth(x[1]) * Len(passes[x[1]].block) = Len(StackOf(passes[x[1]], model))
    <3>. TAKE x \in ops
    <3>1. passes[x[1]] \in PassRecords /\ Len(passes[x[1]].block) > 0
      BY <1>1, <1>2 DEF IsRow
    <3>. QED  BY <1>1, <3>1, StackBill DEF Depth, DepthOf
  <2>. HIDE DEF ops0, ops, At0, At, Run0, Run2
  <2>7. G0 = G
    BY <2>4, <2>5
  <2>8. S0 = S
    BY <2>3, <2>5, <2>6 DEF InSequence
  <2>. HIDE DEF S0, S, G0, G
  <2>9. ran0 = ran
    <3>1. \A c : {x \in ops0 : Run0(x) = c} = {x \in ops : Run2(x) = c}
      BY <2>4, <2>5
    <3>2. {Run0(x) : x \in ops0} = {Run2(x) : x \in ops}
      BY <2>4, <2>5
    <3>. QED  BY <3>1, <3>2
  <2>10. moved0 = moved
    <3>1. \A c : {x \in S0 : Transfer(In1(At0(x), job.model)) = c} =
                 {x \in S : Transfer(In1(At(x), model)) = c}
      BY <2>3, <2>8
    <3>2. {Transfer(In1(At0(x), job.model)) : x \in S0} = {Transfer(In1(At(x), model)) : x \in S}
      BY <2>3, <2>8
    <3>. QED  BY <3>1, <3>2
  <2>11. gathered0 = gathered
    <3>1. \A c : {x \in G0 : Gather(At0(x)) = c} = {x \in G : Gather(At(x)) = c}
      BY <2>3, <2>7
    <3>2. {Gather(At0(x)) : x \in G0} = {Gather(At(x)) : x \in G}
      BY <2>3, <2>7
    <3>. QED  BY <3>1, <3>2
  <2>12. record.time_s = ran0 (+) moved0 (+) gathered0
    <3>. HIDE DEF ran, moved, gathered, ran0, moved0, gathered0
    <3>. QED  BY <1>9, <2>9, <2>10, <2>11
  <2>. QED  BY <2>12 DEF ChargesTheUnrolledNetwork, Tally, ops0, At0, Run0, S0, G0
<1>. QED  BY <1>10

-----------------------------------------------------------------------------
(* The properties of every call.                                           *)

\* Costing a step on its own keeps the typing and the books: the breakdowns of
\* its ledgers are views of one wall clock.
THEOREM CostInvariant == Spec => []CostInv
<1>1. CostInv /\ [Next]_vars => CostInv'
  BY ComposeStep, CostStutter DEF Next, Recorded
<1>. QED  BY <1>1, CostInit, PTL DEF Spec

\* No kernel of any call trips the devices' assertions (pim.py:74, npu.py:49).
THEOREM DispatchLegal == ReportSpec => []DispatchIsLegal
<1>1. CallInv => DispatchIsLegal
  BY InvDispatch DEF CallInv
<1>. QED  BY <1>1, CallInvariant, PTL

\* CAPIM's attention runs where the KV cache is, in every pass of every call.
THEOREM AttentionInBank == ReportSpec => []KvStaysInBank
<1>1. CallInv => KvStaysInBank
  BY DEF CallInv, CostInv
<1>. QED  BY <1>1, CallInvariant, PTL

\* The breakdowns of a pass are views of the wall clock it is recorded with.
THEOREM BreakdownsAreViews == ReportSpec => []LedgersAreViews
<1>1. CallInv => LedgersAreViews
  BY InvViews DEF CallInv
<1>. QED  BY <1>1, CallInvariant, PTL

\* The headline rates, the breakdown and the latency of a report agree.
THEOREM ReportIsOnePicture == ReportSpec => []OnePicture
BY CallInvariant, InvOnePicture, PTL

\* One block scaled, with the hops patched in, is charged as the network is,
\* layer by layer, in every pass of every call (cost_forward_pass).
THEOREM NetworkCharged == ReportSpec => []ChargesTheUnrolledNetwork
<1>1. CallInv /\ Billed => ChargesTheUnrolledNetwork
  BY InvUnrolled DEF CallInv
<1>. QED  BY <1>1, LedgersAreDue, PTL

\* The device line says that the devices overlap exactly when they do.
THEOREM TagIsRight == ReportSpec => []BusyTag
BY CallInvariant, InvBusyTag, PTL

\* LP-Spec's printed makespan is below both of its printed bounds.
THEOREM SplitPays == ReportSpec => []SplitBeatsBothDevices
BY CallInvariant, InvSplit, PTL
=============================================================================
