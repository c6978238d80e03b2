------------------------------- MODULE Report -------------------------------
(***************************************************************************)
(* One drive() call on the cost plane and what common/report.py says of    *)
(* it: the prefill and the steps are costed one after the other, each ends *)
(* in a StepRecord, and the records are aggregated per prompt for the      *)
(* headline rates and per layer type and device for the breakdown.         *)
(*                                                                         *)
(* Here the charges get amounts: Seconds and Joules give a charge's time   *)
(* and energy by its layer type and by where it ran; shapes are left out,  *)
(* and of the energies only the sum is kept.  A ratio is a record.         *)
(***************************************************************************)
EXTENDS CostPlane

CONSTANTS
  Calls,             \* [driver, model, steps, ...]: see StepJob
  Seconds, Joules    \* functions on Places, to the naturals

Places ==
  (LayerTypes \X Devices) \cup ({"FC", "MATMUL"} \X {"BOTH"})
    \cup {<<"COMM", "BUS">>, <<"COMM", "GATHER">>}

\* t_kernel of a split, r*t_n = (1-r)*t_p: both devices finish together.
ASSUME ReportAssumption ==
  /\ Seconds \in [Places -> Nat \ {0}] /\ Joules \in [Places -> Nat \ {0}]
  /\ \A type \in {"FC", "MATMUL"} :
       LET t_n == Seconds[<<type, "NPU">>]   t_p == Seconds[<<type, "PIM">>]
       IN  Seconds[<<type, "BOTH">>] * (t_n + t_p) = t_n * t_p

VARIABLES
  call,      \* the drive() call
  costed,    \* its StepRecords so far, the prefill's first
  report     \* <<>>, then <<the report of the finished call>>

-----------------------------------------------------------------------------
PrefillJob(c) == [driver |-> "prefill", model |-> c.model, steps |-> c.steps]

StepJob(c, s) ==
  CASE c.driver = "ar" -> [driver |-> "ar", model |-> c.model, step |-> c.steps[s]]
    [] c.driver = "capim" ->
         [driver |-> "capim", model |-> c.model, step |-> c.steps[s], cfg |-> c.cfg]
    [] c.driver = "lp_spec" ->
         [driver |-> "lp_spec", model |-> c.model, step |-> c.steps[s], m |-> c.m,
          medusa_num_heads |-> c.medusa_num_heads]

JobsOf(c) == <<PrefillJob(c)>> \o [s \in DOMAIN c.steps |-> StepJob(c, s)]

\* A call has a trace, and its prefill and steps are jobs.
ASSUME CallsAssumption ==
  \A c \in Calls :
    /\ c.driver \in {"ar", "capim", "lp_spec"}
    /\ Len(c.steps) \in Positive /\ DOMAIN c.steps = 1..Len(c.steps)
    /\ \A s \in 1..Len(JobsOf(c)) : JobsOf(c)[s] \in Jobs

Amount(bag, rate) == SumFunction([c \in DOMAIN bag |-> bag[c] * rate[<<TypeOf(c), c.on>>]])

Amounts(bags, rate) == [k \in DOMAIN bags |-> Amount(bags[k], rate)]

\* The StepRecord of a costed step.  LP-Spec's steps accept in full here.
StepRecord(j, cost) ==
  [prompt_id |-> j.step.prompt_id,
   tokens_emitted |-> IF j.driver = "capim" THEN Tokens(j.step, j.cfg)
                      ELSE j.step.accepted_length + 1,
   time_s |-> Amount(cost.time_s, Seconds), energy_j |-> Amount(cost.energy_j, Joules),
   time_by_device |-> Amounts(cost.time_by_device, Seconds),
   time_by_type |-> Amounts(cost.time_by_type, Seconds),
   crossings |-> cost.crossings,
   split_t_npu_bound |-> Amount(cost.split_t_npu_bound, Seconds),
   split_t_pim_bound |-> Amount(cost.split_t_pim_bound, Seconds)]

-----------------------------------------------------------------------------
Ratio(a, b) == [num |-> a, den |-> b]
Over(x, y) == Ratio(x.num * y.den, x.den * y.num)
By(x, y) == Ratio(x.num * y.num, x.den * y.den)
Plus(x, y) == Ratio(x.num * y.den + y.num * x.den, x.den * y.den)
Equal(x, y) == x.num * y.den = y.num * x.den

Prompts(steps) == {steps[s].prompt_id : s \in DOMAIN steps}

\* The total of a field over some of the steps.
Total(steps, S, field) == SumFunction([s \in S |-> steps[s][field]])

AggregateLast(steps, field) ==   \* slip: a prompt's later step replaces the bucket
  [q \in Prompts(steps) |->
     steps[Max({s \in DOMAIN steps : steps[s].prompt_id = q})][field]]

\* One field of the PromptAggs: the steps of a prompt are added up.
Aggregate(steps, field) ==
  [q \in Prompts(steps) |->
     Total(steps, {s \in DOMAIN steps : steps[s].prompt_id = q}, field)]

MeanOf(steps, field) ==
  LET f == Aggregate(steps, field) IN Ratio(SumFunction(f), Cardinality(DOMAIN f))

\* The headline rates are ratios of the means over the prompts.
Summarize(steps, prefill_time_s) ==
  LET t_m == MeanOf(steps, "time_s")
      e_m == MeanOf(steps, "energy_j")
      tok_m == MeanOf(steps, "tokens_emitted")
  IN  [token_per_s_mean |-> Over(tok_m, t_m), token_per_j_mean |-> Over(tok_m, e_m),
       edp_mean |-> By(Over(t_m, tok_m), Over(e_m, tok_m)),
       end_to_end_latency_s |-> Plus(t_m, prefill_time_s)]

Rollup(type) ==
  CASE type = "FC" -> "FC" [] type = "MATMUL" -> "Attn" [] type \in NONLINEAR -> "NL"
    [] type = "COMM" -> "Comm"

OfLastStep(steps, field) == steps[Len(steps)][field]   \* slip: assigned, not added

SumOf(steps, field) == Total(steps, DOMAIN steps, field)

\* The totals per bucket and device; FC and attention together are printed as
\* the makespan of the split kernels.
Breakdown(steps) ==
  LET types == LayerTypes \cup {"COMM"}
      time_by_type ==
        [b \in {Rollup(t) : t \in types} |->
           SumFunction([x \in (DOMAIN steps) \X {t \in types : Rollup(t) = b} |->
                          steps[x[1]].time_by_type[x[2]]])]
  IN  [tokens |-> SumOf(steps, "tokens_emitted"), time_s |-> SumOf(steps, "time_s"),
       energy_j |-> SumOf(steps, "energy_j"), time_by_type |-> time_by_type,
       time_by_device |-> [d \in Devices |->
          SumFunction([s \in DOMAIN steps |-> steps[s].time_by_device[d]])],
       split_t_npu_bound |-> SumOf(steps, "split_t_npu_bound"),
       split_t_pim_bound |-> SumOf(steps, "split_t_pim_bound"),
       split_makespan |-> time_by_type["FC"] + time_by_type["Attn"]]

\* What breakdown_table prints of it.
PrintedTypes == {"FC", "Attn", "NL", "Comm"}

ConcurrentIfSplit(b) == b.split_makespan > 0   \* slip: holds of unsplit kernels too

\* It adds the busy-time tag when some kernel was split.
Concurrent(b) == b.split_t_npu_bound > 0

-----------------------------------------------------------------------------
reportVars == <<call, costed, report>>

ReportInit ==
  /\ call \in Calls /\ job = JobsOf(call)[1] /\ Init
  /\ costed = <<>> /\ report = <<>>

ComposeCall == Compose /\ UNCHANGED reportVars

Remaining == Len(costed) < Len(JobsOf(call))

\* The driver turns to the next step with nothing in the record.
NextStep ==
  LET next == Len(costed) + 2
  IN  IF next <= Len(JobsOf(call))
      THEN /\ job' = JobsOf(call)[next] /\ passes' = Passes(job') /\ p' = 1 /\ record' = Zero
           /\ UNCHANGED <<part, i, prev, out, lanes, total>>
      ELSE UNCHANGED vars

\* prefill_means: its time, over the prompts.
EndPrefill ==
  /\ ~Costing /\ costed = <<>>
  /\ costed' = <<[time_s |-> Amount(record.time_s, Seconds), prompts |-> Len(passes)]>>
  /\ NextStep /\ UNCHANGED <<call, report>>

EndStep ==
  /\ ~Costing /\ costed # <<>> /\ Remaining
  /\ costed' = Append(costed, StepRecord(job, record))
  /\ NextStep /\ UNCHANGED <<call, report>>

\* summarize and breakdown of the finished call.
Reporting ==
  /\ ~Remaining /\ report = <<>>
  /\ report' = <<[summary |-> Summarize(Tail(costed),
                                Ratio(costed[1].time_s, costed[1].prompts)),
                  breakdown |-> Breakdown(Tail(costed))]>>
  /\ UNCHANGED <<vars, call, costed>>

Printed == report # <<>> /\ UNCHANGED <<vars, reportVars>>

ReportNext == ComposeCall \/ EndPrefill \/ EndStep \/ Reporting \/ Printed

ReportSpec == ReportInit /\ [][ReportNext]_<<vars, reportVars>>

-----------------------------------------------------------------------------
Reported == report # <<>>

\* The headline and the breakdown are one picture of the call: the ratio of
\* the means over the prompts is the rate of all steps (report.py:5
\* "equals Σtokens / Σtime"), the printed rows of the latency add up to it,
\* and the end-to-end latency is the mean over the same prompts of the prefill
\* and of the decode steps.
OnePicture ==
  Reported =>
    LET s == report[1].summary   b == report[1].breakdown
        n == Cardinality(Prompts(call.steps))
    IN  /\ Equal(s.token_per_s_mean, Ratio(b.tokens, b.time_s))
        /\ Equal(s.token_per_j_mean, Ratio(b.tokens, b.energy_j))
        /\ Equal(s.edp_mean, Ratio(b.time_s * b.energy_j, b.tokens * b.tokens))
        /\ SumFunctionOnSet(b.time_by_type, PrintedTypes \cap DOMAIN b.time_by_type) = b.time_s
        /\ Equal(s.end_to_end_latency_s, Ratio(costed[1].time_s + b.time_s, n))

\* The device line carries the busy-time tag exactly when it is one: the two
\* devices partition the wall clock unless a kernel was split, whichever driver
\* ran (report.py:181 has it that CAPIM's always do), and overlap then; neither
\* is ever busy for longer than the wall clock.
BusyTag ==
  Reported =>
    LET b == report[1].breakdown
        both == b.time_by_device["NPU"] + b.time_by_device["PIM"]
    IN  /\ IF Concurrent(b) THEN both > b.time_s ELSE both = b.time_s
        /\ \A d \in Devices : b.time_by_device[d] <= b.time_s

\* A balanced split beats either device alone, kernel by kernel and so over a
\* call: for LP-Spec, all of whose kernels are split, the printed makespan is
\* below both of the bounds it is printed with (system.py:53, "in band").
SplitBeatsBothDevices ==
  Reported /\ call.driver = "lp_spec" =>
    LET b == report[1].breakdown
    IN  b.split_makespan < b.split_t_npu_bound /\ b.split_makespan < b.split_t_pim_bound
=============================================================================
